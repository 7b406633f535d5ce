-------------------------- MODULE DeviceRelayProofs --------------------------
(***************************************************************************)
(* Proofs about DeviceRelay, for any number of requests, raw commands,     *)
(* names and tunnel attempts.                                              *)
(***************************************************************************)
EXTENDS DeviceRelay, TLAPS

On(s, q) == \E i \in 1..Len(s) : s[i].of = q
Runs(q)  == running # None /\ running.of = q
Held(q)  == pending_rc # None /\ pending_rc.of = q

(* Commands whose marker was sent. *)
Emitted == {r \in Request : pc[r] \in {"waiting", "answered"}} \cup signals

(***************************************************************************)
(* The inductive invariant.  The lock's holder is the one request whose    *)
(* name acks are matched with (Locked).  What stands for a command on its  *)
(* way to the dispatcher and back exists once: a marker on the pty, the    *)
(* command, an ack on the pty, or the ack that was taken (Once), and it    *)
(* carries the command's name and, as an ack, its status (Genuine).  An    *)
(* ack that answered someone is spent: nothing stands for its command any  *)
(* more, and if that is another request's, this one was answered without   *)
(* it (Spent).  So a request that was told zero can be traced to a command *)
(* of its name that ran with zero (Traced).                                *)
(***************************************************************************)
Locked ==
  /\ \A r \in Request : pc[r] \in {"prepared", "waiting"} <=> dev_lock = r
  /\ dev_lock = None => pending_name = None
  /\ dev_lock # None => pending_name = name[dev_lock]
  /\ dev_lock # None /\ pending_rc # None => pending_rc.name = pending_name

Unique(s) == \A i, j \in 1..Len(s) : s[i].of = s[j].of => i = j

Once ==
  /\ Unique(pty) /\ Unique(acks)
  /\ \A q \in Command :
       /\ On(pty, q) => ~Runs(q) /\ ~On(acks, q) /\ ~Held(q)
       /\ Runs(q) => ~On(acks, q) /\ ~Held(q)
       /\ On(acks, q) => ~Held(q)
       /\ On(pty, q) \/ Runs(q) \/ On(acks, q) \/ Held(q) => q \in Emitted

Named(m) == m.name = name[m.of]
Ran(a, status) == Named(a) /\ a.rc = status[a.of]

Genuine ==
  /\ \A i \in 1..Len(pty) : Named(pty[i])
  /\ running # None => Named(running)
  /\ \A i \in 1..Len(acks) : Ran(acks[i], outcome)
  /\ pending_rc # None => Ran(pending_rc, outcome)

Spent ==
  \A r \in Request, q \in Command : source[r] = q =>
    /\ ~On(pty, q) /\ ~Runs(q) /\ ~On(acks, q) /\ (dev_lock # None => ~Held(q))
    /\ pc[r] = "answered" /\ q \in Emitted
    /\ q \in Request => pc[q] = "answered" /\ (q # r => source[q] # q)

Traced ==
  \A r \in Request : told[r] = "zero" =>
    /\ pc[r] = "answered"
    /\ source[r] # None /\ name[source[r]] = name[r] /\ outcome[source[r]] = "zero"

IInv == TypeOK /\ Locked /\ Once /\ Genuine /\ Spent /\ Traced

\* What Append adds to a sequence of markers or acks.
LEMMA AppendOn ==
  ASSUME NEW S, NEW s \in Seq(S), NEW e \in S
  PROVE  /\ \A q : On(Append(s, e), q) <=> On(s, q) \/ e.of = q
         /\ Unique(s) /\ ~On(s, e.of) => Unique(Append(s, e))
         /\ \A i \in 1..Len(Append(s, e)) :
              Append(s, e)[i] = e \/ \E k \in 1..Len(s) : Append(s, e)[i] = s[k]
<1>1. /\ Len(Append(s, e)) = Len(s) + 1 /\ Len(s) \in Nat
      /\ \A i \in 1..Len(s) : Append(s, e)[i] = s[i]
      /\ Append(s, e)[Len(s) + 1] = e
  OBVIOUS
<1>2. \A i \in 1..(Len(s) + 1) : i \in 1..Len(s) \/ i = Len(s) + 1
  BY <1>1
<1>3. \A i \in 1..Len(s) : i \in 1..(Len(s) + 1)
  BY <1>1
<1>4. Len(s) + 1 \in 1..(Len(s) + 1)
  BY <1>1
<1> QED
  BY <1>1, <1>2, <1>3, <1>4 DEF On, Unique

\* What Tail takes from it.
LEMMA TailOn ==
  ASSUME NEW S, NEW s \in Seq(S), s # <<>>
  PROVE  /\ Tail(s) \in Seq(S) /\ Head(s) \in S
         /\ 1 \in 1..Len(s) /\ Head(s) = s[1]
         /\ \A q : On(Tail(s), q) => On(s, q)
         /\ On(s, Head(s).of)
         /\ Unique(s) => Unique(Tail(s)) /\ ~On(Tail(s), Head(s).of)
         /\ \A i \in 1..Len(Tail(s)) : \E k \in 1..Len(s) : Tail(s)[i] = s[k]
<1>1. /\ Tail(s) \in Seq(S) /\ Head(s) \in S /\ 1 \in 1..Len(s) /\ Head(s) = s[1]
      /\ \A i \in 1..Len(Tail(s)) :
           i + 1 \in 1..Len(s) /\ i + 1 # 1 /\ Tail(s)[i] = s[i + 1]
      /\ \A i, k \in 1..Len(Tail(s)) : i + 1 = k + 1 => i = k
  OBVIOUS
<1> QED
  BY <1>1 DEF On, Unique

\* A marker that was sent stays so.
LEMMA EmittedGrows ==
  ASSUME TypeOK, [Next]_vars
  PROVE  \A q : q \in Emitted => q \in Emitted'
<1> USE DEF handlers, pending, dispatcher
<1>1. ASSUME NEW r \in Request, NEW to, pc' = [pc EXCEPT ![r] = to],
             pc[r] \notin {"waiting", "answered"} \/ to = "answered", signals' = signals
      PROVE  \A q : q \in Emitted => q \in Emitted'
  BY <1>1 DEF Emitted, TypeOK
<1>2. ASSUME pc' = pc, signals \subseteq signals'
      PROVE  \A q : q \in Emitted => q \in Emitted'
  BY <1>2 DEF Emitted
<1>3. CASE UNCHANGED vars
  BY <1>2, <1>3 DEF vars
<1>4. CASE \E r \in Request : Accept(r) \/ Handler(r) \/ ClientLeaves(r)
  BY <1>1, <1>2, <1>4
     DEF Handler, Accept, Prepare, Emit, Acked, TimesOut, Reply, ClientLeaves
<1>5. CASE \E x \in Raw : Signal(x)
  BY <1>2, <1>5 DEF Signal
<1>6. CASE ReadAck \/ TunnelExits \/ ReadMarker \/ (\E rc \in Status : RunCommand(rc)) \/ IgnoreMarker
  BY <1>2, <1>6 DEF ReadAck, TunnelExits, ReadMarker, RunCommand, IgnoreMarker
<1> QED
  BY <1>3, <1>4, <1>5, <1>6 DEF Next

\* Every step keeps the variables well typed.
LEMMA TypeStep == IInv /\ [Next]_vars => TypeOK'
<1> SUFFICES ASSUME IInv, [Next]_vars PROVE TypeOK'
  OBVIOUS
<1> USE DEF handlers, pending, dispatcher
<1>0. TypeOK
  BY DEF IInv
<1>1. ASSUME NEW r \in Request, Accept(r) PROVE TypeOK'
  BY <1>1, <1>0, AttemptsArePositive DEF Accept, TypeOK
<1>2. ASSUME NEW r \in Request, Prepare(r) PROVE TypeOK'
  BY <1>2, <1>0 DEF Prepare, FreshRc, TypeOK, Command
<1>3. ASSUME NEW r \in Request, Emit(r) PROVE TypeOK'
  <2>1. [of |-> r, name |-> name[r]] \in Marker
    BY <1>0 DEF TypeOK, Marker, Command
  <2> QED
    BY <1>3, <1>0, <2>1 DEF Emit, TypeOK
<1>4. ASSUME NEW r \in Request, Acked(r) PROVE TypeOK'
  <2>1. pending_rc.rc \in Status /\ pending_rc.of \in Command
    BY <1>4, <1>0 DEF Acked, TypeOK, Ack
  <2> QED
    BY <1>4, <1>0, <2>1 DEF Acked, Reply, TypeOK
<1>5. ASSUME NEW r \in Request, TimesOut(r) PROVE TypeOK'
  <2>1. "nonzero" \in Status
    BY DEF Status
  <2> QED
    BY <1>5, <1>0, <2>1 DEF TimesOut, Reply, TypeOK
<1>6. ASSUME NEW r \in Request, ClientLeaves(r) PROVE TypeOK'
  BY <1>6, <1>0, AttemptsArePositive DEF ClientLeaves, TypeOK
<1>7. ASSUME NEW x \in Raw, Signal(x) PROVE TypeOK'
  <2>1. [of |-> x, name |-> name[x]] \in Marker
    BY <1>0 DEF Marker, Command, TypeOK
  <2> QED
    BY <1>7, <1>0, <2>1, AttemptsArePositive DEF Signal, TypeOK
<1>8. CASE ReadAck
  <2>1. Tail(acks) \in Seq(Ack) /\ Head(acks) \in Ack
    BY <1>8, <1>0, TailOn DEF ReadAck, TypeOK
  <2> QED
    BY <1>8, <1>0, <2>1 DEF ReadAck, TypeOK
<1>9. CASE TunnelExits
  <2>1. attempt' \in 1..(Attempts + 1) /\ "nonzero" \in Status
    BY <1>9, <1>0, AttemptsArePositive DEF TunnelExits, Alive, TypeOK, Status
  <2> QED
    BY <1>9, <1>0, <2>1 DEF TunnelExits, TypeOK
<1>10. CASE ReadMarker
  <2>1. Tail(pty) \in Seq(Marker) /\ Head(pty) \in Marker
    BY <1>10, <1>0, TailOn DEF ReadMarker, TypeOK
  <2> QED
    BY <1>10, <1>0, <2>1 DEF ReadMarker, TypeOK
<1>11. ASSUME NEW rc \in Status, RunCommand(rc) PROVE TypeOK'
  <2>1. [of |-> running.of, name |-> running.name, rc |-> rc] \in Ack
    BY <1>11, <1>0 DEF RunCommand, TypeOK, Marker, Ack
  <2>2. outcome' \in [Command -> Status \cup {None}]
    BY <1>11, <1>0 DEF RunCommand, TypeOK
  <2>3. acks' \in Seq(Ack)
    BY <1>11, <1>0, <2>1 DEF RunCommand, TypeOK
  <2> QED
    BY <1>11, <1>0, <2>2, <2>3 DEF RunCommand, TypeOK
<1>12. CASE IgnoreMarker
  BY <1>12, <1>0, AttemptsArePositive DEF IgnoreMarker, TypeOK
<1>13. CASE UNCHANGED vars
  BY <1>13, <1>0, AttemptsArePositive DEF vars, TypeOK
<1> QED
  BY <1>1, <1>2, <1>3, <1>4, <1>5, <1>6, <1>7, <1>8, <1>9, <1>10, <1>11, <1>12, <1>13 DEF Next, Handler

\* One request at a time waits, and acks are matched with its name.
LEMMA LockedStep == IInv /\ [Next]_vars => Locked'
<1> SUFFICES ASSUME IInv, [Next]_vars PROVE Locked'
  OBVIOUS
<1> USE DEF handlers, pending, dispatcher
<1>0. TypeOK /\ Locked
  BY DEF IInv
<1>1. ASSUME NEW r \in Request, Accept(r) PROVE Locked'
  BY <1>1, <1>0, NoneIsNoMember DEF Accept, Locked, TypeOK
<1>2. ASSUME NEW r \in Request, Prepare(r) PROVE Locked'
  BY <1>2, <1>0, NoneIsNoMember DEF Prepare, FreshRc, Locked, TypeOK, Command
<1>3. ASSUME NEW r \in Request, Emit(r) PROVE Locked'
  BY <1>3, <1>0, NoneIsNoMember DEF Emit, Locked, TypeOK
<1>4. ASSUME NEW r \in Request, Acked(r) PROVE Locked'
  BY <1>4, <1>0, NoneIsNoMember DEF Acked, Reply, Locked, TypeOK, Command
<1>5. ASSUME NEW r \in Request, TimesOut(r) PROVE Locked'
  BY <1>5, <1>0, NoneIsNoMember DEF TimesOut, Reply, Locked, TypeOK, Command
<1>6. ASSUME NEW r \in Request, ClientLeaves(r) PROVE Locked'
  BY <1>6, <1>0, NoneIsNoMember DEF ClientLeaves, Locked, TypeOK
<1>7. ASSUME NEW x \in Raw, Signal(x) PROVE Locked'
  BY <1>7, <1>0, NoneIsNoMember DEF Signal, Locked, TypeOK
<1>8. CASE ReadAck
  BY <1>8, <1>0, NoneIsNoMember DEF ReadAck, Matches, Locked, TypeOK
<1>9. CASE TunnelExits
  BY <1>9, <1>0, NoneIsNoMember DEF TunnelExits, Locked, TypeOK
<1>10. CASE ReadMarker
  BY <1>10, <1>0, NoneIsNoMember DEF ReadMarker, Locked, TypeOK
<1>11. ASSUME NEW rc \in Status, RunCommand(rc) PROVE Locked'
  BY <1>11, <1>0, NoneIsNoMember DEF RunCommand, Locked, TypeOK
<1>12. CASE IgnoreMarker
  BY <1>12, <1>0, NoneIsNoMember DEF IgnoreMarker, Locked, TypeOK
<1>13. CASE UNCHANGED vars
  BY <1>13, <1>0, NoneIsNoMember DEF vars, Locked, TypeOK
<1> QED
  BY <1>1, <1>2, <1>3, <1>4, <1>5, <1>6, <1>7, <1>8, <1>9, <1>10, <1>11, <1>12, <1>13 DEF Next, Handler

\* No step puts a second marker or ack of a request on its way.
LEMMA OnceStep == IInv /\ [Next]_vars => Once'
<1> SUFFICES ASSUME IInv, [Next]_vars PROVE Once'
  OBVIOUS
<1> USE DEF handlers, pending, dispatcher
<1>0. TypeOK /\ Locked /\ Once /\ (\A q : q \in Emitted => q \in Emitted')
  BY EmittedGrows DEF IInv
<1>1. ASSUME NEW r \in Request, Accept(r) PROVE Once'
  BY <1>1, <1>0 DEF Accept, Once, Runs, Held, TypeOK
<1>2. ASSUME NEW r \in Request, Prepare(r) PROVE Once'
  BY <1>2, <1>0 DEF Prepare, FreshRc, Once, Runs, Held, TypeOK
<1>3. ASSUME NEW r \in Request, Emit(r) PROVE Once'
  <2>1. [of |-> r, name |-> name[r]] \in Marker /\ pty' = Append(pty, [of |-> r, name |-> name[r]])
    BY <1>3, <1>0 DEF Emit, TypeOK, Marker, Command
  <2>2. r \in Command /\ r \notin Emitted /\ r \in Emitted'
    BY <1>3, <1>0, RawIsNoRequest DEF Emit, Command, Emitted, TypeOK
  <2>3. ~On(pty, r) /\ ~Runs(r) /\ ~On(acks, r) /\ ~Held(r)
    BY <1>0, <2>2 DEF Once
  <2>4. /\ \A q : On(pty', q) <=> On(pty, q) \/ q = r
        /\ Unique(pty')
    <3>1. pty \in Seq(Marker) /\ Unique(pty)
      BY <1>0 DEF TypeOK, Once
    <3> QED
      BY <2>1, <2>3, <3>1, AppendOn
  <2>5. UNCHANGED <<running, acks, pending_rc>>
    BY <1>3 DEF Emit
  <2> QED
    BY <1>0, <2>2, <2>3, <2>4, <2>5 DEF Once, Runs, Held
<1>4. ASSUME NEW r \in Request, Acked(r) PROVE Once'
  BY <1>4, <1>0 DEF Acked, Reply, Once, Runs, Held, TypeOK
<1>5. ASSUME NEW r \in Request, TimesOut(r) PROVE Once'
  BY <1>5, <1>0 DEF TimesOut, Reply, Once, Runs, Held, TypeOK
<1>6. ASSUME NEW r \in Request, ClientLeaves(r) PROVE Once'
  BY <1>6, <1>0 DEF ClientLeaves, Once, Runs, Held, TypeOK
<1>7. ASSUME NEW x \in Raw, Signal(x) PROVE Once'
  <2>1. /\ [of |-> x, name |-> name[x]] \in Marker
        /\ pty' = Append(pty, [of |-> x, name |-> name[x]])
        /\ pty \in Seq(Marker) /\ Unique(pty)
    BY <1>7, <1>0 DEF Signal, Marker, Command, TypeOK, Once
  <2>2. x \in Command /\ x \notin Emitted /\ x \in Emitted'
    BY <1>7, RawIsNoRequest DEF Signal, Command, Emitted
  <2>3. ~On(pty, x) /\ ~Runs(x) /\ ~On(acks, x) /\ ~Held(x)
    BY <1>0, <2>2 DEF Once
  <2>4. /\ \A q : On(pty', q) <=> On(pty, q) \/ q = x
        /\ Unique(pty')
    BY <2>1, <2>3, AppendOn
  <2>5. UNCHANGED <<running, acks, pending_rc>>
    BY <1>7 DEF Signal
  <2> QED
    BY <1>0, <2>2, <2>3, <2>4, <2>5 DEF Once, Runs, Held
<1>8. CASE ReadAck
  <2>1. acks \in Seq(Ack) /\ acks # <<>> /\ acks' = Tail(acks)
    BY <1>8, <1>0 DEF ReadAck, TypeOK
  <2>2. /\ \A q : On(acks', q) => On(acks, q)
        /\ On(acks, Head(acks).of) /\ Unique(acks')
        /\ ~On(acks', Head(acks).of)
    BY <1>0, <2>1, TailOn DEF Once
  <2>3. /\ UNCHANGED <<running, pty>>
        /\ pending_rc' \in {pending_rc, Head(acks)}
    BY <1>8 DEF ReadAck
  <2>4. \A q \in Command : Held(q)' => Held(q) \/ q = Head(acks).of
    BY <2>3 DEF Held
  <2> QED
    BY <1>0, <2>2, <2>3, <2>4 DEF Once, Runs
<1>9. CASE TunnelExits
  BY <1>9, <1>0 DEF TunnelExits, Once, Runs, Held, TypeOK
<1>10. CASE ReadMarker
  <2>1. pty \in Seq(Marker) /\ pty # <<>> /\ pty' = Tail(pty)
    BY <1>10, <1>0 DEF ReadMarker, TypeOK
  <2>2. /\ \A q : On(pty', q) => On(pty, q)
        /\ On(pty, Head(pty).of) /\ Unique(pty')
        /\ ~On(pty', Head(pty).of)
    BY <1>0, <2>1, TailOn DEF Once
  <2>3. UNCHANGED <<acks, pending_rc>> /\ running' = Head(pty)
    BY <1>10 DEF ReadMarker
  <2>4. \A q \in Command : Runs(q)' => q = Head(pty).of
    BY <2>3 DEF Runs
  <2> QED
    BY <1>0, <2>2, <2>3, <2>4 DEF Once, Held
<1>11. ASSUME NEW rc \in Status, RunCommand(rc) PROVE Once'
  <2> DEFINE ack == [of |-> running.of, name |-> running.name, rc |-> rc]
  <2>1. ack \in Ack /\ acks' = Append(acks, ack) /\ acks \in Seq(Ack)
    BY <1>11, <1>0 DEF RunCommand, TypeOK, Marker, Ack
  <2>2. ack.of = running.of /\ Runs(ack.of) /\ ack.of \in Command
    BY <1>11, <1>0 DEF RunCommand, Runs, TypeOK, Marker
  <2>3. ~On(acks, ack.of)
    BY <1>0, <2>2 DEF Once
  <2>4. (\A q : On(acks', q) <=> On(acks, q) \/ q = ack.of) /\ Unique(acks')
    <3> HIDE DEF ack
    <3> QED
      BY <1>0, <2>1, <2>3, AppendOn DEF Once
  <2>5. UNCHANGED <<pty, pending_rc>> /\ running' = None
    BY <1>11 DEF RunCommand
  <2>6. \A q \in Command : q = ack.of => Runs(q)
    BY <2>2
  <2> QED
    BY <1>0, <2>4, <2>5, <2>6 DEF Once, Runs, Held
<1>12. CASE IgnoreMarker
  BY <1>12, <1>0 DEF IgnoreMarker, Once, Runs, Held, TypeOK
<1>13. CASE UNCHANGED vars
  BY <1>13, <1>0 DEF vars, Once, Runs, Held, TypeOK
<1> QED
  BY <1>1, <1>2, <1>3, <1>4, <1>5, <1>6, <1>7, <1>8, <1>9, <1>10, <1>11, <1>12, <1>13 DEF Next, Handler

\* Acks carry the name and the status of the command they are of.
LEMMA GenuineStep == IInv /\ [Next]_vars => Genuine'
<1> SUFFICES ASSUME IInv, [Next]_vars PROVE Genuine'
  OBVIOUS
<1> USE DEF handlers, pending, dispatcher
<1>0. TypeOK /\ Once /\ Genuine
  BY DEF IInv
<1>1. ASSUME NEW r \in Request, Accept(r) PROVE Genuine'
  BY <1>1, <1>0 DEF Accept, Genuine, Named, Ran, TypeOK
<1>2. ASSUME NEW r \in Request, Prepare(r) PROVE Genuine'
  BY <1>2, <1>0 DEF Prepare, FreshRc, Genuine, Named, Ran, TypeOK
<1>3. ASSUME NEW r \in Request, Emit(r) PROVE Genuine'
  <2>1. [of |-> r, name |-> name[r]] \in Marker /\ pty' = Append(pty, [of |-> r, name |-> name[r]])
    BY <1>3, <1>0 DEF Emit, TypeOK, Marker, Command
  <2>3. \A i \in 1..Len(pty') : Named(pty'[i])
    <3> DEFINE m == [of |-> r, name |-> name[r]]
    <3>1. Named(m) /\ pty \in Seq(Marker) /\ \A i \in 1..Len(pty) : Named(pty[i])
      BY <1>0 DEF Genuine, Named, TypeOK
    <3>2. m \in Marker /\ pty' = Append(pty, m)
      BY <2>1
    <3> HIDE DEF m
    <3> QED
      BY <3>1, <3>2, AppendOn
  <2>4. UNCHANGED <<name, running, acks, pending_rc, outcome>>
    BY <1>3 DEF Emit
  <2> QED
    BY <1>0, <2>3, <2>4 DEF Genuine, Named, Ran
<1>4. ASSUME NEW r \in Request, Acked(r) PROVE Genuine'
  BY <1>4, <1>0 DEF Acked, Reply, Genuine, Named, Ran, TypeOK
<1>5. ASSUME NEW r \in Request, TimesOut(r) PROVE Genuine'
  BY <1>5, <1>0 DEF TimesOut, Reply, Genuine, Named, Ran, TypeOK
<1>6. ASSUME NEW r \in Request, ClientLeaves(r) PROVE Genuine'
  BY <1>6, <1>0 DEF ClientLeaves, Genuine, Named, Ran, TypeOK
<1>7. ASSUME NEW x \in Raw, Signal(x) PROVE Genuine'
  <2>1. /\ [of |-> x, name |-> name[x]] \in Marker
        /\ pty' = Append(pty, [of |-> x, name |-> name[x]])
    BY <1>7, <1>0 DEF Signal, Marker, Command, TypeOK
  <2>2. \A i \in 1..Len(pty') : Named(pty'[i])
    <3> DEFINE m == [of |-> x, name |-> name[x]]
    <3>1. Named(m) /\ pty \in Seq(Marker) /\ \A i \in 1..Len(pty) : Named(pty[i])
      BY <1>0 DEF Genuine, Named, TypeOK
    <3>2. m \in Marker /\ pty' = Append(pty, m)
      BY <2>1
    <3> HIDE DEF m
    <3> QED
      BY <3>1, <3>2, AppendOn
  <2>3. UNCHANGED <<name, running, acks, pending_rc, outcome>>
    BY <1>7 DEF Signal
  <2> QED
    BY <1>0, <2>2, <2>3 DEF Genuine, Named, Ran
<1>8. CASE ReadAck
  <2>1. acks \in Seq(Ack) /\ acks # <<>> /\ acks' = Tail(acks)
    BY <1>8, <1>0 DEF ReadAck, TypeOK
  <2>2. Ran(Head(acks), outcome) /\ \A i \in 1..Len(acks') : Ran(acks'[i], outcome)
    BY <1>0, <2>1, TailOn DEF Genuine
  <2>3. UNCHANGED <<name, running, pty, outcome>> /\ pending_rc' \in {pending_rc, Head(acks)}
    BY <1>8 DEF ReadAck
  <2> QED
    BY <1>0, <2>2, <2>3 DEF Genuine, Named, Ran
<1>9. CASE TunnelExits
  BY <1>9, <1>0 DEF TunnelExits, Genuine, Named, Ran, TypeOK
<1>10. CASE ReadMarker
  <2>1. pty \in Seq(Marker) /\ pty # <<>> /\ pty' = Tail(pty)
    BY <1>10, <1>0 DEF ReadMarker, TypeOK
  <2>2. Named(Head(pty)) /\ \A i \in 1..Len(pty') : Named(pty'[i])
    BY <1>0, <2>1, TailOn DEF Genuine
  <2>3. UNCHANGED <<name, acks, pending_rc, outcome>> /\ running' = Head(pty)
    BY <1>10 DEF ReadMarker
  <2> QED
    BY <1>0, <2>2, <2>3 DEF Genuine, Named, Ran
<1>11. ASSUME NEW rc \in Status, RunCommand(rc) PROVE Genuine'
  <2> DEFINE ack == [of |-> running.of, name |-> running.name, rc |-> rc]
  <2>1. /\ ack \in Ack /\ acks' = Append(acks, ack) /\ acks \in Seq(Ack)
        /\ ack.of = running.of /\ ack.name = running.name /\ ack.rc = rc
        /\ running.of \in Command
    BY <1>11, <1>0 DEF RunCommand, TypeOK, Marker, Ack
  <2>2. \A q \in Command : outcome'[q] = IF q = running.of THEN rc ELSE outcome[q]
    BY <1>11, <1>0, <2>1 DEF RunCommand, TypeOK
  <2>3. UNCHANGED <<name, pty, pending_rc>> /\ running' = None
    BY <1>11 DEF RunCommand
  <2>4. Ran(ack, outcome')
    BY <1>11, <1>0, <2>1, <2>2 DEF RunCommand, Genuine, Named, Ran
  <2>5. ASSUME NEW a \in Ack, Ran(a, outcome), a.of # running.of
        PROVE  Ran(a, outcome')
    BY <2>2, <2>5 DEF Named, Ran, Ack
  <2>6. ASSUME NEW i \in 1..Len(acks) PROVE Ran(acks[i], outcome')
    <3>1. acks[i] \in Ack
      BY <2>1
    <3>2. Ran(acks[i], outcome)
      BY <1>0 DEF Genuine
    <3>3. acks[i].of # running.of
      BY <1>11, <1>0, <3>1 DEF RunCommand, Once, Runs, On, Ack
    <3> QED
      BY <2>5, <3>1, <3>2, <3>3
  <2>7. \A i \in 1..Len(acks') : Ran(acks'[i], outcome')
    <3> HIDE DEF ack
    <3> QED
      BY <2>1, <2>4, <2>6, AppendOn
  <2>8. pending_rc # None => Ran(pending_rc, outcome')
    <3> SUFFICES ASSUME pending_rc # None PROVE Ran(pending_rc, outcome')
      OBVIOUS
    <3>1. pending_rc \in Ack /\ Ran(pending_rc, outcome)
      BY <1>0 DEF Genuine, TypeOK
    <3>2. pending_rc.of # running.of
      BY <1>11, <1>0, <3>1 DEF RunCommand, Once, Runs, Held, Ack
    <3> QED
      BY <2>5, <3>1, <3>2
  <2>9. \A i \in 1..Len(pty) : Named(pty[i])
    BY <1>0 DEF Genuine
  <2> QED
    BY <2>3, <2>7, <2>8, <2>9 DEF Genuine, Named, Ran
<1>12. CASE IgnoreMarker
  BY <1>12, <1>0 DEF IgnoreMarker, Genuine, Named, Ran, TypeOK
<1>13. CASE UNCHANGED vars
  BY <1>13, <1>0 DEF vars, Genuine, Named, Ran, TypeOK
<1> QED
  BY <1>1, <1>2, <1>3, <1>4, <1>5, <1>6, <1>7, <1>8, <1>9, <1>10, <1>11, <1>12, <1>13 DEF Next, Handler

\* An ack answers once, and the request it is of only before another.
LEMMA SpentStep == IInv /\ [Next]_vars => Spent'
<1> SUFFICES ASSUME IInv, [Next]_vars PROVE Spent'
  OBVIOUS
<1> USE DEF handlers, pending, dispatcher
<1>0. TypeOK /\ Locked /\ Once /\ Spent /\ (\A q : q \in Emitted => q \in Emitted')
  BY EmittedGrows DEF IInv
<1>1. ASSUME NEW r \in Request, Accept(r) PROVE Spent'
  <2>1. /\ pc[r] = "idle" /\ \A q \in Request \ {r} : pc'[q] = pc[q]
        /\ UNCHANGED <<source, pty, running, acks, pending_rc, dev_lock>>
    BY <1>1, <1>0 DEF Accept, TypeOK
  <2> QED
    BY <1>0, <2>1 DEF Spent, Runs, Held
<1>2. ASSUME NEW r \in Request, Prepare(r) PROVE Spent'
  <2>1. /\ pc[r] = "queued" /\ \A q \in Request \ {r} : pc'[q] = pc[q]
        /\ pending_rc' = None
        /\ UNCHANGED <<source, pty, running, acks>>
    BY <1>2, <1>0 DEF Prepare, FreshRc, TypeOK
  <2> QED
    BY <1>0, <2>1 DEF Spent, Runs, Held
<1>3. ASSUME NEW r \in Request, Emit(r) PROVE Spent'
  <2>1. [of |-> r, name |-> name[r]] \in Marker /\ pty' = Append(pty, [of |-> r, name |-> name[r]])
    BY <1>3, <1>0 DEF Emit, TypeOK, Marker, Command
  <2>2. pc[r] = "prepared" /\ r \notin Emitted
    BY <1>3, <1>0, RawIsNoRequest DEF Emit, Emitted, TypeOK
  <2>3. \A q : On(pty', q) <=> On(pty, q) \/ q = r
    BY <1>0, <2>1, AppendOn DEF TypeOK
  <2>4. /\ \A q \in Request \ {r} : pc'[q] = pc[q]
        /\ UNCHANGED <<source, running, acks, pending_rc, dev_lock>>
    BY <1>3, <1>0 DEF Emit, TypeOK
  <2> QED
    BY <1>0, <2>2, <2>3, <2>4 DEF Spent, Runs, Held
<1>4. ASSUME NEW r \in Request, Acked(r) PROVE Spent'
  <2>1. /\ Held(pending_rc.of) /\ dev_lock = r /\ pc[r] = "waiting"
        /\ pending_rc.of \in Command
    BY <1>4, <1>0 DEF Acked, Reply, Held, Locked, TypeOK, Ack
  <2>2. /\ source' = [source EXCEPT ![r] = pending_rc.of] /\ pc' = [pc EXCEPT ![r] = "answered"]
        /\ dev_lock' = None /\ UNCHANGED <<pty, running, acks, pending_rc>>
    BY <1>4 DEF Acked, Reply
  <2>3. \A s \in Request, q \in Command : source[s] = q => ~Held(q) /\ s # r /\ q # r
    BY <1>0, <2>1, NoneIsNoMember DEF Spent, Command
  <2>4. pc'[r] = "answered" /\ \A q \in Request \ {r} : pc'[q] = pc[q] /\ source'[q] = source[q]
    BY <1>0, <2>2 DEF TypeOK
  <2>5. source'[r] = pending_rc.of
    BY <1>0, <2>2 DEF TypeOK
  <2>6. ASSUME NEW q \in Command, pending_rc.of = q
        PROVE  /\ ~On(pty, q) /\ ~Runs(q) /\ ~On(acks, q) /\ q \in Emitted'
               /\ q \in Request => pc'[q] = "answered" /\ (q # r => source'[q] # q)
    <3>1. q \in Emitted /\ ~On(pty, q) /\ ~Runs(q) /\ ~On(acks, q)
      BY <1>0, <2>1, <2>6 DEF Once
    <3>2. q \in Request => pc[q] \in {"waiting", "answered"}
      BY <1>0, <3>1, RawIsNoRequest DEF Emitted, TypeOK
    <3>3. q \in Request /\ q # r => pc[q] # "waiting"
      BY <1>0, <2>1 DEF Locked
    <3>4. q \in Request /\ q # r => source'[q] # q
      BY <2>1, <2>3, <2>4, <2>6
    <3> QED
      BY <1>0, <2>4, <3>1, <3>2, <3>3, <3>4
  <2>7. ASSUME NEW s \in Request, NEW q \in Command, source'[s] = q
        PROVE  /\ ~On(pty, q) /\ ~Runs(q) /\ ~On(acks, q)
               /\ pc'[s] = "answered" /\ q \in Emitted'
               /\ q \in Request => pc'[q] = "answered" /\ (q # s => source'[q] # q)
    <3>1. CASE s = r
      BY <2>4, <2>5, <2>6, <2>7, <3>1
    <3>2. CASE s # r
      BY <1>0, <2>3, <2>4, <2>7, <3>2 DEF Spent
    <3> QED
      BY <3>1, <3>2
  <2> QED
    BY <2>2, <2>7 DEF Spent, Runs, Held
<1>5. ASSUME NEW r \in Request, TimesOut(r) PROVE Spent'
  <2>1. /\ pc[r] = "waiting" /\ dev_lock' = None
        /\ source' = [source EXCEPT ![r] = None] /\ pc' = [pc EXCEPT ![r] = "answered"]
        /\ UNCHANGED <<pty, running, acks, pending_rc>>
    BY <1>5 DEF TimesOut, Reply
  <2>2. pc'[r] = "answered" /\ \A q \in Request \ {r} : pc'[q] = pc[q] /\ source'[q] = source[q]
    BY <1>0, <2>1 DEF TypeOK
  <2>3. source'[r] = None
    BY <1>0, <2>1 DEF TypeOK
  <2> QED
    BY <1>0, <2>1, <2>2, <2>3, NoneIsNoMember DEF Spent, Runs, Held
<1>6. ASSUME NEW r \in Request, ClientLeaves(r) PROVE Spent'
  BY <1>6, <1>0 DEF ClientLeaves, Spent, Runs, Held, TypeOK
<1>7. ASSUME NEW x \in Raw, Signal(x) PROVE Spent'
  <2>1. [of |-> x, name |-> name[x]] \in Marker /\ pty' = Append(pty, [of |-> x, name |-> name[x]])
    BY <1>7, <1>0 DEF Signal, Marker, Command, TypeOK
  <2>2. \A q : On(pty', q) <=> On(pty, q) \/ q = x
    BY <1>0, <2>1, AppendOn DEF TypeOK
  <2>3. x \notin Emitted /\ UNCHANGED <<pc, source, running, acks, pending_rc, dev_lock>>
    BY <1>7, <1>0, RawIsNoRequest DEF Signal, Emitted, TypeOK
  <2> QED
    BY <1>0, <2>2, <2>3 DEF Spent, Runs, Held
<1>8. CASE ReadAck
  <2>1. acks \in Seq(Ack) /\ acks # <<>> /\ acks' = Tail(acks)
    BY <1>8, <1>0 DEF ReadAck, TypeOK
  <2>2. On(acks, Head(acks).of) /\ \A q : On(acks', q) => On(acks, q)
    BY <2>1, TailOn
  <2>3. /\ UNCHANGED <<pc, source, running, pty, dev_lock>>
        /\ pending_rc' \in {pending_rc, Head(acks)}
    BY <1>8 DEF ReadAck
  <2> QED
    BY <1>0, <2>2, <2>3 DEF Spent, Runs, Held
<1>9. CASE TunnelExits
  BY <1>9, <1>0 DEF TunnelExits, Spent, Runs, Held, TypeOK
<1>10. CASE ReadMarker
  <2>1. pty \in Seq(Marker) /\ pty # <<>> /\ pty' = Tail(pty)
    BY <1>10, <1>0 DEF ReadMarker, TypeOK
  <2>2. On(pty, Head(pty).of) /\ \A q : On(pty', q) => On(pty, q)
    BY <2>1, TailOn
  <2>3. UNCHANGED <<pc, source, acks, pending_rc, dev_lock>> /\ running' = Head(pty)
    BY <1>10 DEF ReadMarker
  <2> QED
    BY <1>0, <2>2, <2>3 DEF Spent, Runs, Held
<1>11. ASSUME NEW rc \in Status, RunCommand(rc) PROVE Spent'
  <2> DEFINE ack == [of |-> running.of, name |-> running.name, rc |-> rc]
  <2>1. /\ ack \in Ack /\ acks' = Append(acks, ack) /\ acks \in Seq(Ack)
        /\ ack.of = running.of
    BY <1>11, <1>0 DEF RunCommand, TypeOK, Marker, Ack
  <2>2. \A q : On(acks', q) <=> On(acks, q) \/ q = ack.of
    <3> HIDE DEF ack
    <3> QED
      BY <2>1, AppendOn
  <2>3. /\ UNCHANGED <<pc, source, pty, pending_rc, dev_lock>>
        /\ running # None /\ running' = None
    BY <1>11 DEF RunCommand
  <2> QED
    BY <1>0, <2>1, <2>2, <2>3 DEF Spent, Runs, Held
<1>12. CASE IgnoreMarker
  BY <1>12, <1>0 DEF IgnoreMarker, Spent, Runs, Held, TypeOK
<1>13. CASE UNCHANGED vars
  BY <1>13, <1>0 DEF vars, Spent, Runs, Held, TypeOK
<1> QED
  BY <1>1, <1>2, <1>3, <1>4, <1>5, <1>6, <1>7, <1>8, <1>9, <1>10, <1>11, <1>12, <1>13 DEF Next, Handler

\* A zero comes from a command of that name that ran with zero.
LEMMA TracedStep == IInv /\ [Next]_vars => Traced'
<1> SUFFICES ASSUME IInv, [Next]_vars PROVE Traced'
  OBVIOUS
<1> USE DEF handlers, pending, dispatcher
<1>0. TypeOK /\ Locked /\ Once /\ Genuine /\ Spent /\ Traced
  BY DEF IInv
<1>1. ASSUME NEW r \in Request, Accept(r) PROVE Traced'
  <2>1. pc[r] = "idle" /\ UNCHANGED <<told, source, name, outcome>>
    BY <1>1 DEF Accept
  <2>2. \A q \in Request \ {r} : pc'[q] = pc[q]
    BY <1>1, <1>0 DEF Accept, TypeOK
  <2> QED
    BY <1>0, <2>1, <2>2 DEF Traced
<1>2. ASSUME NEW r \in Request, Prepare(r) PROVE Traced'
  BY <1>2, <1>0 DEF Prepare, Traced, TypeOK
<1>3. ASSUME NEW r \in Request, Emit(r) PROVE Traced'
  BY <1>3, <1>0 DEF Emit, Traced, TypeOK
<1>4. ASSUME NEW r \in Request, Acked(r) PROVE Traced'
  <2>1. /\ pending_rc \in Ack /\ dev_lock = r /\ pc[r] = "waiting" /\ pending_rc # None
        /\ pending_rc.of \in Command
    BY <1>4, <1>0 DEF Acked, Reply, Locked, TypeOK, Ack
  <2>2. name[pending_rc.of] = name[r] /\ outcome[pending_rc.of] = pending_rc.rc
    BY <1>0, <2>1, NoneIsNoMember DEF Genuine, Ran, Named, Locked, Command
  <2>3. pending_rc.of # None
    BY <2>1, NoneIsNoMember
  <2>4. told[r] # "zero"
    BY <1>0, <2>1 DEF Traced
  <2>5. /\ pc'[r] = "answered" /\ source'[r] = pending_rc.of
        /\ told'[r] = "zero" => pending_rc.rc = "zero"
        /\ \A q \in Request \ {r} : /\ pc'[q] = pc[q] /\ source'[q] = source[q]
                                   /\ told'[q] = told[q]
        /\ UNCHANGED <<name, outcome>>
    BY <1>4, <1>0, <2>4 DEF Acked, Reply, TypeOK
  <2> QED
    BY <1>0, <2>2, <2>3, <2>5 DEF Traced
<1>5. ASSUME NEW r \in Request, TimesOut(r) PROVE Traced'
  <2>1. pc[r] = "waiting" /\ told[r] # "zero"
    BY <1>5, <1>0 DEF TimesOut, Reply, Traced
  <2>2. /\ told'[r] # "zero"
        /\ \A q \in Request \ {r} : /\ pc'[q] = pc[q] /\ source'[q] = source[q]
                                   /\ told'[q] = told[q]
        /\ UNCHANGED <<name, outcome>>
    BY <1>5, <1>0, <2>1 DEF TimesOut, Reply, TypeOK
  <2> QED
    BY <1>0, <2>2 DEF Traced
<1>6. ASSUME NEW r \in Request, ClientLeaves(r) PROVE Traced'
  BY <1>6, <1>0 DEF ClientLeaves, Traced, TypeOK
<1>7. ASSUME NEW x \in Raw, Signal(x) PROVE Traced'
  <2>1. UNCHANGED <<pc, told, source, name, outcome>>
    BY <1>7 DEF Signal
  <2> QED
    BY <1>0, <2>1 DEF Traced
<1>8. CASE ReadAck
  BY <1>8, <1>0 DEF ReadAck, Traced, TypeOK
<1>9. CASE TunnelExits
  BY <1>9, <1>0 DEF TunnelExits, Traced, TypeOK
<1>10. CASE ReadMarker
  BY <1>10, <1>0 DEF ReadMarker, Traced, TypeOK
<1>11. ASSUME NEW rc \in Status, RunCommand(rc) PROVE Traced'
  <2>1. /\ running # None /\ running.of \in Command
        /\ UNCHANGED <<pc, told, source, name>>
    BY <1>11, <1>0 DEF RunCommand, TypeOK, Marker
  <2>2. \A q \in Command : ~Runs(q) => outcome'[q] = outcome[q]
    BY <1>11, <1>0, <2>1 DEF RunCommand, Runs, TypeOK
  <2>3. \A q \in Request : source[q] \in Command \cup {None}
    BY <1>0 DEF TypeOK
  <2>4. \A q \in Request : source[q] # None => ~Runs(source[q])
    BY <1>0, <2>3 DEF Spent
  <2> QED
    BY <1>0, <2>1, <2>2, <2>3, <2>4 DEF Traced
<1>12. CASE IgnoreMarker
  BY <1>12, <1>0 DEF IgnoreMarker, Traced, TypeOK
<1>13. CASE UNCHANGED vars
  BY <1>13, <1>0 DEF vars, Traced, TypeOK
<1> QED
  BY <1>1, <1>2, <1>3, <1>4, <1>5, <1>6, <1>7, <1>8, <1>9, <1>10, <1>11, <1>12, <1>13 DEF Next, Handler

\* The invariant is inductive.
THEOREM Inductive == Spec => []IInv
<1>1. Init => IInv
  <2>1. Init => TypeOK
    BY AttemptsArePositive DEF Init, TypeOK
  <2>2. Init => Locked /\ Once /\ Genuine
    BY NoneIsNoMember DEF Init, Locked, Once, Unique, On, Runs, Held, Genuine, Command
  <2>3. Init => Spent /\ Traced
    BY NoneIsNoMember DEF Init, Spent, Traced
  <2> QED
    BY <2>1, <2>2, <2>3 DEF IInv
<1>2. IInv /\ [Next]_vars => IInv'
  BY TypeStep, LockedStep, OnceStep, GenuineStep, SpentStep, TracedStep
     DEF IInv
<1> QED
  BY <1>1, <1>2, PTL DEF Spec

\* The variables of the relay have their types.
THEOREM RelayTypes == Spec => []TypeOK
<1>1. IInv => TypeOK
  BY DEF IInv
<1> QED
  BY <1>1, Inductive, PTL

\* However late acks come and whoever leaves, a request that was told zero without
\* having run with zero was answered by the ack of another command of its name that
\* did: a raw one, or that of a request which went without it (_stdin_reader matches
\* by name).
THEOREM ZeroHasCause == Spec => []ZeroIsAccounted
<1>1. ASSUME IInv, NEW r \in Request, told[r] = "zero", outcome[r] # "zero"
      PROVE  /\ source[r] \in Command \ {r}
             /\ name[source[r]] = name[r] /\ outcome[source[r]] = "zero"
             /\ source[r] \in Request => source[source[r]] # source[r]
  <2>1. /\ source[r] \in Command /\ name[source[r]] = name[r]
        /\ outcome[source[r]] = "zero"
    BY <1>1 DEF IInv, Traced, TypeOK
  <2>2. source[r] # r /\ (source[r] \in Request => source[source[r]] # source[r])
    BY <1>1, <2>1 DEF IInv, Spent
  <2> QED
    BY <2>1, <2>2
<1>2. IInv => ZeroIsAccounted
  BY <1>1, Zenon DEF ZeroIsAccounted
<1> QED
  BY <1>2, Inductive, PTL

-----------------------------------------------------------------------------
(***************************************************************************)
(* The contract.  Beyond IInv it needs that a command that ran stands on   *)
(* the way to the dispatcher no more (RanOnce), so that it runs once.      *)
(***************************************************************************)
RanOnce ==
  \A q \in Command : outcome[q] # None => q \in Emitted /\ ~On(pty, q) /\ ~Runs(q)

LEMMA RanOnceStep == IInv /\ RanOnce /\ [Next]_vars => RanOnce'
<1> SUFFICES ASSUME IInv, RanOnce, [Next]_vars PROVE RanOnce'
  OBVIOUS
<1> USE DEF handlers, pending, dispatcher
<1>0. TypeOK /\ Once /\ (\A q : q \in Emitted => q \in Emitted')
  BY EmittedGrows DEF IInv
<1>1. ASSUME NEW r \in Request, Accept(r) \/ Prepare(r) PROVE RanOnce'
  BY <1>1, <1>0 DEF Accept, Prepare, RanOnce, Runs, TypeOK
<1>2. ASSUME NEW r \in Request, Emit(r) PROVE RanOnce'
  <2>1. [of |-> r, name |-> name[r]] \in Marker /\ pty' = Append(pty, [of |-> r, name |-> name[r]])
    BY <1>2, <1>0 DEF Emit, TypeOK, Marker, Command
  <2>2. \A q : On(pty', q) <=> On(pty, q) \/ q = r
    BY <1>0, <2>1, AppendOn DEF TypeOK
  <2>3. r \notin Emitted /\ UNCHANGED <<running, outcome>>
    BY <1>2, <1>0, RawIsNoRequest DEF Emit, Emitted, TypeOK
  <2> QED
    BY <1>0, <2>2, <2>3 DEF RanOnce, Runs
<1>3. ASSUME NEW r \in Request, Acked(r) \/ TimesOut(r) PROVE RanOnce'
  <2>1. UNCHANGED <<pty, running, outcome>>
    BY <1>3 DEF Acked, TimesOut, Reply
  <2> QED
    BY <1>0, <2>1 DEF RanOnce, Runs, TypeOK
<1>4. ASSUME NEW r \in Request, ClientLeaves(r) PROVE RanOnce'
  BY <1>4, <1>0 DEF ClientLeaves, RanOnce, Runs
<1>5. ASSUME NEW x \in Raw, Signal(x) PROVE RanOnce'
  <2>1. [of |-> x, name |-> name[x]] \in Marker /\ pty' = Append(pty, [of |-> x, name |-> name[x]])
    BY <1>5, <1>0 DEF Signal, Marker, Command, TypeOK
  <2>2. \A q : On(pty', q) <=> On(pty, q) \/ q = x
    BY <1>0, <2>1, AppendOn DEF TypeOK
  <2>3. x \notin Emitted /\ UNCHANGED <<running, outcome>>
    BY <1>5, <1>0, RawIsNoRequest DEF Signal, Emitted, TypeOK
  <2> QED
    BY <1>0, <2>2, <2>3 DEF RanOnce, Runs
<1>6. CASE ReadAck \/ TunnelExits
  BY <1>6, <1>0 DEF ReadAck, TunnelExits, RanOnce, Runs
<1>7. CASE ReadMarker
  <2>1. pty \in Seq(Marker) /\ pty # <<>> /\ pty' = Tail(pty)
    BY <1>7, <1>0 DEF ReadMarker, TypeOK
  <2>2. On(pty, Head(pty).of) /\ \A q : On(pty', q) => On(pty, q)
    BY <2>1, TailOn
  <2> QED
    BY <1>7, <1>0, <2>2 DEF ReadMarker, RanOnce, Runs
<1>8. ASSUME NEW rc \in Status, RunCommand(rc) PROVE RanOnce'
  <2>1. /\ running # None /\ running' = None /\ UNCHANGED pty
        /\ \A q \in Command : running.of # q => outcome'[q] = outcome[q]
    BY <1>8, <1>0 DEF RunCommand, TypeOK, Marker
  <2>2. ASSUME NEW q \in Command, running.of = q
        PROVE  q \in Emitted /\ ~On(pty, q)
    BY <1>0, <2>1, <2>2 DEF Once, Runs
  <2> QED
    BY <1>0, <2>1, <2>2 DEF RanOnce, Runs
<1>9. CASE IgnoreMarker
  BY <1>9, <1>0 DEF IgnoreMarker, RanOnce, Runs
<1>10. CASE UNCHANGED vars
  BY <1>10, <1>0 DEF vars, RanOnce, Runs
<1> QED
  BY <1>1, <1>2, <1>3, <1>4, <1>5, <1>6, <1>7, <1>8, <1>9, <1>10 DEF Next, Handler

Seen == <<name, Phase, outcome, told, source>>
Step == Contract!Next \/ UNCHANGED Seen

\* A request that is served stays open.
LEMMA StaysOpen ==
  ASSUME TypeOK, NEW r \in Request, NEW to, pc' = [pc EXCEPT ![r] = to], signals' = signals,
         pc[r] \in {"queued", "prepared", "waiting"}, to \in {"queued", "prepared", "waiting"}
  PROVE  Phase' = Phase
BY RawIsNoRequest DEF TypeOK, Phase, Command

\* What Reply does to the contract's view.
LEMMA Closes ==
  ASSUME IInv, NEW r \in Request, NEW rc \in Status, NEW of, Reply(r, rc, of)
  PROVE  Contract!Close(r, rc)
<1>1. Phase[r] = "open" /\ Phase' = [Phase EXCEPT ![r] = "closed"]
  BY RawIsNoRequest DEF Reply, IInv, TypeOK, Phase, Command
<1> QED
  BY <1>1 DEF Reply, Contract!Close, dispatcher

\* An open request was answered by nobody.
LEMMA Unanswered ==
  ASSUME IInv, NEW r \in Request, pc[r] # "answered"
  PROVE  source[r] = None
BY DEF IInv, TypeOK, Spent

LEMMA AckedSteps == ASSUME IInv, NEW r \in Request, Acked(r) PROVE Step
<1>1. /\ pending_rc \in Ack /\ pending_rc # None /\ pc[r] = "waiting" /\ dev_lock = r
      /\ pending_rc.of \in Command /\ pending_rc.rc \in Status
      /\ source' = [source EXCEPT ![r] = pending_rc.of]
  BY DEF Acked, Reply, IInv, TypeOK, Locked, Ack
<1>2. Contract!Close(r, pending_rc.rc)
  BY <1>1, Closes DEF Acked
<1> DEFINE q == pending_rc.of
<1>3. Held(q)
  BY <1>1 DEF Held
<1>4. name[q] = name[r] /\ outcome[q] = pending_rc.rc
  BY <1>1, NoneIsNoMember DEF IInv, Genuine, Ran, Named, Locked, Command
<1>5. outcome[q] # None
  BY <1>1, <1>4, NoneIsNoMember DEF Status
<1>6. \A s \in Request : source[s] # q
  BY <1>1, <1>3, NoneIsNoMember DEF IInv, Spent, Command
<1>7. Contract!Answer(r, q)
  BY <1>1, <1>2, <1>4, <1>5, <1>6 DEF Contract!Answer
<1> QED
  BY <1>1, <1>7 DEF Step, Contract!Next, Command, Contract!Command

LEMMA HandlerSteps ==
  ASSUME IInv, NEW r \in Request, Accept(r) \/ Handler(r) \/ ClientLeaves(r)
  PROVE  Step
<1> USE DEF pending, dispatcher
<1>0. TypeOK
  BY DEF IInv
<1>1. CASE Accept(r)
  <2>1. Phase[r] = "new" /\ Phase' = [Phase EXCEPT ![r] = "open"]
    BY <1>0, <1>1, RawIsNoRequest DEF Accept, TypeOK, Phase, Command
  <2>2. Contract!Ask(r)
    BY <1>1, <2>1 DEF Accept, Contract!Ask
  <2> QED
    BY <2>2 DEF Step, Contract!Next, Contract!Command
<1>2. CASE Prepare(r)
  BY <1>0, <1>2, StaysOpen DEF Prepare, Step, Seen
<1>3. CASE Emit(r)
  BY <1>0, <1>3, StaysOpen DEF Emit, Step, Seen
<1>4. CASE TimesOut(r)
  <2>1. Contract!Close(r, "nonzero")
    BY <1>4, Closes DEF TimesOut, Status
  <2>2. source' = source
    BY <1>0, <1>4, Unanswered DEF TimesOut, Reply, TypeOK
  <2>3. Contract!GiveUp(r)
    BY <2>1, <2>2 DEF Contract!GiveUp
  <2> QED
    BY <2>3 DEF Step, Contract!Next
<1>5. CASE ClientLeaves(r)
  <2>1. Phase' = Phase /\ Phase[r] = "open"
    BY <1>5, RawIsNoRequest DEF ClientLeaves, Phase, Command
  <2>2. Contract!Leave(r)
    BY <1>5, <2>1 DEF ClientLeaves, Contract!Leave
  <2> QED
    BY <2>2 DEF Step, Contract!Next
<1> QED
  BY <1>1, <1>2, <1>3, <1>4, <1>5, AckedSteps DEF Handler

LEMMA SupervisorSteps ==
  ASSUME IInv, (\E x \in Raw : Signal(x)) \/ ReadAck \/ TunnelExits
  PROVE  Step
<1> USE DEF handlers, pending, dispatcher
<1>1. ASSUME NEW x \in Raw, Signal(x) PROVE Step
  <2>1. Phase[x] = "new" /\ Phase' = [Phase EXCEPT ![x] = "open"]
    BY <1>1 DEF Signal, Phase, Command
  <2>2. Contract!Ask(x)
    BY <1>1, <2>1 DEF Signal, Contract!Ask
  <2> QED
    BY <2>2 DEF Step, Contract!Next, Contract!Command
<1>2. CASE ReadAck
  BY <1>2 DEF ReadAck, Phase, Step, Seen
<1>3. CASE TunnelExits
  <2>1. Phase' = Phase /\ UNCHANGED <<name, outcome, source>>
    BY <1>3 DEF TunnelExits, Phase
  <2>2. CASE attempt < Attempts
    BY <1>3, <2>1, <2>2 DEF TunnelExits, Step, Seen
  <2>3. CASE ~(attempt < Attempts)
    <3>1. \A r \in Request : pc[r] # "idle" <=> Phase[r] # "new"
      BY RawIsNoRequest DEF Phase, Command
    <3>2. Contract!Exit
      BY <1>3, <2>1, <2>3, <3>1 DEF TunnelExits, Contract!Exit
    <3> QED
      BY <3>2 DEF Step, Contract!Next
  <2> QED
    BY <2>2, <2>3
<1> QED
  BY <1>1, <1>2, <1>3

LEMMA DispatcherSteps ==
  ASSUME IInv, RanOnce, ReadMarker \/ (\E rc \in Status : RunCommand(rc)) \/ IgnoreMarker
  PROVE  Step
<1> USE DEF handlers, pending
<1>1. CASE ReadMarker \/ IgnoreMarker
  BY <1>1 DEF ReadMarker, IgnoreMarker, Phase, Step, Seen
<1>2. ASSUME NEW rc \in Status, RunCommand(rc) PROVE Step
  <2>1. /\ running # None /\ running.of \in Command /\ Phase' = Phase
        /\ UNCHANGED <<name, told, source>>
    BY <1>2 DEF RunCommand, IInv, TypeOK, Marker, Phase
  <2> DEFINE q == running.of
  <2>2. outcome[q] = None /\ q \in Emitted
    BY <2>1 DEF RanOnce, Runs, IInv, Once
  <2>3. Phase[q] # "new"
    BY <2>1, <2>2, RawIsNoRequest DEF Emitted, Phase, Command, IInv, TypeOK
  <2>4. Contract!Run(q, rc)
    BY <1>2, <2>1, <2>2, <2>3 DEF RunCommand, Contract!Run
  <2> QED
    BY <2>1, <2>4 DEF Step, Contract!Next, Status, Contract!Status, Command, Contract!Command
<1> QED
  BY <1>1, <1>2

\* The relay implements the contract, whatever acks come late or never and whoever
\* leaves, signals or exits.
THEOREM RelayImplementsContract == Spec => AnswersOnce
<1>1. Init => Contract!Init
  BY RawIsNoRequest DEF Init, Contract!Init, Phase, Command, Contract!Command
<1>2. IInv /\ RanOnce /\ [Next]_vars => [Contract!Next]_Seen
  <2> SUFFICES ASSUME IInv, RanOnce, [Next]_vars PROVE Step
    BY DEF Step
  <2>1. CASE UNCHANGED vars
    BY <2>1 DEF vars, handlers, dispatcher, Phase, Step, Seen
  <2> QED
    BY <2>1, HandlerSteps, SupervisorSteps, DispatcherSteps DEF Next
<1>3. Init => RanOnce
  BY DEF Init, RanOnce
<1> QED
  BY <1>1, <1>2, <1>3, RanOnceStep, Inductive, PTL
     DEF Spec, AnswersOnce, Contract!Spec, Contract!vars, Seen
=============================================================================
