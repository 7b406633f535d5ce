------------------------ MODULE GatewayServiceProofs ------------------------
(***************************************************************************)
(* Proofs about GatewayService, for any number of calls, dial-ins, threads *)
(* and listener threads.                                                   *)
(***************************************************************************)
EXTENDS GatewayService, FiniteSetTheorems, TLAPS

(***************************************************************************)
(* The inductive invariant.  While a thread holds the lock for a listener, *)
(* no loop is recorded (Locked).  As long as no listener was slow and stop *)
(* was not called, a listener that starts is the one the lock's holder     *)
(* waits for, and one that has the port is that one or the recorded one    *)
(* (Accounted).  A dial-in whose ensure_started returned finds a listener  *)
(* of this process on the port, which never leaves it (Bridgeable).        *)
(***************************************************************************)
Locked ==
  /\ lock = None <=> trying = None
  /\ lock # None => loop = None
  /\ \A j \in Job : pc[j] = "holding" => lock = j

Bound ==
  /\ port \in Attempt => listener[port] \in {"listening", "stopped"}
  /\ \A n \in Attempt : listener[n] = "listening" => port = n

Accounted ==
  slow = 0 /\ stops = 0 =>
    /\ \A n \in Attempt : listener[n] = "starting" => trying = n
    /\ port \in Attempt => port \in {loop, trying}

Bridgeable ==
  \A d \in Dial : work[d] = "start" /\ (pc[d] = "resumed" => port \in Attempt)

\* A dial-in that began names the session it is for.
Aimed ==
  /\ \A d \in Dial : pc[d] # "idle" => aim[d] # None
  /\ \A i \in 1..Len(queue) : queue[i] \in Dial => aim[queue[i]] # None

IInv == TypeOK /\ Aimed /\ Locked /\ Bound /\ Accounted /\ LoopListens /\ NoSecondListener
          /\ Bridgeable /\ BridgedToOwn

\* Handing work to the executor, or going on, keeps the jobs well typed.
LEMMA SubmitTypes ==
  ASSUME TypeOK, NEW j \in Job, NEW w \in Work, Submit(j, w)
  PROVE  /\ queue' \in Seq(Job)
         /\ pc' \in [Job -> {"idle", "queued", "locking", "holding", "blocked", "resumed",
                             "bridged", "done", "error"}]
         /\ work' \in [Job -> Work]
BY DEF TypeOK, Submit

LEMMA GoesTypes ==
  ASSUME TypeOK, NEW j \in Job,
         NEW to \in {"idle", "queued", "locking", "holding", "blocked", "resumed",
                     "bridged", "done", "error"},
         Goes(j, to)
  PROVE  /\ queue' \in Seq(Job)
         /\ pc' \in [Job -> {"idle", "queued", "locking", "holding", "blocked", "resumed",
                             "bridged", "done", "error"}]
         /\ work' \in [Job -> Work]
BY DEF TypeOK, Goes

\* Every step of the service keeps its variables well typed.
LEMMA TypeStep == IInv /\ [Next]_vars => TypeOK'
<1> SUFFICES ASSUME IInv, [Next]_vars PROVE TypeOK'
  OBVIOUS
<1> USE DEF gate, ends
<1>0. TypeOK /\ Tool \subseteq Job /\ Dial \subseteq Job /\ Open \subseteq Tool
  BY DEF IInv, Tool, Job
<1>1. CASE Take
  <2>1. Head(queue) \in Job /\ Tail(queue) \in Seq(Job)
    BY <1>1, <1>0 DEF Take, TypeOK
  <2> QED
    BY <1>1, <1>0, <2>1 DEF Take, TypeOK
<1>2. ASSUME NEW j \in Job, AlreadyStarted(j) PROVE TypeOK'
  BY <1>2, <1>0, GoesTypes DEF AlreadyStarted, TypeOK
<1>3. ASSUME NEW j \in Job, NEW n \in Attempt, StartListener(j, n) PROVE TypeOK'
  <2>1. listener' \in [Attempt -> {"none", "starting", "listening", "failed", "stopped"}]
    BY <1>3, <1>0 DEF StartListener, TypeOK
  <2> QED
    BY <1>3, <1>0, <2>1, GoesTypes DEF StartListener, TypeOK
<1>4. ASSUME NEW n \in Attempt, StartServer(n) PROVE TypeOK'
  <2>1. /\ listener' \in [Attempt -> {"none", "starting", "listening", "failed", "stopped"}]
        /\ port' \in Attempt \cup {None, Foreign}
        /\ met' \subseteq Attempt \cup {Foreign}
    BY <1>4, <1>0 DEF StartServer, TypeOK
  <2> QED
    BY <1>4, <1>0, <2>1 DEF StartServer, TypeOK, exec
<1>5. ASSUME NEW j \in Job, Ready(j) PROVE TypeOK'
  BY <1>5, <1>0, GoesTypes DEF Ready, TypeOK
<1>6. ASSUME NEW j \in Job, StartFails(j) PROVE TypeOK'
  BY <1>6, <1>0, GoesTypes DEF StartFails, Surfaced, TypeOK
<1>7. ASSUME NEW j \in Job, StartTimesOut(j) PROVE TypeOK'
  <2>1. slow' \in 0..MaxSlow
    BY <1>7, <1>0, BoundsAreNat DEF StartTimesOut, TypeOK
  <2> QED
    BY <1>7, <1>0, <2>1, GoesTypes DEF StartTimesOut, Recorded, TypeOK
<1>8. CASE Stop
  <2>1. stops' \in 0..MaxStops
    BY <1>8, <1>0, BoundsAreNat DEF Stop, TypeOK
  <2>2. listener' \in [Attempt -> {"none", "starting", "listening", "failed", "stopped"}]
    BY <1>8, <1>0 DEF Stop, TypeOK
  <2> QED
    BY <1>8, <1>0, <2>1, <2>2 DEF Stop, TypeOK, exec
<1>9. ASSUME NEW t \in Tool, Call(t) PROVE TypeOK'
  BY <1>9, <1>0, SubmitTypes DEF Call, TypeOK, Work
<1>10. ASSUME NEW t \in Tool, UseGateway(t) PROVE TypeOK'
  BY <1>10, <1>0, GoesTypes DEF UseGateway, TypeOK
<1>11. ASSUME NEW t \in Tool, CreateAndSubmit(t) PROVE TypeOK'
  <2>1. CASE Submit(t, "board") /\ sessions' = sessions \cup {t}
    BY <1>11, <1>0, <2>1, SubmitTypes DEF CreateAndSubmit, TypeOK, Work
  <2>2. CASE Goes(t, "error") /\ sessions' = sessions
    BY <1>11, <1>0, <2>2, GoesTypes DEF CreateAndSubmit, TypeOK
  <2> QED
    BY <1>11, <2>1, <2>2 DEF CreateAndSubmit
<1>12. ASSUME NEW t \in Tool, Report(t) PROVE TypeOK'
  BY <1>12, <1>0, SubmitTypes, GoesTypes DEF Report, TypeOK, Work
<1>13. ASSUME NEW t \in Tool, WireConsole(t) PROVE TypeOK'
  BY <1>13, <1>0, SubmitTypes DEF WireConsole, TypeOK, Work
<1>14. ASSUME NEW t \in Tool, Wired(t) PROVE TypeOK'
  BY <1>14, <1>0, GoesTypes DEF Wired, TypeOK
<1>15. ASSUME NEW t \in Tool, WaitReturns(t) PROVE TypeOK'
  <2>1. t \in Open
    BY <1>15, <1>0 DEF WaitReturns, Connected, TypeOK
  <2> QED
    BY <1>15, <1>0, <2>1, GoesTypes DEF WaitReturns, TypeOK
<1>16. ASSUME NEW t \in Tool, WaitTimesOut(t) PROVE TypeOK'
  BY <1>16, <1>0, GoesTypes DEF WaitTimesOut, TypeOK
<1>17. ASSUME NEW d \in Dial, BridgeWebsocket(d) PROVE TypeOK'
  BY <1>17, <1>0, GoesTypes DEF BridgeWebsocket, TypeOK
<1>18. ASSUME NEW d \in Dial, Register(d) PROVE TypeOK'
  <2>1. aim[d] \in (Open \X Part)
    BY <1>18, <1>0 DEF Register, TypeOK, IInv, Aimed
  <2> QED
    BY <1>18, <1>0, <2>1 DEF Register, TypeOK, exec
<1>19. ASSUME NEW d \in Dial, Hangup(d) PROVE TypeOK'
  BY <1>19, <1>0, GoesTypes DEF Hangup, TypeOK
<1>20. ASSUME NEW d \in Dial, NEW t \in Open, NEW part \in Part, DialIn(d, t, part)
      PROVE  TypeOK'
  <2>1. aim' \in [Dial -> (Open \X Part) \cup {None}]
    BY <1>20, <1>0 DEF DialIn, TypeOK
  <2> QED
    BY <1>20, <1>0, <2>1, SubmitTypes DEF DialIn, TypeOK, Work
<1>21. CASE ForeignLeaves
  BY <1>21, <1>0 DEF ForeignLeaves, TypeOK, exec
<1>22. CASE UNCHANGED vars
  BY <1>22, <1>0 DEF vars, TypeOK, exec
<1> QED
  BY <1>1, <1>2, <1>3, <1>4, <1>5, <1>6, <1>7, <1>8, <1>9, <1>10, <1>11, <1>12, <1>13,
     <1>14, <1>15, <1>16, <1>17, <1>18, <1>19, <1>20, <1>21, <1>22
  DEF Next, EnsureStarted, ToolGoesOn

(***************************************************************************)
(* What a step does to the gate.  A step of a tool, of a dial-in or of the *)
(* executor leaves it alone, and brings no job to "holding".               *)
(***************************************************************************)
Elsewhere ==
  /\ UNCHANGED <<gate, met>>
  /\ \A j \in Job : pc'[j] = "holding" => pc[j] = "holding"

LEMMA StepKinds ==
  ASSUME IInv, [Next]_vars
  PROVE  \/ Elsewhere
         \/ \E j \in Job, n \in Attempt : StartListener(j, n)
         \/ \E n \in Attempt : StartServer(n)
         \/ \E j \in Job : Ready(j) \/ StartFails(j) \/ StartTimesOut(j)
         \/ Stop
         \/ ForeignLeaves
<1> USE DEF IInv, TypeOK, Elsewhere, ends, exec
<1>0. Tool \subseteq Job /\ Dial \subseteq Job
  BY DEF Tool, Job
<1>1. ASSUME NEW j \in Job, NEW to \in {"resumed", "error", "done", "bridged"}, Goes(j, to)
      PROVE  \A k \in Job : pc'[k] = "holding" => pc[k] = "holding"
  BY <1>1 DEF Goes
<1>2. ASSUME NEW j \in Job, NEW w \in Work, Submit(j, w)
      PROVE  \A k \in Job : pc'[k] = "holding" => pc[k] = "holding"
  BY <1>2 DEF Submit
<1>3. CASE Take
  BY <1>3 DEF Take
<1>4. ASSUME NEW j \in Job, AlreadyStarted(j) PROVE Elsewhere
  BY <1>4, <1>1 DEF AlreadyStarted
<1>5. ASSUME NEW t \in Tool, Call(t) \/ UseGateway(t) \/ WireConsole(t) PROVE Elsewhere
  BY <1>5, <1>0, <1>1, <1>2 DEF Call, UseGateway, WireConsole, Work
<1>6. ASSUME NEW t \in Tool, CreateAndSubmit(t) PROVE Elsewhere
  BY <1>6, <1>0, <1>1, <1>2 DEF CreateAndSubmit, Work
<1>7. ASSUME NEW t \in Tool, Report(t) PROVE Elsewhere
  BY <1>7, <1>0, <1>1, <1>2 DEF Report, Work
<1>8. ASSUME NEW t \in Tool, Wired(t) \/ WaitReturns(t) \/ WaitTimesOut(t) PROVE Elsewhere
  BY <1>8, <1>0, <1>1 DEF Wired, WaitReturns, WaitTimesOut
<1>9. ASSUME NEW d \in Dial, BridgeWebsocket(d) \/ Hangup(d) PROVE Elsewhere
  BY <1>9, <1>0, <1>1 DEF BridgeWebsocket, Hangup
<1>10. ASSUME NEW d \in Dial, Register(d) PROVE Elsewhere
  BY <1>10 DEF Register
<1>11. ASSUME NEW d \in Dial, NEW t \in Open, NEW part \in Part, DialIn(d, t, part)
       PROVE  Elsewhere
  BY <1>11, <1>0, <1>2 DEF DialIn, Work
<1>12. CASE UNCHANGED vars
  BY <1>12 DEF vars
<1> QED
  BY <1>3, <1>4, <1>5, <1>6, <1>7, <1>8, <1>9, <1>10, <1>11, <1>12
  DEF Next, EnsureStarted, ToolGoesOn

\* Every step keeps what is known of the lock, the listeners and the port.
LEMMA GateStep ==
  IInv /\ [Next]_vars => (Locked /\ Bound /\ Accounted /\ LoopListens /\ NoSecondListener)'
<1> DEFINE Gate == Locked /\ Bound /\ Accounted /\ LoopListens /\ NoSecondListener
<1> SUFFICES ASSUME IInv, [Next]_vars PROVE Gate'
  OBVIOUS
<1> USE DEF IInv, TypeOK
<1>0. None \notin Attempt /\ Foreign \notin Attempt /\ None # Foreign /\ None \notin Job
  BY StrangersAreNobody DEF Job, Tool
<1>1. CASE Elsewhere
  BY <1>1 DEF Elsewhere, gate, Locked, Bound, Accounted, LoopListens, NoSecondListener
<1>2. ASSUME NEW j \in Job, NEW n \in Attempt, StartListener(j, n) PROVE Gate'
  <2> USE <1>0, <1>2 DEF StartListener, Goes, Started
  <2>1. Locked'
    BY DEF Locked
  <2>2. n # port
    BY DEF Bound
  <2>3. Bound' /\ LoopListens'
    BY <2>2 DEF Bound, LoopListens
  <2>4. Accounted'
    BY DEF Accounted, Locked
  <2>5. NoSecondListener'
    BY DEF NoSecondListener
  <2> QED
    BY <2>1, <2>3, <2>4, <2>5
<1>3. ASSUME NEW n \in Attempt, StartServer(n) PROVE Gate'
  <2> USE <1>0, <1>3 DEF StartServer, exec
  <2>1. Locked'
    BY DEF Locked
  <2>2. Bound' /\ LoopListens'
    BY DEF Bound, LoopListens
  <2>3. slow = 0 /\ stops = 0 => port \notin Attempt
    BY DEF Accounted, Locked, Bound
  <2>4. Accounted' /\ NoSecondListener'
    BY <2>3 DEF Accounted, NoSecondListener
  <2> QED
    BY <2>1, <2>2, <2>4
<1>4. ASSUME NEW j \in Job, Ready(j) PROVE Gate'
  <2> USE <1>0, <1>4 DEF Ready, Goes
  <2>1. lock = j /\ trying \in Attempt /\ port = trying
    BY DEF Locked, Bound
  <2>2. Locked' /\ Bound' /\ LoopListens' /\ NoSecondListener'
    BY <2>1 DEF Locked, Bound, LoopListens, NoSecondListener
  <2>3. Accounted'
    BY <2>1 DEF Accounted
  <2> QED
    BY <2>2, <2>3
<1>5. ASSUME NEW j \in Job, StartFails(j) PROVE Gate'
  <2> USE <1>0, <1>5 DEF StartFails, Goes, Surfaced
  <2>1. lock = j /\ trying \in Attempt /\ port # trying
    BY DEF Locked, Bound
  <2>2. Locked' /\ Bound' /\ LoopListens' /\ NoSecondListener'
    BY <2>1 DEF Locked, Bound, LoopListens, NoSecondListener
  <2>3. Accounted'
    BY <2>1 DEF Accounted
  <2> QED
    BY <2>2, <2>3
<1>6. ASSUME NEW j \in Job, StartTimesOut(j) PROVE Gate'
  <2> USE <1>0, <1>6 DEF StartTimesOut, Goes, Recorded
  <2>1. lock = j /\ trying \in Attempt
    BY DEF Locked
  <2>2. Locked' /\ Bound' /\ LoopListens'
    BY <2>1 DEF Locked, Bound, LoopListens
  <2>3. Accounted' /\ NoSecondListener'
    BY DEF Accounted, NoSecondListener
  <2> QED
    BY <2>2, <2>3
<1>7. CASE Stop
  <2> USE <1>0, <1>7 DEF Stop, exec
  <2>1. Locked' /\ Bound' /\ LoopListens'
    BY DEF Locked, Bound, LoopListens
  <2>2. Accounted' /\ NoSecondListener'
    BY DEF Accounted, NoSecondListener
  <2> QED
    BY <2>1, <2>2
<1>8. CASE ForeignLeaves
  BY <1>0, <1>8 DEF ForeignLeaves, exec, Locked, Bound, Accounted, LoopListens,
     NoSecondListener
<1> QED
  BY <1>1, <1>2, <1>3, <1>4, <1>5, <1>6, <1>7, <1>8, StepKinds

\* A step of the gate moves only the job whose thread takes it, which leaves
\* "holding" or "locking", and the port leaves no listener of this process.
LEMMA PortStays == IInv /\ [Next]_vars => (port \in Attempt => port' = port)
<1> SUFFICES ASSUME IInv, [Next]_vars, port \in Attempt PROVE port' = port
  OBVIOUS
<1>0. None \notin Attempt /\ Foreign \notin Attempt
  BY StrangersAreNobody
<1> QED
  BY <1>0, StepKinds
  DEF Elsewhere, gate, StartListener, StartServer, Ready, StartFails, StartTimesOut, Stop,
      ForeignLeaves

\* Every step keeps the dial-ins with the session they dialled for.
LEMMA AimedStep == IInv /\ [Next]_vars => Aimed'
<1> SUFFICES ASSUME IInv, [Next]_vars PROVE Aimed'
  OBVIOUS
<1> USE DEF IInv, TypeOK
<1>0. /\ Tool \subseteq Job /\ Dial \subseteq Job /\ Tool \cap Dial = {}
  BY JobsDisjoint DEF Tool, Job
<1>1. ASSUME NEW j \in Job, NEW to \in {"resumed", "error", "done", "bridged", "holding"},
             Goes(j, to), pc[j] # "idle", aim' = aim
      PROVE  Aimed'
  BY <1>1 DEF Aimed, Goes
<1>2. ASSUME NEW t \in Tool, NEW w \in Work, Submit(t, w), aim' = aim
      PROVE  Aimed'
  <2>1. \A i \in 1..Len(queue') : queue'[i] = t \/ (i \in 1..Len(queue) /\ queue'[i] = queue[i])
    BY <1>2, <1>0 DEF Submit
  <2> QED
    BY <1>2, <1>0, <2>1 DEF Aimed, Submit
<1>3. CASE Take
  <2> USE <1>3 DEF Take, ends
  <2>1. Head(queue) = queue[1] /\ 1 \in 1..Len(queue)
    OBVIOUS
  <2>2. \A i \in 1..Len(queue') : i + 1 \in 1..Len(queue) /\ queue'[i] = queue[i + 1]
    OBVIOUS
  <2>3. \A d \in Dial : pc'[d] # "idle" => aim'[d] # None
    BY <2>1, <1>0 DEF Aimed
  <2> QED
    BY <2>2, <2>3 DEF Aimed
<1>4. ASSUME NEW j \in Job, EnsureStarted(j) \/ StartTimesOut(j) PROVE Aimed'
  BY <1>4, <1>1
  DEF EnsureStarted, AlreadyStarted, StartListener, Ready, StartFails, Surfaced,
      StartTimesOut, ends
<1>5. ASSUME NEW t \in Tool, Call(t) \/ WireConsole(t) PROVE Aimed'
  BY <1>5, <1>2 DEF Call, WireConsole, ends, Work
<1>6. ASSUME NEW t \in Tool, CreateAndSubmit(t) PROVE Aimed'
  BY <1>6, <1>0, <1>1, <1>2 DEF CreateAndSubmit, Work
<1>7. ASSUME NEW t \in Tool, Report(t) PROVE Aimed'
  BY <1>7, <1>0, <1>1, <1>2 DEF Report, Work, ends
<1>8. ASSUME NEW t \in Tool, UseGateway(t) \/ Wired(t) \/ WaitReturns(t) \/ WaitTimesOut(t)
      PROVE  Aimed'
  BY <1>8, <1>0, <1>1 DEF UseGateway, Wired, WaitReturns, WaitTimesOut, ends
<1>9. ASSUME NEW d \in Dial, BridgeWebsocket(d) \/ Hangup(d) PROVE Aimed'
  BY <1>9, <1>0, <1>1 DEF BridgeWebsocket, Hangup, ends
<1>10. ASSUME NEW d \in Dial, NEW t \in Open, NEW part \in Part, DialIn(d, t, part)
       PROVE  Aimed'
  <2>1. aim' = [aim EXCEPT ![d] = <<t, part>>] /\ <<t, part>> # None
    BY <1>10, StrangersAreNobody DEF DialIn
  <2>2. \A i \in 1..Len(queue') : queue'[i] = d \/ (i \in 1..Len(queue) /\ queue'[i] = queue[i])
    BY <1>10, <1>0 DEF DialIn, Submit
  <2> QED
    BY <1>10, <1>0, <2>1, <2>2 DEF Aimed, DialIn, Submit
<1>11. CASE (\E n \in Attempt : StartServer(n)) \/ Stop \/ ForeignLeaves
            \/ (\E d \in Dial : Register(d)) \/ UNCHANGED vars
  BY <1>11 DEF StartServer, Stop, ForeignLeaves, Register, vars, exec, ends, Aimed
<1> QED
  BY <1>3, <1>4, <1>5, <1>6, <1>7, <1>8, <1>9, <1>10, <1>11 DEF Next, ToolGoesOn

\* Every step keeps the dial-ins to listeners of this process.
LEMMA BridgeStep == IInv /\ [Next]_vars => (Bridgeable /\ BridgedToOwn)'
<1> SUFFICES ASSUME IInv, [Next]_vars PROVE Bridgeable' /\ BridgedToOwn'
  OBVIOUS
<1>0. /\ Tool \subseteq Job /\ Dial \subseteq Job /\ Tool \cap Dial = {}
      /\ None \notin Attempt /\ Foreign \notin Attempt
  BY JobsDisjoint, StrangersAreNobody DEF Tool, Job
<1>a. port \in Attempt => port' \in Attempt
  BY PortStays, Zenon
<1> USE DEF IInv, TypeOK
<1> DEFINE Kept == reached' = reached /\ \A d \in Dial : work'[d] = work[d]
<1>1. ASSUME Kept, \A d \in Dial : pc'[d] = "resumed" => pc[d] = "resumed" \/ port' \in Attempt
      PROVE  Bridgeable' /\ BridgedToOwn'
  BY <1>1, <1>a DEF Bridgeable, BridgedToOwn
<1>2. CASE Take
  <2>1. work' = work /\ reached' = reached
    BY <1>2 DEF Take, ends
  <2>2. \A d \in Dial : pc'[d] = "resumed" => pc[d] = "resumed"
    BY <1>2, <1>0 DEF Take
  <2> QED
    BY <2>1, <2>2, <1>1
<1>3. ASSUME NEW j \in Job, AlreadyStarted(j) PROVE Bridgeable' /\ BridgedToOwn'
  <2>1. port' \in Attempt
    BY <1>3, <1>0 DEF AlreadyStarted, Started, LoopListens, gate
  <2> QED
    BY <1>3, <2>1, <1>1 DEF AlreadyStarted, Goes, ends
<1>4. ASSUME NEW j \in Job, NEW n \in Attempt, StartListener(j, n)
      PROVE  Bridgeable' /\ BridgedToOwn'
  BY <1>4, <1>0, <1>1 DEF StartListener, Goes, ends
<1>5. ASSUME NEW j \in Job, Ready(j) PROVE Bridgeable' /\ BridgedToOwn'
  <2>0. lock = j /\ trying \in Attempt
    BY <1>5, StrangersAreNobody DEF Ready, Locked, Job, Tool
  <2>1. port' \in Attempt
    BY <1>5, <2>0 DEF Ready, Bound
  <2> QED
    BY <1>5, <2>1, <1>1 DEF Ready, Goes, ends
<1>6. ASSUME NEW j \in Job, StartFails(j) \/ StartTimesOut(j) PROVE Bridgeable' /\ BridgedToOwn'
  BY <1>6, <1>0, <1>1 DEF StartFails, Surfaced, StartTimesOut, Goes, ends
<1>7. CASE (\E n \in Attempt : StartServer(n)) \/ Stop \/ ForeignLeaves
           \/ (\E d \in Dial : Register(d)) \/ UNCHANGED vars
  BY <1>7, <1>1 DEF StartServer, Stop, ForeignLeaves, Register, vars, exec, ends
<1>8. ASSUME NEW t \in Tool,
             \/ \E w \in Work : Submit(t, w)
             \/ \E to \in {"resumed", "done", "error"} : Goes(t, to),
             reached' = reached
      PROVE  Bridgeable' /\ BridgedToOwn'
  <2>1. \A d \in Dial : work'[d] = work[d] /\ pc'[d] = pc[d]
    BY <1>8, <1>0 DEF Submit, Goes
  <2> QED
    BY <1>8, <2>1, <1>1
<1>9. ASSUME NEW t \in Tool, Call(t) \/ ToolGoesOn(t) PROVE Bridgeable' /\ BridgedToOwn'
  <2>1. reached' = reached
    BY <1>9 DEF Call, ToolGoesOn, UseGateway, CreateAndSubmit, Report, WireConsole, Wired,
       WaitReturns, WaitTimesOut, ends
  <2>2. \/ \E w \in Work : Submit(t, w)
        \/ \E to \in {"resumed", "done", "error"} : Goes(t, to)
    BY <1>9 DEF Call, ToolGoesOn, UseGateway, CreateAndSubmit, Report, WireConsole, Wired,
       WaitReturns, WaitTimesOut, Work
  <2> QED
    BY <2>1, <2>2, <1>8
<1>10. ASSUME NEW d \in Dial, BridgeWebsocket(d) PROVE Bridgeable' /\ BridgedToOwn'
  <2>1. port \in Attempt /\ reached' = [reached EXCEPT ![d] = port]
    BY <1>10, <1>0 DEF BridgeWebsocket, Bridgeable
  <2>2. BridgedToOwn'
    BY <2>1, <1>0 DEF BridgedToOwn
  <2>3. Bridgeable'
    BY <1>10, <1>a, <1>0 DEF BridgeWebsocket, Bridgeable, Goes
  <2> QED
    BY <2>2, <2>3
<1>11. ASSUME NEW d \in Dial, Hangup(d) PROVE Bridgeable' /\ BridgedToOwn'
  BY <1>11, <1>0, <1>1 DEF Hangup, Goes, ends
<1>12. ASSUME NEW d \in Dial, NEW t \in Open, NEW part \in Part, DialIn(d, t, part)
       PROVE  Bridgeable' /\ BridgedToOwn'
  BY <1>12, <1>a, <1>0 DEF DialIn, Submit, Bridgeable, BridgedToOwn
<1> QED
  BY <1>2, <1>3, <1>4, <1>5, <1>6, <1>7, <1>9, <1>10, <1>11, <1>12
  DEF Next, EnsureStarted

\* The invariant holds initially and is kept by every step.
LEMMA Invariance == Spec => []IInv
<1>1. Init => IInv
  <2> SUFFICES ASSUME Init PROVE IInv
    OBVIOUS
  <2>0. /\ None \notin Attempt /\ Foreign \notin Attempt /\ None # Foreign
        /\ Dial \subseteq Job
    BY StrangersAreNobody DEF Job
  <2>1. TypeOK
    BY BoundsAreNat DEF Init, TypeOK, Work
  <2> QED
    BY <2>0, <2>1 DEF Init, IInv, Aimed, Locked, Bound, Accounted, LoopListens,
       NoSecondListener, Bridgeable, BridgedToOwn
<1>2. IInv /\ [Next]_vars => IInv'
  BY TypeStep, AimedStep, GateStep, BridgeStep DEF IInv
<1> QED
  BY <1>1, <1>2, PTL DEF Spec

\* The variables of the service keep their types.
THEOREM TypeCorrect == Spec => []TypeOK
BY Invariance, PTL DEF IInv

\* What the recorded loop runs and what a dial-in reaches are one SSH server.
THEOREM RecordedLoopListens == Spec => []LoopListens
BY Invariance, PTL DEF IInv

\* Concurrent and repeated calls of ensure_started never start a second listener,
\* unless one was slow or the gateway was stopped.
THEOREM StartedOnce == Spec => []NoSecondListener
BY Invariance, PTL DEF IInv

\* No stream of an agent is relayed to another process.
THEOREM BridgesOwn == Spec => []BridgedToOwn
BY Invariance, PTL DEF IInv

(***************************************************************************)
(* The pool cannot lock itself up.  That every queued job is served is a   *)
(* matter of fairness; that nothing waits for what cannot come is not.     *)
(* The queue holds the queued jobs, each once (Queued), no more pieces of  *)
(* work run than there are threads (Housed), ensure_started waits for the  *)
(* lock or a listener, never for a session (Waits), and the lock is held   *)
(* by a thread whose listener is starting or has answered (Held).          *)
(***************************************************************************)
Queued ==
  /\ \A i \in 1..Len(queue) : pc[queue[i]] = "queued"
  /\ \A i, k \in 1..Len(queue) : queue[i] = queue[k] => i = k
  /\ \A j \in Job : pc[j] = "queued" => InQueue(j)

Housed == IsFiniteSet(OnThread) /\ Cardinality(OnThread) <= Threads

Waits == \A j \in Job : pc[j] = "blocked" => work[j] # "start"

Held == lock # None => pc[lock] = "holding" /\ Answers(trying)

Pool == Queued /\ Housed /\ Waits /\ Held

\* A job that hands work to the executor joins the end of the queue.
LEMMA SubmitPool ==
  ASSUME TypeOK, Pool, NEW j \in Job, NEW w \in Work, Submit(j, w),
         pc[j] \in {"idle", "resumed"}, UNCHANGED gate
  PROVE  Pool'
<1> USE DEF TypeOK, Submit, gate
<1>1. Len(queue) \in Nat /\ queue' = Append(queue, j) /\ Len(queue') = Len(queue) + 1
  OBVIOUS
<1>2. \A i \in 1..Len(queue) : queue'[i] = queue[i] /\ queue[i] # j /\ queue[i] \in Job
  BY DEF Pool, Queued
<1>3. queue'[Len(queue')] = j
  OBVIOUS
<1>4. \A i \in 1..Len(queue') : i \in 1..Len(queue) \/ i = Len(queue')
  BY <1>1
<1>5. Queued'
  <2>1. \A i \in 1..Len(queue') : pc'[queue'[i]] = "queued"
    BY <1>2, <1>3, <1>4 DEF Pool, Queued
  <2>2. \A i, k \in 1..Len(queue') : queue'[i] = queue'[k] => i = k
    BY <1>2, <1>3, <1>4 DEF Pool, Queued
  <2>3. ASSUME NEW k \in Job, pc'[k] = "queued" PROVE InQueue(k)'
    <3>1. CASE k = j
      BY <1>1, <1>3, <3>1 DEF InQueue
    <3>2. CASE k # j
      <4>1. PICK i \in 1..Len(queue) : queue[i] = k
        BY <2>3, <3>2 DEF Pool, Queued, InQueue
      <4> QED
        BY <4>1, <1>1, <1>2 DEF InQueue
    <3> QED
      BY <3>1, <3>2
  <2> QED
    BY <2>1, <2>2, <2>3 DEF Queued
<1>6. OnThread' = OnThread
  BY DEF OnThread
<1>7. Housed' /\ Waits' /\ Held'
  BY <1>6 DEF Pool, Housed, Waits, Held, Answers
<1> QED
  BY <1>5, <1>7 DEF Pool

\* A job that goes on leaves the queue alone and takes no thread.
LEMMA GoesPool ==
  ASSUME TypeOK, Pool, NEW j \in Job,
         NEW to \in {"resumed", "error", "done", "bridged", "holding"}, Goes(j, to),
         pc[j] # "queued", to = "holding" => pc[j] = "locking"
  PROVE  (Queued /\ Housed /\ Waits)'
<1> USE DEF TypeOK, Goes
<1>1. Queued'
  BY DEF Pool, Queued, InQueue
<1>2. OnThread' \subseteq OnThread
  BY DEF OnThread
<1>3. /\ IsFiniteSet(OnThread') /\ Cardinality(OnThread') <= Cardinality(OnThread)
      /\ Cardinality(OnThread') \in Nat /\ Cardinality(OnThread) \in Nat
  BY <1>2, FS_Subset, FS_CardinalityType DEF Pool, Housed
<1>4. Housed'
  BY <1>3, BoundsAreNat DEF Pool, Housed
<1> QED
  BY <1>1, <1>4 DEF Pool, Waits

\* The thread that takes the head of the queue was free.
LEMMA TakePool == ASSUME TypeOK, Pool, Take PROVE Pool'
<1> USE DEF TypeOK, Take
<1> DEFINE h == Head(queue)
<1>1. /\ h = queue[1] /\ h \in Job /\ Len(queue) \in Nat /\ 1 \in 1..Len(queue)
      /\ Len(queue') = Len(queue) - 1
  OBVIOUS
<1>2. \A i \in 1..Len(queue') : i + 1 \in 1..Len(queue) /\ queue'[i] = queue[i + 1]
  OBVIOUS
<1>3. pc[h] = "queued" /\ pc'[h] \in {"locking", "blocked"}
      /\ (pc'[h] = "blocked" => work[h] # "start")
      /\ \A k \in Job : k # h => pc'[k] = pc[k]
  BY <1>1 DEF Pool, Queued
<1>4. \A i \in 1..Len(queue') : queue'[i] # h /\ queue'[i] \in Job
  BY <1>1, <1>2 DEF Pool, Queued
<1>5. Queued'
  <2>1. \A i \in 1..Len(queue') : pc'[queue'[i]] = "queued"
    BY <1>2, <1>3, <1>4 DEF Pool, Queued
  <2>2. ASSUME NEW i \in 1..Len(queue'), NEW k \in 1..Len(queue'), queue'[i] = queue'[k]
        PROVE  i = k
    <3>1. i + 1 = k + 1
      BY <2>2, <1>2 DEF Pool, Queued
    <3> QED
      BY <3>1
  <2>3. ASSUME NEW k \in Job, pc'[k] = "queued" PROVE InQueue(k)'
    <3>1. k # h /\ pc[k] = "queued"
      BY <2>3, <1>3
    <3>2. PICK i \in 1..Len(queue) : queue[i] = k
      BY <3>1 DEF Pool, Queued, InQueue
    <3>3. i # 1 /\ i - 1 \in 1..Len(queue') /\ (i - 1) + 1 = i
      BY <3>1, <3>2, <1>1
    <3>4. queue'[i - 1] = k
      BY <3>2, <3>3, <1>2
    <3> QED
      BY <3>3, <3>4 DEF InQueue
  <2> QED
    BY <2>1, <2>2, <2>3 DEF Queued
<1>6. OnThread' = OnThread \cup {h} /\ h \notin OnThread
  BY <1>1, <1>3 DEF OnThread
<1>7. IsFiniteSet(OnThread') /\ Cardinality(OnThread') = Cardinality(OnThread) + 1
  BY <1>6, FS_AddElement DEF Pool, Housed
<1>8. Housed'
  BY <1>7, BoundsAreNat, FS_CardinalityType DEF Pool, Housed
<1>9. Waits'
  BY <1>3 DEF Pool, Waits
<1>10. Held'
  BY <1>3 DEF Pool, Held, Answers, gate
<1> QED
  BY <1>5, <1>8, <1>9, <1>10 DEF Pool

\* Every step of the service keeps the pool as it should be.
LEMMA PoolStep == IInv /\ Pool /\ [Next]_vars => Pool'
<1> SUFFICES ASSUME IInv, Pool, [Next]_vars PROVE Pool'
  OBVIOUS
<1> USE DEF ends
<1>0. /\ TypeOK /\ Locked /\ Tool \subseteq Job /\ Dial \subseteq Job
      /\ None \notin Job
  BY StrangersAreNobody DEF IInv, Tool, Job
<1>1. ASSUME NEW j \in Job, NEW to \in {"resumed", "error", "done", "bridged"},
             Goes(j, to), pc[j] \in {"locking", "blocked", "resumed", "bridged"},
             UNCHANGED gate
      PROVE  Pool'
  <2>1. (Queued /\ Housed /\ Waits)'
    BY <1>0, <1>1, GoesPool
  <2>2. lock # None => lock \in Job /\ lock # j
    BY <1>0, <1>1 DEF TypeOK, Pool, Held
  <2>3. Held'
    BY <1>0, <1>1, <2>2 DEF TypeOK, Goes, gate, Pool, Held, Answers
  <2> QED
    BY <2>1, <2>3 DEF Pool
<1>2. ASSUME UNCHANGED exec, UNCHANGED lock, Held' PROVE Pool'
  BY <1>2 DEF exec, Pool, Queued, InQueue, Housed, OnThread, Waits
<1>3. ASSUME NEW j \in Job, AlreadyStarted(j) PROVE Pool'
  BY <1>3, <1>1 DEF AlreadyStarted
<1>4. ASSUME NEW j \in Job, NEW n \in Attempt, StartListener(j, n) PROVE Pool'
  <2>1. (Queued /\ Housed /\ Waits)'
    BY <1>0, <1>4, GoesPool DEF StartListener
  <2>2. Held'
    BY <1>0, <1>4 DEF StartListener, Goes, TypeOK, Held, Answers
  <2> QED
    BY <2>1, <2>2 DEF Pool
<1>5. ASSUME NEW n \in Attempt, StartServer(n) PROVE Pool'
  <2>1. UNCHANGED exec /\ lock' = lock /\ trying' = trying
    BY <1>5 DEF StartServer
  <2>2. \A m \in Attempt : listener[m] \in {"starting", "listening", "failed"}
          => listener'[m] \in {"starting", "listening", "failed"}
    BY <1>0, <1>5 DEF StartServer, TypeOK
  <2>3. lock # None => trying \in Attempt
    BY <1>0 DEF Locked, TypeOK
  <2>4. Held'
    BY <2>1, <2>2, <2>3 DEF exec, Pool, Held, Answers
  <2> QED
    BY <2>1, <2>4, <1>2
<1>6. ASSUME NEW j \in Job, Ready(j) \/ StartFails(j) \/ StartTimesOut(j) PROVE Pool'
  <2>1. lock' = None /\ pc[j] = "holding" /\ (Goes(j, "resumed") \/ Goes(j, "error"))
    BY <1>6 DEF Ready, StartFails, StartTimesOut, Surfaced
  <2>2. (Queued /\ Housed /\ Waits)'
    BY <1>0, <2>1, GoesPool
  <2> QED
    BY <2>1, <2>2 DEF Pool, Held
<1>7. CASE Stop
  <2>1. lock = None /\ lock' = None /\ UNCHANGED exec
    BY <1>0, <1>7 DEF Stop, Locked
  <2> QED
    BY <2>1, <1>2 DEF Held
<1>8. ASSUME NEW t \in Tool, Call(t) \/ WireConsole(t) PROVE Pool'
  BY <1>8, <1>0, SubmitPool DEF Call, WireConsole, Work
<1>9. ASSUME NEW t \in Tool, CreateAndSubmit(t) PROVE Pool'
  <2>1. pc[t] = "resumed" /\ UNCHANGED gate /\ (Submit(t, "board") \/ Goes(t, "error"))
    BY <1>9 DEF CreateAndSubmit
  <2> QED
    BY <2>1, <1>0, <1>1, SubmitPool DEF Work
<1>10. ASSUME NEW t \in Tool, Report(t) PROVE Pool'
  <2>1. pc[t] = "resumed" /\ UNCHANGED gate /\ (Submit(t, "console") \/ Goes(t, "done"))
    BY <1>10 DEF Report
  <2> QED
    BY <2>1, <1>0, <1>1, SubmitPool DEF Work
<1>11. ASSUME NEW t \in Tool, UseGateway(t) \/ Wired(t) \/ WaitReturns(t) \/ WaitTimesOut(t)
       PROVE  Pool'
  <2>1. /\ UNCHANGED gate /\ pc[t] \in {"resumed", "blocked"}
        /\ Goes(t, "resumed") \/ Goes(t, "error") \/ Goes(t, "done")
    BY <1>11 DEF UseGateway, Wired, WaitReturns, WaitTimesOut
  <2> QED
    BY <2>1, <1>0, <1>1
<1>12. ASSUME NEW d \in Dial, BridgeWebsocket(d) \/ Hangup(d) PROVE Pool'
  <2>1. /\ UNCHANGED gate /\ pc[d] \in {"resumed", "bridged"}
        /\ Goes(d, "error") \/ Goes(d, "bridged") \/ Goes(d, "done")
    BY <1>12 DEF BridgeWebsocket, Hangup
  <2> QED
    BY <2>1, <1>0, <1>1
<1>13. ASSUME NEW d \in Dial, NEW t \in Open, NEW part \in Part, DialIn(d, t, part)
       PROVE  Pool'
  BY <1>13, <1>0, SubmitPool DEF DialIn, Work
<1>14. CASE ForeignLeaves \/ (\E d \in Dial : Register(d)) \/ UNCHANGED vars
  <2>1. UNCHANGED <<exec, lock, trying, listener>>
    BY <1>14 DEF ForeignLeaves, Register, gate, vars
  <2> QED
    BY <2>1, <1>2 DEF exec, Pool, Held, Answers
<1>15. CASE Take
  BY <1>15, <1>0, TakePool
<1> QED
  BY <1>3, <1>4, <1>5, <1>6, <1>7, <1>8, <1>9, <1>10, <1>11, <1>12, <1>13, <1>14, <1>15
  DEF Next, EnsureStarted, ToolGoesOn

\* However many opens hold the threads while their own agents wait in the queue,
\* no queued job is forgotten and some thread goes on.
THEOREM NeverStuck == Spec => []PoolGoesOn
<1>1. Init => Pool
  <2> SUFFICES ASSUME Init PROVE Pool
    OBVIOUS
  <2>1. OnThread = {}
    BY DEF Init, OnThread
  <2>2. Housed
    BY <2>1, FS_EmptySet, BoundsAreNat DEF Housed
  <2> QED
    BY <2>2 DEF Init, Pool, Queued, InQueue, Waits, Held
<1>2. IInv /\ Pool => PoolGoesOn
  <2> SUFFICES ASSUME IInv, Pool, Cardinality(OnThread) = Threads
               PROVE  \E j \in OnThread : GoesOn(j)
    BY FS_CardinalityType, BoundsAreNat DEF Pool, Queued, Housed, PoolGoesOn
  <2>1. PICK j \in Job : pc[j] \in {"locking", "holding", "blocked"}
    BY FS_EmptySet, BoundsAreNat DEF OnThread
  <2>2. CASE pc[j] = "blocked"
    <3>1. work[j] \in Part \cup {"wire"}
      BY <2>1, <2>2 DEF IInv, TypeOK, Work, Part, Pool, Waits
    <3> QED
      BY <2>1, <2>2, <3>1 DEF OnThread, GoesOn, TimesOut
  <2>3. CASE pc[j] \in {"locking", "holding"}
    <3>1. CASE lock = None
      BY <2>1, <2>3, <3>1, StrangersAreNobody DEF OnThread, GoesOn, IInv, Locked, Job, Tool
    <3>2. CASE lock # None
      <4>1. lock \in Job /\ pc[lock] = "holding" /\ Answers(trying)
        BY <3>2 DEF IInv, TypeOK, Pool, Held
      <4> QED
        BY <4>1 DEF OnThread, GoesOn
    <3> QED
      BY <3>1, <3>2
  <2> QED
    BY <2>1, <2>2, <2>3
<1> QED
  BY <1>1, <1>2, Invariance, PoolStep, PTL DEF Spec
=============================================================================
