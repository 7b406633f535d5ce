------------------------ MODULE ConsoleWiringProofs ------------------------
(***************************************************************************)
(* Proofs about ConsoleWiring, for any number of jobs, boards, calls and   *)
(* drops.                                                                  *)
(***************************************************************************)
EXTENDS ConsoleWiring, TLAPS

(***************************************************************************)
(* The inductive invariant.  A job has a board from its schedule on, no    *)
(* two running jobs share one, and only a running job has a proxy          *)
(* (Scheduled).  Everything that names an endpoint, from the call that     *)
(* discovered it to the proxy's connection, names the board of the         *)
(* session's only job (Aimed); what its proxy has read or has yet to read, *)
(* and what is typed through it, follows what that board echoed (Gated).   *)
(* For a proxy connected since before the echo the chunks that are still   *)
(* to be read continue the tail (Heard).                                   *)
(***************************************************************************)
Scheduled ==
  /\ \A j \in Job : /\ jpc[j] \in {"none", "queued"} => board[j] = None
                    /\ Running(j) => board[j] \in Board
                    /\ jpc[j] \in {"none", "queued", "booting"} => echoed[j] < 2
  /\ \A i, j \in Job : Running(i) /\ Running(j) /\ board[i] = board[j] => i = j
  /\ tunnel # None => Running(tunnel)
  /\ \A j \in Job : ~Running(j) => link[j] = None
  /\ \A j \in Job : link[j] = None => inbox[j] = <<>> /\ ~present[j]
  /\ job_id # None => jpc[job_id] # "none"
  /\ \A c \in Call : tjob[c] # None => jpc[tjob[c]] # "none"
  /\ paired => \A j \in Job : jpc[j] # "booting"

Aimed ==
  \A j \in Job : Sole(j) =>
    /\ {console_target, endpoint[j], link[j]} \subseteq {None, board[j]}
    /\ \A c \in Call : found[c] \in {None, board[j]}

Gated ==
  ~paired => \A j \in Job : Sole(j) =>
    /\ \A k \in 1..Len(inbox[j]) : inbox[j][k] <= echoed[j]
    /\ writable[j] => echoed[j] = 2
    /\ \A t \in typed : t[2] = 2

Heard ==
  \A j \in Job : present[j] =>
    /\ link[j] = board[j]
    /\ echoed[j] = 0 => inbox[j] = <<>>
    /\ echoed[j] = 1 => inbox[j] = <<1>> \/ (inbox[j] = <<>> /\ tail[j])
    /\ echoed[j] = 2 => \/ inbox[j] = <<1, 2>>
                        \/ inbox[j] = <<2>> /\ tail[j]
                        \/ inbox[j] = <<>> /\ writable[j]

IInv == TypeOK /\ Scheduled /\ Aimed /\ Gated /\ Heard

\* A call's own step touches neither LAVA nor the proxy, save for the push.
CallStep(c) ==
  \/ \E j \in Job : CheckJobLog(c, j) \/ CheckConsoleReady(c, j)
  \/ \E j \in Maybe(Job) : AttachConsole(c, j)
  \/ WireConsole(c) \/ EnsureConsoleTarget(c) \/ Discover(c) \/ Return(c)

LEMMA CallFrame ==
  ASSUME NEW c \in Call, CallStep(c)
  PROVE  UNCHANGED <<paired, connected, tunnel, lava, proxy, typed, present, losses>>
BY DEF CallStep, CheckJobLog, CheckConsoleReady, AttachConsole, WireConsole, EnsureConsoleTarget,
       Discover, Return, session, lava, proxy, calls

LEMMA NextCases ==
  ASSUME Next
  PROVE  \/ \E c \in Call : CallStep(c) \/ SetConsoleTarget(c)
         \/ \E c \in Call, j \in Job : OpenBoardConsole(c, j)
         \/ \E j \in Job : \/ Dial(j) \/ Connect(j) \/ ReadConsole(j) \/ Type(j)
                            \/ Submit(j) \/ Echo(j) \/ JobEnds(j) \/ ConsoleDrops(j)
         \/ \E j \in Job, b \in Board : Schedule(j, b)
         \/ TunnelDrops
BY DEF Next, Tool, CallStep

\* Every step keeps the variables well typed.
LEMMA TypeStep == IInv /\ [Next]_vars => TypeOK'
<1> SUFFICES ASSUME IInv, [Next]_vars PROVE TypeOK'
  OBVIOUS
<1> USE DEF session, lava, proxy, calls, Maybe
<1>0. TypeOK /\ Scheduled
  BY DEF IInv
<1>1. ASSUME NEW c \in Call, CallStep(c) PROVE TypeOK'
  <2>1. ASSUME NEW j \in Job, CheckConsoleReady(c, j) PROVE TypeOK'
    BY <2>1, <1>0 DEF CheckConsoleReady, Reported, TypeOK
  <2>2. ASSUME NEW j \in Maybe(Job), AttachConsole(c, j) PROVE TypeOK'
    BY <2>2, <1>0 DEF AttachConsole, TypeOK
  <2>3. CASE WireConsole(c)
    BY <2>3, <1>0 DEF WireConsole, TypeOK
  <2>4. CASE EnsureConsoleTarget(c)
    BY <2>4, <1>0 DEF EnsureConsoleTarget, Repush, TypeOK
  <2>5. CASE Discover(c)
    <3>1. \/ UNCHANGED <<console_target, found>>
          \/ \E b \in Proxyable : console_target' = b /\ found' = [found EXCEPT ![c] = b]
      BY <2>5 DEF Discover, Ser2net
    <3>2. console_target' \in Maybe(Proxyable) /\ found' \in [Call -> Maybe(Proxyable)]
      BY <3>1, <1>0 DEF TypeOK
    <3>3. tpc' \in [Call -> {"idle", "opening", "wiring", "discovering", "pushing", "pushed"}]
      BY <2>5, <1>0 DEF Discover, TypeOK
    <3> QED
      BY <2>5, <3>2, <3>3, <1>0 DEF Discover, TypeOK
  <2>6. CASE Return(c)
    BY <2>6, <1>0 DEF Return, TypeOK
  <2>7. ASSUME NEW j \in Job, CheckJobLog(c, j) PROVE TypeOK'
    BY <2>7, <1>0 DEF CheckJobLog, Reported, TypeOK
  <2> QED
    BY <1>1, <2>7, <2>1, <2>2, <2>3, <2>4, <2>5, <2>6 DEF CallStep
<1>2. ASSUME NEW c \in Call, SetConsoleTarget(c) PROVE TypeOK'
  BY <1>2, <1>0 DEF SetConsoleTarget, TypeOK
<1>3. ASSUME NEW c \in Call, NEW j \in Job, OpenBoardConsole(c, j) PROVE TypeOK'
  BY <1>3, <1>0 DEF OpenBoardConsole, TypeOK
<1>4. ASSUME NEW j \in Job, Dial(j) PROVE TypeOK'
  BY <1>4, <1>0 DEF Dial, TypeOK
<1>5. ASSUME NEW j \in Job, Connect(j) PROVE TypeOK'
  BY <1>5, <1>0 DEF Connect, TypeOK
<1>6. ASSUME NEW j \in Job, ReadConsole(j) PROVE TypeOK'
  BY <1>6, <1>0 DEF ReadConsole, Kept, TypeOK
<1>7. ASSUME NEW j \in Job, Type(j) PROVE TypeOK'
  <2>1. typed' \subseteq Board \X (0..2)
    BY <1>7, <1>0, ProxyableAreBoards, NoneIsNoMember DEF Type, MayType, TypeOK
  <2> QED
    BY <1>7, <1>0, <2>1 DEF Type, TypeOK
<1>8. ASSUME NEW j \in Job, Submit(j) PROVE TypeOK'
  BY <1>8, <1>0 DEF Submit, TypeOK
<1>9. ASSUME NEW j \in Job, Echo(j) PROVE TypeOK'
  <2>1. echoed[j] \in 0..2 /\ echoed[j] < 2
    BY <1>9, <1>0 DEF Echo, Scheduled, TypeOK
  <2>2. echoed' \in [Job -> 0..2] /\ echoed'[j] \in {1, 2}
    BY <1>9, <1>0, <2>1 DEF Echo, TypeOK
  <2>3. \A i \in Job : Append(inbox[i], echoed'[j]) \in Seq({1, 2})
    BY <1>0, <2>2 DEF TypeOK
  <2>4. inbox' \in [Job -> Seq({1, 2})]
    BY <1>9, <1>0, <2>3 DEF Echo, TypeOK
  <2> QED
    BY <1>9, <1>0, <2>2, <2>4 DEF Echo, TypeOK
<1>10. ASSUME NEW j \in Job, JobEnds(j) PROVE TypeOK'
  BY <1>10, <1>0 DEF JobEnds, TypeOK
<1>11. ASSUME NEW j \in Job, ConsoleDrops(j) PROVE TypeOK'
  BY <1>11, <1>0, LossesAreNat DEF ConsoleDrops, TypeOK
<1>12. ASSUME NEW j \in Job, NEW b \in Board, Schedule(j, b) PROVE TypeOK'
  BY <1>12, <1>0 DEF Schedule, TypeOK
<1>13. CASE TunnelDrops
  BY <1>13, <1>0, LossesAreNat DEF TunnelDrops, TypeOK
<1>14. CASE UNCHANGED vars
  BY <1>14, <1>0 DEF vars, TypeOK
<1> QED
  BY <1>1, <1>2, <1>3, <1>4, <1>5, <1>6, <1>7, <1>8, <1>9, <1>10, <1>11, <1>12, <1>13, <1>14, NextCases

\* Boards, proxies and the jobs that calls ask for follow the LAVA job.
LEMMA ScheduledStep == IInv /\ [Next]_vars => Scheduled'
<1> SUFFICES ASSUME IInv, [Next]_vars PROVE Scheduled'
  OBVIOUS
<1> USE DEF session, lava, proxy, calls, Maybe
<1>0. TypeOK /\ Scheduled /\ TypeOK'
  BY TypeStep DEF IInv
<1>1. ASSUME NEW c \in Call, CallStep(c) PROVE Scheduled'
  <2>1. /\ job_id' \in Job => job_id' = job_id \/ jpc[job_id'] # "none"
        /\ UNCHANGED jpc
    BY <1>1, CallFrame DEF CallStep, CheckJobLog, CheckConsoleReady, AttachConsole, WireConsole,
       EnsureConsoleTarget, Discover, Return
  <2>2. job_id' # None => jpc[job_id'] # "none"
    BY <1>0, <2>1 DEF Scheduled, TypeOK
  <2>3. \A d \in Call : tjob'[d] \in {tjob[d], job_id', None} \/ jpc[tjob'[d]] # "none"
    BY <1>1, <1>0 DEF CallStep, CheckJobLog, CheckConsoleReady, AttachConsole, WireConsole,
       EnsureConsoleTarget, Discover, Return, TypeOK
  <2>4. \A d \in Call : tjob'[d] # None => jpc[tjob'[d]] # "none"
    BY <1>0, <2>2, <2>3 DEF Scheduled
  <2> QED
    BY <1>1, <1>0, CallFrame, <2>2, <2>4 DEF Scheduled, Running
<1>2. ASSUME NEW c \in Call, SetConsoleTarget(c) PROVE Scheduled'
  BY <1>2, <1>0 DEF SetConsoleTarget, Scheduled, TypeOK, Running
<1>3. ASSUME NEW c \in Call, NEW j \in Job, OpenBoardConsole(c, j) PROVE Scheduled'
  BY <1>3, <1>0 DEF OpenBoardConsole, Scheduled, TypeOK, Running
<1>4. ASSUME NEW j \in Job, Dial(j) PROVE Scheduled'
  BY <1>4, <1>0 DEF Dial, Scheduled, TypeOK, Running
<1>5. ASSUME NEW j \in Job, Connect(j) PROVE Scheduled'
  BY <1>5, <1>0 DEF Connect, Scheduled, TypeOK, Running
<1>6. ASSUME NEW j \in Job, ReadConsole(j) PROVE Scheduled'
  BY <1>6, <1>0 DEF ReadConsole, Scheduled, TypeOK, Running
<1>7. ASSUME NEW j \in Job, Type(j) PROVE Scheduled'
  BY <1>7, <1>0 DEF Type, Scheduled, TypeOK, Running
<1>8. ASSUME NEW j \in Job, Submit(j) PROVE Scheduled'
  BY <1>8, <1>0 DEF Submit, Scheduled, TypeOK, Running
<1>9. ASSUME NEW j \in Job, Echo(j) PROVE Scheduled'
  <2>1. board[j] # None /\ echoed[j] \in {0, 1}
    BY <1>9, <1>0, NoneIsNoMember DEF Echo, Scheduled, Running, TypeOK
  <2>2. /\ \A i \in Job \ {j} : jpc'[i] = jpc[i] /\ echoed'[i] = echoed[i]
        /\ jpc[j] = "booting" /\ echoed'[j] = echoed[j] + 1
        /\ jpc'[j] = IF echoed'[j] = 2 THEN "ready" ELSE "booting"
    BY <1>9, <1>0 DEF Echo, TypeOK
  <2>3. \A i \in Job : link[i] = None => inbox'[i] = inbox[i]
    BY <1>9, <1>0, <2>1 DEF Echo, TypeOK
  <2>4. /\ UNCHANGED <<board, tunnel, link, present, job_id, tjob, paired>>
        /\ \A i \in Job : Running(i)' <=> Running(i)
    BY <1>9, <2>2 DEF Echo, Running
  <2>5. \A i \in Job : /\ jpc'[i] \in {"none", "queued"} => board'[i] = None
                       /\ Running(i)' => board'[i] \in Board
                       /\ jpc'[i] \in {"none", "queued", "booting"} => echoed'[i] < 2
    <3>1. CASE echoed[j] = 0
      BY <1>0, <3>1, <2>2, <2>4 DEF Scheduled
    <3>2. CASE echoed[j] = 1
      BY <1>0, <3>2, <2>2, <2>4 DEF Scheduled
    <3> QED
      BY <2>1, <3>1, <3>2
  <2>6. \A i \in Job : jpc[i] # "none" => jpc'[i] # "none"
    BY <2>2
  <2> QED
    BY <1>0, <2>2, <2>3, <2>4, <2>5, <2>6 DEF Scheduled, TypeOK
<1>10. ASSUME NEW j \in Job, JobEnds(j) PROVE Scheduled'
  BY <1>10, <1>0 DEF JobEnds, Scheduled, TypeOK, Running
<1>11. ASSUME NEW j \in Job, ConsoleDrops(j) PROVE Scheduled'
  BY <1>11, <1>0 DEF ConsoleDrops, Scheduled, TypeOK, Running
<1>12. ASSUME NEW j \in Job, NEW b \in Board, Schedule(j, b) PROVE Scheduled'
  <2>1. /\ board' = [board EXCEPT ![j] = b] /\ jpc[j] = "queued"
        /\ jpc'[j] \in {"booting", "ready"} /\ (paired => jpc'[j] = "ready")
        /\ \A i \in Job \ {j} : jpc'[i] = jpc[i] /\ board'[i] = board[i]
        /\ UNCHANGED <<tunnel, link, inbox, present, job_id, tjob, paired, echoed>>
    BY <1>12, <1>0 DEF Schedule, TypeOK
  <2>2. b # None /\ board'[j] = b /\ ~Running(j)
    BY <1>0, <2>1, NoneIsNoMember DEF TypeOK, Running
  <2>3. \A i \in Job : Running(i) => board[i] # b
    BY <1>12 DEF Schedule
  <2>4. \A i \in Job : Running(i)' <=> Running(i) \/ i = j
    BY <2>1 DEF Running
  <2>5. \A i, k \in Job : Running(i)' /\ Running(k)' /\ board'[i] = board'[k] => i = k
    BY <1>0, <2>1, <2>2, <2>3, <2>4 DEF Scheduled
  <2>6. echoed[j] < 2
    BY <1>0, <2>1 DEF Scheduled
  <2>7. \A i \in Job : /\ jpc'[i] \in {"none", "queued"} => board'[i] = None
                       /\ Running(i)' => board'[i] \in Board
                       /\ jpc'[i] \in {"none", "queued", "booting"} => echoed'[i] < 2
    BY <1>0, <2>1, <2>2, <2>4, <2>6 DEF Scheduled
  <2>8. \A i \in Job : /\ jpc[i] # "none" => jpc'[i] # "none"
                       /\ jpc[i] # "booting" /\ paired => jpc'[i] # "booting"
    BY <2>1
  <2> QED
    BY <1>0, <2>1, <2>4, <2>5, <2>7, <2>8 DEF Scheduled, TypeOK
<1>13. CASE TunnelDrops
  BY <1>13, <1>0 DEF TunnelDrops, Scheduled, TypeOK, Running
<1>14. CASE UNCHANGED vars
  BY <1>14, <1>0 DEF vars, Scheduled, TypeOK, Running
<1> QED
  BY <1>1, <1>2, <1>3, <1>4, <1>5, <1>6, <1>7, <1>8, <1>9, <1>10, <1>11, <1>12, <1>13, <1>14, NextCases

\* The endpoint of the only job's board is all that is passed on.
LEMMA AimedStep == IInv /\ [Next]_vars => Aimed'
<1> SUFFICES ASSUME IInv, [Next]_vars PROVE Aimed'
  OBVIOUS
<1> USE DEF session, lava, proxy, calls, Maybe
<1>0. TypeOK /\ Scheduled /\ Aimed /\ TypeOK'
  BY TypeStep DEF IInv
<1>1. ASSUME NEW c \in Call, CallStep(c) PROVE Aimed'
  <2>1. \A j \in Job : Sole(j) => console_target' \in {console_target, None, board[j]}
    BY <1>1, <1>0 DEF CallStep, CheckJobLog, CheckConsoleReady, AttachConsole, WireConsole,
       EnsureConsoleTarget, Discover, Assigned, Return, Sole, Scheduled, TypeOK
  <2>2. \A j \in Job : Sole(j) =>
          \A d \in Call : found'[d] \in {found[d], console_target, None, board[j]}
    BY <1>1, <1>0 DEF CallStep, CheckJobLog, CheckConsoleReady, AttachConsole, WireConsole,
       EnsureConsoleTarget, Discover, Assigned, Return, Sole, Scheduled, TypeOK
  <2> QED
    BY <1>1, <1>0, CallFrame, <2>1, <2>2 DEF Aimed, Sole, lava, proxy
<1>2. ASSUME NEW c \in Call, SetConsoleTarget(c) PROVE Aimed'
  BY <1>2, <1>0 DEF SetConsoleTarget, Aimed, Sole, Scheduled, TypeOK
<1>3. ASSUME NEW c \in Call, NEW j \in Job, OpenBoardConsole(c, j) PROVE Aimed'
  BY <1>3, <1>0 DEF OpenBoardConsole, Aimed, Sole, Scheduled, TypeOK
<1>4. ASSUME NEW j \in Job, Dial(j) PROVE Aimed'
  BY <1>4, <1>0 DEF Dial, Aimed, Sole, Scheduled, TypeOK
<1>5. ASSUME NEW j \in Job, Connect(j) PROVE Aimed'
  BY <1>5, <1>0 DEF Connect, Aimed, Sole, Scheduled, TypeOK
<1>6. ASSUME NEW j \in Job, ReadConsole(j) PROVE Aimed'
  BY <1>6, <1>0 DEF ReadConsole, Aimed, Sole, Scheduled, TypeOK
<1>7. ASSUME NEW j \in Job, Type(j) PROVE Aimed'
  BY <1>7, <1>0 DEF Type, Aimed, Sole, Scheduled, TypeOK
<1>8. ASSUME NEW j \in Job, Submit(j) PROVE Aimed'
  BY <1>8, <1>0 DEF Submit, Aimed, Sole, Scheduled, TypeOK
<1>9. ASSUME NEW j \in Job, Echo(j) PROVE Aimed'
  BY <1>9, <1>0 DEF Echo, Aimed, Sole, Scheduled, TypeOK
<1>10. ASSUME NEW j \in Job, JobEnds(j) PROVE Aimed'
  <2>1. \A i \in Job : endpoint'[i] \in {endpoint[i], None} /\ link'[i] \in {link[i], None}
    BY <1>10, <1>0 DEF JobEnds, TypeOK
  <2>2. \A i \in Job : jpc'[i] = "none" => jpc[i] = "none"
    BY <1>10, <1>0 DEF JobEnds, TypeOK
  <2>3. UNCHANGED <<console_target, board, found>>
    BY <1>10 DEF JobEnds
  <2> QED
    BY <1>0, <2>1, <2>2, <2>3 DEF Aimed, Sole
<1>11. ASSUME NEW j \in Job, ConsoleDrops(j) PROVE Aimed'
  BY <1>11, <1>0 DEF ConsoleDrops, Aimed, Sole, Scheduled, TypeOK
<1>12. ASSUME NEW j \in Job, NEW b \in Board, Schedule(j, b) PROVE Aimed'
  BY <1>12, <1>0 DEF Schedule, Aimed, Sole, Scheduled, TypeOK
<1>13. CASE TunnelDrops
  BY <1>13, <1>0 DEF TunnelDrops, Aimed, Sole, Scheduled, TypeOK
<1>14. CASE UNCHANGED vars
  BY <1>14, <1>0 DEF vars, Aimed, Sole, Scheduled, TypeOK
<1> QED
  BY <1>1, <1>2, <1>3, <1>4, <1>5, <1>6, <1>7, <1>8, <1>9, <1>10, <1>11, <1>12, <1>13, <1>14, NextCases

\* Only what its own board echoed opens the gate of the only job.
LEMMA GatedStep == IInv /\ [Next]_vars => Gated'
<1> SUFFICES ASSUME IInv, [Next]_vars PROVE Gated'
  OBVIOUS
<1> USE DEF session, lava, proxy, calls, Maybe
<1>0. TypeOK /\ Scheduled /\ Aimed /\ Gated /\ TypeOK'
  BY TypeStep DEF IInv
<1>1. ASSUME NEW c \in Call, CallStep(c) PROVE Gated'
  <2>1. \A j \in Job : Sole(j)' => Sole(j)
    BY <1>1, CallFrame DEF Sole, lava
  <2> QED
    BY <1>1, <1>0, <2>1, CallFrame DEF Gated, lava, proxy
<1>2. ASSUME NEW c \in Call, SetConsoleTarget(c) PROVE Gated'
  BY <1>2, <1>0 DEF SetConsoleTarget, Gated, Sole, TypeOK
<1>3. ASSUME NEW c \in Call, NEW j \in Job, OpenBoardConsole(c, j) PROVE Gated'
  BY <1>3, <1>0 DEF OpenBoardConsole, Gated, Sole, TypeOK
<1>4. ASSUME NEW j \in Job, Dial(j) PROVE Gated'
  BY <1>4, <1>0 DEF Dial, Gated, Sole, TypeOK
<1>5. ASSUME NEW j \in Job, Connect(j) PROVE Gated'
  BY <1>5, <1>0 DEF Connect, Gated, Sole
<1>6. ASSUME NEW j \in Job, ReadConsole(j) PROVE Gated'
  <2>1. /\ inbox' = [inbox EXCEPT ![j] = Tail(inbox[j])] /\ inbox[j] # <<>>
        /\ writable' = [writable EXCEPT ![j] = writable[j] \/ (Head(inbox[j]) = 2 /\ tail[j])]
        /\ UNCHANGED <<paired, jpc, echoed, typed>>
    BY <1>6 DEF ReadConsole, Kept
  <2>2. inbox[j] \in Seq({1, 2}) /\ echoed[j] \in 0..2
    BY <1>0 DEF TypeOK
  <2>3. /\ \A k \in 1..Len(inbox'[j]) : k + 1 \in 1..Len(inbox[j])
                                       /\ inbox'[j][k] = inbox[j][k + 1]
        /\ 1 \in 1..Len(inbox[j]) /\ Head(inbox[j]) = inbox[j][1]
    BY <1>0, <2>1, <2>2 DEF TypeOK
  <2>4. \A i \in Job \ {j} : inbox'[i] = inbox[i] /\ writable'[i] = writable[i]
    BY <1>0, <2>1 DEF TypeOK
  <2>5. ASSUME ~paired, NEW i \in Job, Sole(i)
        PROVE  /\ \A k \in 1..Len(inbox'[i]) : inbox'[i][k] <= echoed[i]
               /\ writable'[i] => echoed[i] = 2
    <3>1. CASE i = j
      <4>1. \A k \in 1..Len(inbox[j]) : inbox[j][k] <= echoed[j]
        BY <1>0, <2>5, <3>1 DEF Gated
      <4>2. writable'[j] => writable[j] \/ Head(inbox[j]) = 2
        BY <1>0, <2>1 DEF TypeOK
      <4> QED
        BY <1>0, <2>2, <2>3, <2>5, <3>1, <4>1, <4>2 DEF Gated
    <3>2. CASE i # j
      BY <1>0, <2>4, <2>5, <3>2 DEF Gated
    <3> QED
      BY <3>1, <3>2
  <2> QED
    BY <1>0, <2>1, <2>5 DEF Gated, Sole
<1>7. ASSUME NEW j \in Job, Type(j) PROVE Gated'
  <2>1. ASSUME ~paired, NEW i \in Job, Sole(i) PROVE \A t \in typed' : t[2] = 2
    <3>1. j = i
      <4>1. Running(j)
        BY <1>7, <1>0, NoneIsNoMember DEF Type, Scheduled
      <4> QED
        BY <2>1, <4>1 DEF Sole, Running
    <3>2. \A k \in Job : Running(k) => k = i
      BY <2>1 DEF Sole, Running
    <3>3. echoed[i] = 2
      BY <1>7, <1>0, <2>1, <3>1 DEF Type, MayType, Gated
    <3> QED
      BY <1>7, <1>0, <2>1, <3>1, <3>2, <3>3 DEF Type, Gated
  <2> QED
    BY <1>7, <1>0, <2>1 DEF Type, Gated, Sole
<1>8. ASSUME NEW j \in Job, Submit(j) PROVE Gated'
  BY <1>8, <1>0 DEF Submit, Gated, Sole, TypeOK
<1>9. ASSUME NEW j \in Job, Echo(j) PROVE Gated'
  <2>1. /\ echoed' = [echoed EXCEPT ![j] = echoed[j] + 1] /\ jpc[j] = "booting"
        /\ inbox' = [i \in Job |-> IF link[i] = board[j] THEN Append(inbox[i], echoed'[j])
                                   ELSE inbox[i]]
        /\ UNCHANGED <<paired, writable, typed>>
        /\ \A i \in Job : jpc'[i] = "none" => jpc[i] = "none"
    BY <1>9, <1>0 DEF Echo, TypeOK
  <2>2. echoed[j] \in {0, 1} /\ inbox[j] \in Seq({1, 2})
    BY <1>0, <2>1 DEF Scheduled, TypeOK
  <2>3. ASSUME ~paired, NEW i \in Job, Sole(i)
        PROVE  /\ \A k \in 1..Len(inbox'[i]) : inbox'[i][k] <= echoed'[i]
               /\ writable[i] => echoed'[i] = 2
               /\ \A t \in typed : t[2] = 2
    <3>1. i = j
      BY <2>1, <2>3 DEF Sole
    <3>2. ~writable[j]
      BY <1>0, <2>2, <2>3, <3>1 DEF Gated
    <3>3. \A k \in 1..Len(inbox[j]) : inbox[j][k] \in {1, 2} /\ inbox[j][k] <= echoed[j]
      BY <1>0, <2>2, <2>3, <3>1 DEF Gated
    <3>4. echoed'[j] = echoed[j] + 1
      BY <1>0, <2>1 DEF TypeOK
    <3>5. \A k \in 1..Len(inbox'[j]) : inbox'[j][k] <= echoed'[j]
      <4>1. CASE inbox'[j] = inbox[j]
        BY <2>2, <3>3, <3>4, <4>1
      <4>2. CASE inbox'[j] = Append(inbox[j], echoed'[j])
        BY <2>2, <3>3, <3>4, <4>2
      <4> QED
        BY <2>1, <4>1, <4>2
    <3> QED
      BY <1>0, <2>3, <3>1, <3>2, <3>5 DEF Gated
  <2>4. \A i \in Job : Sole(i)' => Sole(i)
    BY <2>1 DEF Sole
  <2> QED
    BY <2>1, <2>3, <2>4 DEF Gated
<1>10. ASSUME NEW j \in Job, JobEnds(j) PROVE Gated'
  <2>1. /\ \A i \in Job : \/ inbox'[i] = inbox[i] /\ writable'[i] = writable[i]
                          \/ inbox'[i] = <<>> /\ ~writable'[i]
        /\ \A i \in Job : jpc'[i] = "none" => jpc[i] = "none"
        /\ UNCHANGED <<paired, echoed, typed>>
    BY <1>10, <1>0 DEF JobEnds, TypeOK
  <2>2. \A i \in Job : Sole(i)' => Sole(i)
    BY <2>1 DEF Sole
  <2> QED
    BY <1>0, <2>1, <2>2 DEF Gated
<1>11. ASSUME NEW j \in Job, ConsoleDrops(j) PROVE Gated'
  BY <1>11, <1>0 DEF ConsoleDrops, Gated, Sole, TypeOK
<1>12. ASSUME NEW j \in Job, NEW b \in Board, Schedule(j, b) PROVE Gated'
  BY <1>12, <1>0 DEF Schedule, Gated, Sole, TypeOK
<1>13. CASE TunnelDrops
  BY <1>13, <1>0 DEF TunnelDrops, Gated, Sole, TypeOK
<1>14. CASE UNCHANGED vars
  BY <1>14, <1>0 DEF vars, Gated, Sole, TypeOK
<1> QED
  BY <1>1, <1>2, <1>3, <1>4, <1>5, <1>6, <1>7, <1>8, <1>9, <1>10, <1>11, <1>12, <1>13, <1>14, NextCases

\* A proxy connected since before the echo continues what it read.
LEMMA HeardStep == IInv /\ [Next]_vars => Heard'
<1> SUFFICES ASSUME IInv, [Next]_vars PROVE Heard'
  OBVIOUS
<1> USE DEF session, lava, proxy, calls, Maybe
<1>0. TypeOK /\ Scheduled /\ Heard /\ TypeOK'
  BY TypeStep DEF IInv
<1>1. ASSUME NEW c \in Call, CallStep(c) PROVE Heard'
  BY <1>1, <1>0, CallFrame DEF Heard, lava, proxy
<1>2. ASSUME NEW c \in Call, SetConsoleTarget(c) PROVE Heard'
  BY <1>2, <1>0 DEF SetConsoleTarget, Heard, TypeOK
<1>3. ASSUME NEW c \in Call, NEW j \in Job, OpenBoardConsole(c, j) PROVE Heard'
  BY <1>3, <1>0 DEF OpenBoardConsole, Heard, TypeOK
<1>4. ASSUME NEW j \in Job, Dial(j) PROVE Heard'
  BY <1>4, <1>0 DEF Dial, Heard, TypeOK
<1>5. ASSUME NEW j \in Job, Connect(j) PROVE Heard'
  <2>1. /\ link' = [link EXCEPT ![j] = endpoint[j]] /\ inbox[j] = <<>>
        /\ present' = [present EXCEPT ![j] = endpoint[j] = board[j] /\ echoed[j] = 0]
        /\ UNCHANGED <<board, echoed, inbox, tail, writable>>
    BY <1>5, <1>0 DEF Connect, Scheduled
  <2>2. present'[j] => link'[j] = board[j] /\ echoed[j] = 0
    BY <1>0, <2>1 DEF TypeOK
  <2>3. \A i \in Job \ {j} : present'[i] = present[i] /\ link'[i] = link[i]
    BY <1>0, <2>1 DEF TypeOK
  <2> QED
    BY <1>0, <2>1, <2>2, <2>3 DEF Heard
<1>6. ASSUME NEW j \in Job, ReadConsole(j) PROVE Heard'
  <2>1. /\ inbox' = [inbox EXCEPT ![j] = Tail(inbox[j])] /\ inbox[j] # <<>>
        /\ tail' = [tail EXCEPT ![j] = Head(inbox[j]) = 1]
        /\ writable' = [writable EXCEPT ![j] = writable[j] \/ (Head(inbox[j]) = 2 /\ tail[j])]
        /\ UNCHANGED <<board, echoed, link, present>>
        /\ j \in DOMAIN inbox /\ j \in DOMAIN tail /\ j \in DOMAIN writable
    BY <1>6, <1>0 DEF ReadConsole, Kept, TypeOK
  <2>2. \A i \in Job \ {j} : /\ inbox'[i] = inbox[i] /\ tail'[i] = tail[i]
                             /\ writable'[i] = writable[i]
    BY <1>0, <2>1 DEF TypeOK
  <2>3. /\ inbox'[j] = Tail(inbox[j]) /\ (tail'[j] <=> Head(inbox[j]) = 1)
        /\ (writable'[j] <=> writable[j] \/ (Head(inbox[j]) = 2 /\ tail[j]))
    BY <2>1
  <2>4. ASSUME present[j]
        PROVE  /\ echoed[j] = 0 => inbox'[j] = <<>>
               /\ echoed[j] = 1 => inbox'[j] = <<1>> \/ (inbox'[j] = <<>> /\ tail'[j])
               /\ echoed[j] = 2 => \/ inbox'[j] = <<1, 2>>
                                   \/ inbox'[j] = <<2>> /\ tail'[j]
                                   \/ inbox'[j] = <<>> /\ writable'[j]
    <3>1. CASE echoed[j] = 0
      BY <1>0, <2>1, <2>4, <3>1 DEF Heard
    <3>2. CASE echoed[j] = 1
      <4>1. inbox[j] = <<1>>
        BY <1>0, <2>1, <2>4, <3>2 DEF Heard
      <4> QED
        BY <2>3, <3>2, <4>1
    <3>3. CASE echoed[j] = 2
      <4>1. inbox[j] = <<1, 2>> \/ (inbox[j] = <<2>> /\ tail[j])
        BY <1>0, <2>1, <2>4, <3>3 DEF Heard
      <4>2. CASE inbox[j] = <<1, 2>>
        BY <2>3, <3>3, <4>2
      <4>3. CASE inbox[j] = <<2>> /\ tail[j]
        BY <2>3, <3>3, <4>3
      <4> QED
        BY <4>1, <4>2, <4>3
    <3> QED
      BY <1>0, <3>1, <3>2, <3>3 DEF TypeOK
  <2> QED
    BY <1>0, <2>1, <2>2, <2>4 DEF Heard
<1>7. ASSUME NEW j \in Job, Type(j) PROVE Heard'
  BY <1>7, <1>0 DEF Type, Heard, TypeOK
<1>8. ASSUME NEW j \in Job, Submit(j) PROVE Heard'
  BY <1>8, <1>0 DEF Submit, Heard, TypeOK
<1>9. ASSUME NEW j \in Job, Echo(j) PROVE Heard'
  <2>1. /\ \A i \in Job \ {j} : echoed'[i] = echoed[i]
        /\ echoed'[j] = echoed[j] + 1 /\ jpc[j] = "booting"
        /\ \A i \in Job : inbox'[i] = IF link[i] = board[j] THEN Append(inbox[i], echoed'[j])
                                      ELSE inbox[i]
        /\ UNCHANGED <<board, link, tail, writable, present>>
    BY <1>9, <1>0 DEF Echo, TypeOK
  <2>2. echoed[j] \in {0, 1}
    BY <1>0, <2>1 DEF Scheduled, TypeOK
  <2>3. ASSUME NEW i \in Job \ {j}, present[i] PROVE inbox'[i] = inbox[i]
    <3>1. link[i] # None /\ link[i] = board[i]
      BY <1>0, <2>3 DEF Heard, Scheduled
    <3>2. Running(i) /\ Running(j)
      BY <1>0, <2>1, <3>1 DEF Scheduled, Running
    <3>3. link[i] # board[j]
      BY <1>0, <3>1, <3>2 DEF Scheduled
    <3> QED
      BY <2>1, <3>3
  <2>4. ASSUME present[j]
        PROVE  /\ echoed'[j] = 1 => inbox'[j] = <<1>>
               /\ echoed'[j] = 2 => \/ inbox'[j] = <<1, 2>>
                                    \/ inbox'[j] = <<2>> /\ tail[j]
    <3>1. inbox'[j] = Append(inbox[j], echoed'[j])
      BY <1>0, <2>1, <2>4 DEF Heard
    <3>2. CASE echoed[j] = 0
      BY <1>0, <2>1, <2>4, <3>1, <3>2 DEF Heard
    <3>3. CASE echoed[j] = 1
      BY <1>0, <2>1, <2>4, <3>1, <3>3 DEF Heard
    <3> QED
      BY <2>2, <3>2, <3>3
  <2>5. echoed'[j] \in {1, 2}
    BY <2>1, <2>2
  <2> QED
    BY <1>0, <2>1, <2>3, <2>4, <2>5 DEF Heard
<1>10. ASSUME NEW j \in Job, JobEnds(j) PROVE Heard'
  <2>1. ~present'[j]
    BY <1>10, <1>0 DEF JobEnds, TypeOK
  <2>2. \A i \in Job \ {j} : /\ present'[i] = present[i] /\ link'[i] = link[i]
                             /\ inbox'[i] = inbox[i] /\ tail'[i] = tail[i]
                             /\ writable'[i] = writable[i]
    BY <1>10, <1>0 DEF JobEnds, TypeOK
  <2>3. UNCHANGED <<board, echoed>>
    BY <1>10 DEF JobEnds
  <2> QED
    BY <1>0, <2>1, <2>2, <2>3 DEF Heard
<1>11. ASSUME NEW j \in Job, ConsoleDrops(j) PROVE Heard'
  BY <1>11, <1>0 DEF ConsoleDrops, Heard, TypeOK
<1>12. ASSUME NEW j \in Job, NEW b \in Board, Schedule(j, b) PROVE Heard'
  <2>1. /\ \A i \in Job \ {j} : board'[i] = board[i]
        /\ UNCHANGED <<echoed, link, inbox, tail, writable, present>>
        /\ ~Running(j)
    BY <1>12, <1>0 DEF Schedule, TypeOK, Running
  <2>2. ~present[j]
    BY <1>0, <2>1 DEF Scheduled
  <2> QED
    BY <1>0, <2>1, <2>2 DEF Heard
<1>13. CASE TunnelDrops
  BY <1>13, <1>0 DEF TunnelDrops, Heard, TypeOK
<1>14. CASE UNCHANGED vars
  BY <1>14, <1>0 DEF vars, Heard, TypeOK
<1> QED
  BY <1>1, <1>2, <1>3, <1>4, <1>5, <1>6, <1>7, <1>8, <1>9, <1>10, <1>11, <1>12, <1>13, <1>14, NextCases

\* The invariant is inductive.
THEOREM Inductive == Spec => []IInv
<1>1. Init => IInv
  <2>1. Init => TypeOK
    <3>1. Init => /\ tail \in [Job -> BOOLEAN] /\ writable \in [Job -> BOOLEAN]
                  /\ present \in [Job -> BOOLEAN] /\ inbox \in [Job -> Seq({1, 2})]
      BY DEF Init
    <3>2. Init => losses \in 0..MaxLosses /\ echoed \in [Job -> 0..2]
      BY LossesAreNat DEF Init
    <3>3. Init => /\ jpc \in [Job -> {"none", "queued", "booting", "ready", "ended"}]
                  /\ tpc \in [Call -> {"idle", "opening", "wiring", "discovering",
                                       "pushing", "pushed"}]
                  /\ tool \in [Call -> {"open", "check", "attach"}]
      BY DEF Init
    <3>4. Init => /\ board \in [Job -> Maybe(Board)]
                  /\ endpoint \in [Job -> Maybe(Proxyable)]
                  /\ link \in [Job -> Maybe(Proxyable)]
                  /\ tjob \in [Call -> Maybe(Job)]
                  /\ found \in [Call -> Maybe(Proxyable)]
      BY DEF Init, Maybe
    <3> QED
      BY <3>1, <3>2, <3>3, <3>4 DEF Init, TypeOK, Maybe
  <2>2. Init => Scheduled
    BY DEF Init, Scheduled, Running
  <2>3. Init => Aimed
    BY DEF Init, Aimed
  <2>4. Init => Gated
    BY DEF Init, Gated
  <2>5. Init => Heard
    BY DEF Init, Heard
  <2> QED
    BY <2>1, <2>2, <2>3, <2>4, <2>5 DEF IInv
<1>2. IInv /\ [Next]_vars => IInv'
  BY TypeStep, ScheduledStep, AimedStep, GatedStep, HeardStep DEF IInv
<1> QED
  BY <1>1, <1>2, PTL DEF Spec

\* The variables of the console's wiring have their types.
THEOREM WiringTypes == Spec => []TypeOK
<1>1. IInv => TypeOK
  BY DEF IInv
<1> QED
  BY <1>1, Inductive, PTL

\* With any number of boards, calls and drops, and control lines that come at any
\* time, the gate of a session's only job opens to nobody before its board is up.
THEOREM GateHolds == Spec => []InputOnlyWhenReady
<1>1. IInv => InputOnlyWhenReady
  BY DEF IInv, Gated, InputOnlyWhenReady
<1> QED
  BY <1>1, Inductive, PTL

\* However calls, drops and reconnects interleave, the proxy of a session's only job
\* is connected to no other board than the one LAVA assigned.
THEOREM ConsoleIsOwn == Spec => []OwnConsole
<1>1. IInv => OwnConsole
  BY DEF IInv, Aimed, OwnConsole
<1> QED
  BY <1>1, Inductive, PTL

\* A proxy connected before the echo finds the sentinel although two reads cut it,
\* also when other jobs of the session boot other boards.
THEOREM SentinelFound == Spec => []SentinelSeen
<1>1. <<1, 2>> # <<>> /\ <<2>> # <<>>
  OBVIOUS
<1>2. IInv => SentinelSeen
  BY <1>1 DEF IInv, Heard, SentinelSeen
<1> QED
  BY <1>2, Inductive, PTL
=============================================================================
