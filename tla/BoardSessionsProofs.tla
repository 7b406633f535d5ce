------------------------- MODULE BoardSessionsProofs -------------------------
(***************************************************************************)
(* Safety of BoardSessions, for any number of sessions, users, ports,      *)
(* connections, calls and restarts.                                        *)
(*                                                                         *)
(* IInv adds to the invariants what makes them inductive: every session    *)
(* the registry or a connection speaks of was created (its port is then    *)
(* never changed again), and a connection that has not dialled yet names   *)
(* no session and reached none; only agents' connections ask for ports.    *)
(***************************************************************************)
EXTENDS BoardSessions, TLAPS

\* Sessions that were created.
Created == {s \in Session : owner[s] # None}

\* Whatever the registry, a connection or a forward names was created.
NamesCreated ==
  /\ registry \subseteq Created
  /\ \A k \in Conn : cpc[k] # "idle" => cses[k] \in Created
  /\ \A k \in Conn : reached[k] \in Created \cup {None}

\* A call under way names the session it looked up.
Looked == \A c \in Call : tpc[c] \in Pending => tses[c] \in Session

\* An idle connection names no session and reached none.
Undialled == \A k \in Conn : cpc[k] = "idle" => cses[k] = None /\ reached[k] = None

\* Only an agent's connection asks for a port.
AgentsBind == \A k \in Conn : cpc[k] \in {"binding", "tunnel"} => crole[k] = "agent"

Routing == NamesCreated /\ Undialled /\ AgentsBind /\ BoundByOwnAgent /\ RoutedUnlessShared

IInv == TypeOK /\ Looked /\ RemovedHasNoKeys /\ Routing

\* Every step leaves the calls under way with the session they looked up.
LEMMA LookedStep == TypeOK /\ Looked /\ [Next]_vars => Looked'
<1> SUFFICES ASSUME TypeOK, Looked, [Next]_vars PROVE Looked'
  OBVIOUS
<1> USE DEF TypeOK, Looked, Pending, objects, lavaJob, conns, calls
<1>1. ASSUME NEW u \in User, NEW s \in Session, NEW k \in Session, NEW p \in Port,
            NEW q \in Port,
            NEW answer \in Answer, OpenBoardSession(u, s, k, p, q, answer)
      PROVE  Looked'
  BY <1>1 DEF OpenBoardSession, Unused, FreePort
<1>2. ASSUME NEW u \in User, NEW s \in Session, NEW p \in Port,
            OpenConsoleSession(u, s, p)
      PROVE  Looked'
  BY <1>2 DEF OpenConsoleSession, Unused, FreePort
<1>3. ASSUME NEW c \in Call, NEW u \in User, NEW s \in Session, RunInSession(c, u, s)
      PROVE  Looked'
  BY <1>3 DEF RunInSession, Owned, Begin
<1>4. ASSUME NEW c \in Call, NEW u \in User, NEW s \in Session, AttachShell(c, u, s)
      PROVE  Looked'
  BY <1>4 DEF AttachShell, Owned, Begin
<1>5. ASSUME NEW c \in Call, NEW u \in User, NEW s \in Session, NEW j \in BOOLEAN,
            AttachConsole(c, u, s, j)
      PROVE  Looked'
  BY <1>5 DEF AttachConsole, Owned, Begin
<1>6. ASSUME NEW c \in Call, NEW s \in Session, CheckConsoleReady(c, s)
      PROVE  Looked'
  BY <1>6 DEF CheckConsoleReady, Begin
<1>7. ASSUME NEW c \in Call, NEW u \in User, NEW s \in Session,
            CloseBoardSession(c, u, s)
      PROVE  Looked'
  BY <1>7 DEF CloseBoardSession, Owned, Begin
<1>8. ASSUME NEW u \in User, NEW s \in Session, CloseConsoleSession(u, s)
      PROVE  Looked'
  BY <1>8 DEF CloseConsoleSession, Owned
<1>9. ASSUME NEW c \in Call, GatewayCheck(c) \/ GatewayConnect(c) \/ GatewayStart(c)
      PROVE  Looked'
  BY <1>9 DEF GatewayCheck, GatewayConnect, GatewayStart, Awaiting, Return
<1>10. ASSUME NEW c \in Call, AttachConsoleReturns(c)
      PROVE  Looked'
  BY <1>10 DEF AttachConsoleReturns, Awaiting, Attachable, Return
<1>11. ASSUME NEW c \in Call, CheckReturns(c)
      PROVE  Looked'
  BY <1>11 DEF CheckReturns, Awaiting, Return
<1>12. ASSUME NEW c \in Call, NEW answer \in Answer \ {"no_id"}, CloseReturns(c,
            answer)
      PROVE  Looked'
  BY <1>12 DEF CloseReturns, Awaiting, Return, Dropped
<1>13. ASSUME NEW k \in Conn, NEW s \in Session, AgentAuth(k, s)
      PROVE  Looked'
  BY <1>13 DEF AgentAuth
<1>14. ASSUME NEW k \in Conn, NEW s \in Session, NEW c \in Call, HumanAuth(k, s, c)
      PROVE  Looked'
  BY <1>14 DEF HumanAuth
<1>15. ASSUME NEW k \in Conn, NEW p \in Port, ServerRequested(k, p)
      PROVE  Looked'
  BY <1>15 DEF ServerRequested
<1>16. ASSUME NEW k \in Conn, NEW p \in Port, Bind(k, p)
      PROVE  Looked'
  BY <1>16 DEF Bind
<1>17. ASSUME NEW k \in Conn, NEW p \in Port, ConnectionRequested(k, p)
      PROVE  Looked'
  BY <1>17 DEF ConnectionRequested, At
<1>18. ASSUME NEW k \in Conn, Disconnect(k)
      PROVE  Looked'
  BY <1>18 DEF Disconnect
<1>19. ASSUME NEW s \in Session, JobStarts(s)
      PROVE  Looked'
  BY <1>19 DEF JobStarts
<1>20. ASSUME NEW s \in Session, JobEnds(s)
      PROVE  Looked'
  BY <1>20 DEF JobEnds
<1>21. ASSUME NEW s \in Session, NEW c \in Call, KeyExpires(s, c)
      PROVE  Looked'
  BY <1>21 DEF KeyExpires
<1>22. ASSUME Restart PROVE Looked'
  BY <1>22 DEF Restart
<1>23. CASE UNCHANGED vars
  BY <1>23 DEF vars
<1>24. CASE Open \/ Close
  BY <1>24, <1>1, <1>2, <1>8, Zenon DEF Open, Close
<1>25. CASE Use
  BY <1>25, <1>3, <1>4, <1>5, <1>6, <1>7 DEF Use
<1>26. CASE \E c \in Call : ToolReturn(c)
  BY <1>26, <1>9, <1>10, <1>11, <1>12, Zenon DEF ToolReturn
<1>27. CASE Gateway
  BY <1>27, <1>13, <1>14, <1>15, <1>16, <1>17, <1>18, Zenon DEF Gateway
<1>28. CASE Outside
  BY <1>28, <1>19, <1>20, <1>21, Zenon DEF Outside
<1> QED
  BY <1>22, <1>23, <1>24, <1>25, <1>26, <1>27, <1>28, Zenon DEF Next

\* Every step keeps the types.
LEMMA TypeStep == TypeOK /\ Looked /\ [Next]_vars => TypeOK'
<1> SUFFICES ASSUME TypeOK, Looked, [Next]_vars PROVE TypeOK'
  OBVIOUS
<1> USE DEF objects, lavaJob, conns, calls
<1>1. ASSUME NEW u \in User, NEW s \in Session, NEW k \in Session, NEW p \in Port,
            NEW q \in Port,
            NEW answer \in Answer, OpenBoardSession(u, s, k, p, q, answer)
      PROVE  TypeOK'
  <2>1. registry' \subseteq Session /\ owner' \in [Session -> User \cup {None}]
    BY <1>1 DEF OpenBoardSession, TypeOK
  <2>2. port' \in [Session -> Port \cup {None}] /\ kind' \in [Session -> Kind]
    BY <1>1 DEF OpenBoardSession, TypeOK, Kind
  <2>3. host' \in [Session -> Session] /\ pair' \in [Session -> Session \cup {None}]
    BY <1>1 DEF OpenBoardSession, TypeOK
  <2>4. hasJob' \in [Session -> BOOLEAN]
    BY <1>1 DEF OpenBoardSession, TypeOK
  <2>5. job' \in [Session -> {"none", "queued", "running", "ended"}]
    BY <1>1 DEF OpenBoardSession, TypeOK
  <2>6. UNCHANGED <<status, keys, cancelled, conns, calls, restarts>>
    BY <1>1 DEF OpenBoardSession
  <2> QED
    BY <2>1, <2>2, <2>3, <2>4, <2>5, <2>6 DEF TypeOK
<1>2. ASSUME NEW u \in User, NEW s \in Session, NEW p \in Port,
            OpenConsoleSession(u, s, p)
      PROVE  TypeOK'
  BY <1>2 DEF OpenConsoleSession, Unused, FreePort, TypeOK, Kind, Tool
<1>3. ASSUME NEW c \in Call, NEW u \in User, NEW s \in Session, RunInSession(c, u, s)
      PROVE  TypeOK'
  BY <1>3 DEF RunInSession, Owned, Begin, TypeOK, Kind, Tool
<1>4. ASSUME NEW c \in Call, NEW u \in User, NEW s \in Session, AttachShell(c, u, s)
      PROVE  TypeOK'
  BY <1>4 DEF AttachShell, Owned, Begin, TypeOK, Kind, Tool
<1>5. ASSUME NEW c \in Call, NEW u \in User, NEW s \in Session, NEW j \in BOOLEAN,
            AttachConsole(c, u, s, j)
      PROVE  TypeOK'
  BY <1>5 DEF AttachConsole, Owned, Begin, TypeOK, Kind, Tool
<1>6. ASSUME NEW c \in Call, NEW s \in Session, CheckConsoleReady(c, s)
      PROVE  TypeOK'
  BY <1>6 DEF CheckConsoleReady, Begin, TypeOK, Kind, Tool
<1>7. ASSUME NEW c \in Call, NEW u \in User, NEW s \in Session,
            CloseBoardSession(c, u, s)
      PROVE  TypeOK'
  BY <1>7 DEF CloseBoardSession, Owned, Begin, TypeOK, Kind, Tool
<1>8. ASSUME NEW u \in User, NEW s \in Session, CloseConsoleSession(u, s)
      PROVE  TypeOK'
  BY <1>8 DEF CloseConsoleSession, Owned, TypeOK, Kind, Tool
<1>9. ASSUME NEW c \in Call, GatewayCheck(c) \/ GatewayConnect(c) \/ GatewayStart(c)
      PROVE  TypeOK'
  BY <1>9 DEF GatewayCheck, GatewayConnect, GatewayStart, Awaiting, Return, TypeOK, Kind, Tool
<1>10. ASSUME NEW c \in Call, AttachConsoleReturns(c)
      PROVE  TypeOK'
  <2>1. tses[c] \in Session
    BY <1>10 DEF AttachConsoleReturns, Awaiting, Looked, Pending
  <2>2. keys' \in [Session -> SUBSET Call]
    BY <1>10, <2>1 DEF AttachConsoleReturns, TypeOK
  <2>3. tpc' \in [Call -> {"idle", "awaiting", "connecting", "inside", "done", "error"}]
    BY <1>10 DEF AttachConsoleReturns, Return, TypeOK
  <2> QED
    BY <1>10, <2>2, <2>3 DEF AttachConsoleReturns, Return, TypeOK, Kind, Tool
<1>11. ASSUME NEW c \in Call, CheckReturns(c)
      PROVE  TypeOK'
  BY <1>11 DEF CheckReturns, Awaiting, Return, TypeOK, Kind, Tool
<1>12. ASSUME NEW c \in Call, NEW answer \in Answer \ {"no_id"}, CloseReturns(c,
            answer)
      PROVE  TypeOK'
  <2>1. tses[c] \in Session /\ host[tses[c]] \in Session
    BY <1>12 DEF CloseReturns, Awaiting, Looked, Pending, TypeOK
  <2>2. cancelled' \subseteq Session
    BY <1>12, <2>1 DEF CloseReturns, TypeOK
  <2>3. status' \in [Session -> {"pending", "connected", "closed"}]
    BY <1>12, <2>1 DEF CloseReturns, TypeOK
  <2>4. keys' \in [Session -> SUBSET Call]
    BY <1>12 DEF CloseReturns, TypeOK
  <2>5. tpc' \in [Call -> {"idle", "awaiting", "connecting", "inside", "done", "error"}]
    BY <1>12 DEF CloseReturns, Return, TypeOK
  <2> QED
    BY <1>12, <2>2, <2>3, <2>4, <2>5 DEF CloseReturns, Return, TypeOK, Kind, Tool
<1>13. ASSUME NEW k \in Conn, NEW s \in Session, AgentAuth(k, s)
      PROVE  TypeOK'
  BY <1>13 DEF AgentAuth, TypeOK, Kind, Tool
<1>14. ASSUME NEW k \in Conn, NEW s \in Session, NEW c \in Call, HumanAuth(k, s, c)
      PROVE  TypeOK'
  BY <1>14 DEF HumanAuth, TypeOK, Kind, Tool
<1>15. ASSUME NEW k \in Conn, NEW p \in Port, ServerRequested(k, p)
      PROVE  TypeOK'
  BY <1>15 DEF ServerRequested, TypeOK, Kind, Tool
<1>16. ASSUME NEW k \in Conn, NEW p \in Port, Bind(k, p)
      PROVE  TypeOK'
  <2>1. bound' \in [Port -> Conn \cup {None}]
    BY <1>16 DEF Bind, TypeOK
  <2>2. \E pc \in {"tunnel", "refused"} : cpc' = [cpc EXCEPT ![k] = pc]
    BY <1>16 DEF Bind
  <2>3. cpc' \in [Conn -> {"idle", "authenticated", "binding", "tunnel", "refused", "closed"}]
    BY <2>2 DEF TypeOK
  <2>4. UNCHANGED <<registry, objects, status, hasJob, keys, lavaJob, cses, crole,
                    reached, calls, restarts>>
    BY <1>16 DEF Bind
  <2> QED
    BY <2>1, <2>3, <2>4 DEF TypeOK
<1>17. ASSUME NEW k \in Conn, NEW p \in Port, ConnectionRequested(k, p)
      PROVE  TypeOK'
  BY <1>17 DEF ConnectionRequested, At, TypeOK, Kind, Tool
<1>18. ASSUME NEW k \in Conn, Disconnect(k)
      PROVE  TypeOK'
  BY <1>18 DEF Disconnect, TypeOK, Kind, Tool
<1>19. ASSUME NEW s \in Session, JobStarts(s)
      PROVE  TypeOK'
  BY <1>19 DEF JobStarts, TypeOK, Kind, Tool
<1>20. ASSUME NEW s \in Session, JobEnds(s)
      PROVE  TypeOK'
  BY <1>20 DEF JobEnds, TypeOK, Kind, Tool
<1>21. ASSUME NEW s \in Session, NEW c \in Call, KeyExpires(s, c)
      PROVE  TypeOK'
  BY <1>21 DEF KeyExpires, TypeOK, Kind, Tool
<1>22. ASSUME Restart PROVE TypeOK'
  <2>1. restarts' \in 0..MaxRestarts
    BY <1>22, RestartsAreNat DEF Restart, TypeOK
  <2>2. bound' \in [Port -> Conn \cup {None}] /\ keys' \in [Session -> SUBSET Call]
    BY <1>22 DEF Restart, TypeOK
  <2>3. cpc' \in [Conn -> {"idle", "authenticated", "binding", "tunnel", "refused", "closed"}]
    BY <1>22 DEF Restart, TypeOK
  <2>4. tpc' \in [Call -> {"idle", "awaiting", "connecting", "inside", "done", "error"}]
    BY <1>22 DEF Restart, TypeOK
  <2> QED
    BY <1>22, <2>1, <2>2, <2>3, <2>4 DEF Restart, TypeOK, Kind, Tool
<1>23. CASE UNCHANGED vars
  BY <1>23 DEF vars, TypeOK, Kind, Tool
<1>24. CASE Open \/ Close
  BY <1>24, <1>1, <1>2, <1>8, Zenon DEF Open, Close
<1>25. CASE Use
  BY <1>25, <1>3, <1>4, <1>5, <1>6, <1>7 DEF Use
<1>26. CASE \E c \in Call : ToolReturn(c)
  BY <1>26, <1>9, <1>10, <1>11, <1>12, Zenon DEF ToolReturn
<1>27. CASE Gateway
  BY <1>27, <1>13, <1>14, <1>15, <1>16, <1>17, <1>18, Zenon DEF Gateway
<1>28. CASE Outside
  BY <1>28, <1>19, <1>20, <1>21, Zenon DEF Outside
<1> QED
  BY <1>22, <1>23, <1>24, <1>25, <1>26, <1>27, <1>28, Zenon DEF Next

\* Every step leaves a session outside the registry without human keys.
LEMMA KeysStep == TypeOK /\ RemovedHasNoKeys /\ [Next]_vars => RemovedHasNoKeys'
<1> SUFFICES ASSUME TypeOK, RemovedHasNoKeys, [Next]_vars PROVE RemovedHasNoKeys'
  OBVIOUS
<1> USE DEF TypeOK, RemovedHasNoKeys, objects, lavaJob, conns, calls
<1>1. ASSUME NEW u \in User, NEW s \in Session, NEW k \in Session, NEW p \in Port,
            NEW q \in Port,
            NEW answer \in Answer, OpenBoardSession(u, s, k, p, q, answer)
      PROVE  RemovedHasNoKeys'
  BY <1>1 DEF OpenBoardSession, Unused, FreePort
<1>2. ASSUME NEW u \in User, NEW s \in Session, NEW p \in Port,
            OpenConsoleSession(u, s, p)
      PROVE  RemovedHasNoKeys'
  BY <1>2 DEF OpenConsoleSession, Unused, FreePort
<1>3. ASSUME NEW c \in Call, NEW u \in User, NEW s \in Session, RunInSession(c, u, s)
      PROVE  RemovedHasNoKeys'
  BY <1>3 DEF RunInSession, Owned, Begin
<1>4. ASSUME NEW c \in Call, NEW u \in User, NEW s \in Session, AttachShell(c, u, s)
      PROVE  RemovedHasNoKeys'
  BY <1>4 DEF AttachShell, Owned, Begin
<1>5. ASSUME NEW c \in Call, NEW u \in User, NEW s \in Session, NEW j \in BOOLEAN,
            AttachConsole(c, u, s, j)
      PROVE  RemovedHasNoKeys'
  BY <1>5 DEF AttachConsole, Owned, Begin
<1>6. ASSUME NEW c \in Call, NEW s \in Session, CheckConsoleReady(c, s)
      PROVE  RemovedHasNoKeys'
  BY <1>6 DEF CheckConsoleReady, Begin
<1>7. ASSUME NEW c \in Call, NEW u \in User, NEW s \in Session,
            CloseBoardSession(c, u, s)
      PROVE  RemovedHasNoKeys'
  BY <1>7 DEF CloseBoardSession, Owned, Begin
<1>8. ASSUME NEW u \in User, NEW s \in Session, CloseConsoleSession(u, s)
      PROVE  RemovedHasNoKeys'
  BY <1>8 DEF CloseConsoleSession, Owned
<1>9. ASSUME NEW c \in Call, GatewayCheck(c) \/ GatewayConnect(c) \/ GatewayStart(c)
      PROVE  RemovedHasNoKeys'
  BY <1>9 DEF GatewayCheck, GatewayConnect, GatewayStart, Awaiting, Return
<1>10. ASSUME NEW c \in Call, AttachConsoleReturns(c)
      PROVE  RemovedHasNoKeys'
  BY <1>10 DEF AttachConsoleReturns, Awaiting, Attachable, Return
<1>11. ASSUME NEW c \in Call, CheckReturns(c)
      PROVE  RemovedHasNoKeys'
  BY <1>11 DEF CheckReturns, Awaiting, Return
<1>12. ASSUME NEW c \in Call, NEW answer \in Answer \ {"no_id"}, CloseReturns(c,
            answer)
      PROVE  RemovedHasNoKeys'
  BY <1>12 DEF CloseReturns, Awaiting, Return, Dropped
<1>13. ASSUME NEW k \in Conn, NEW s \in Session, AgentAuth(k, s)
      PROVE  RemovedHasNoKeys'
  BY <1>13 DEF AgentAuth
<1>14. ASSUME NEW k \in Conn, NEW s \in Session, NEW c \in Call, HumanAuth(k, s, c)
      PROVE  RemovedHasNoKeys'
  BY <1>14 DEF HumanAuth
<1>15. ASSUME NEW k \in Conn, NEW p \in Port, ServerRequested(k, p)
      PROVE  RemovedHasNoKeys'
  BY <1>15 DEF ServerRequested
<1>16. ASSUME NEW k \in Conn, NEW p \in Port, Bind(k, p)
      PROVE  RemovedHasNoKeys'
  BY <1>16 DEF Bind
<1>17. ASSUME NEW k \in Conn, NEW p \in Port, ConnectionRequested(k, p)
      PROVE  RemovedHasNoKeys'
  BY <1>17 DEF ConnectionRequested, At
<1>18. ASSUME NEW k \in Conn, Disconnect(k)
      PROVE  RemovedHasNoKeys'
  BY <1>18 DEF Disconnect
<1>19. ASSUME NEW s \in Session, JobStarts(s)
      PROVE  RemovedHasNoKeys'
  BY <1>19 DEF JobStarts
<1>20. ASSUME NEW s \in Session, JobEnds(s)
      PROVE  RemovedHasNoKeys'
  BY <1>20 DEF JobEnds
<1>21. ASSUME NEW s \in Session, NEW c \in Call, KeyExpires(s, c)
      PROVE  RemovedHasNoKeys'
  BY <1>21 DEF KeyExpires
<1>22. ASSUME Restart PROVE RemovedHasNoKeys'
  BY <1>22 DEF Restart
<1>23. CASE UNCHANGED vars
  BY <1>23 DEF vars
<1>24. CASE Open \/ Close
  BY <1>24, <1>1, <1>2, <1>8, Zenon DEF Open, Close
<1>25. CASE Use
  BY <1>25, <1>3, <1>4, <1>5, <1>6, <1>7 DEF Use
<1>26. CASE \E c \in Call : ToolReturn(c)
  BY <1>26, <1>9, <1>10, <1>11, <1>12, Zenon DEF ToolReturn
<1>27. CASE Gateway
  BY <1>27, <1>13, <1>14, <1>15, <1>16, <1>17, <1>18, Zenon DEF Gateway
<1>28. CASE Outside
  BY <1>28, <1>19, <1>20, <1>21, Zenon DEF Outside
<1> QED
  BY <1>22, <1>23, <1>24, <1>25, <1>26, <1>27, <1>28, Zenon DEF Next

\* Every step keeps the routing of the ports.
LEMMA RoutingStep == TypeOK /\ Routing /\ [Next]_vars => Routing'
<1> SUFFICES ASSUME TypeOK, Routing, [Next]_vars PROVE Routing'
  OBVIOUS
<1> USE DEF TypeOK, Routing, NamesCreated, Undialled, AgentsBind,
             BoundByOwnAgent, RoutedUnlessShared, Created, OwnPort, objects, lavaJob, conns, calls
<1>1. ASSUME NEW u \in User, NEW s \in Session, NEW k \in Session, NEW p \in Port,
            NEW q \in Port,
            NEW answer \in Answer, OpenBoardSession(u, s, k, p, q, answer)
      PROVE  Routing'
  <2>1. \A x \in Created : x # s /\ x # k
    BY <1>1 DEF OpenBoardSession, Unused
  <2>2. \A x \in Created : port'[x] = port[x] /\ x \in Created'
    BY <1>1, <2>1 DEF OpenBoardSession
  <2>3. registry' \subseteq Created'
    BY <1>1, <2>2, NoneIsNoMember DEF OpenBoardSession
  <2>4. UNCHANGED <<conns>>
    BY <1>1 DEF OpenBoardSession
  <2>5. NamesCreated'
    BY <2>2, <2>3, <2>4
  <2>6. BoundByOwnAgent' /\ RoutedUnlessShared'
    BY <2>2, <2>4
  <2> QED
    BY <2>4, <2>5, <2>6
<1>2. ASSUME NEW u \in User, NEW s \in Session, NEW p \in Port,
            OpenConsoleSession(u, s, p)
      PROVE  Routing'
  <2>1. \A x \in Created : port'[x] = port[x] /\ x \in Created'
    BY <1>2 DEF OpenConsoleSession, Unused
  <2>2. registry' \subseteq Created'
    BY <1>2, <2>1, NoneIsNoMember DEF OpenConsoleSession
  <2>3. UNCHANGED <<conns>>
    BY <1>2 DEF OpenConsoleSession
  <2>4. NamesCreated'
    BY <2>1, <2>2, <2>3
  <2>5. BoundByOwnAgent' /\ RoutedUnlessShared'
    BY <2>1, <2>3
  <2> QED
    BY <2>3, <2>4, <2>5
<1>3. ASSUME NEW c \in Call, NEW u \in User, NEW s \in Session, RunInSession(c, u, s)
      PROVE  Routing'
  BY <1>3 DEF RunInSession, Owned, Begin
<1>4. ASSUME NEW c \in Call, NEW u \in User, NEW s \in Session, AttachShell(c, u, s)
      PROVE  Routing'
  BY <1>4 DEF AttachShell, Owned, Begin
<1>5. ASSUME NEW c \in Call, NEW u \in User, NEW s \in Session, NEW j \in BOOLEAN,
            AttachConsole(c, u, s, j)
      PROVE  Routing'
  BY <1>5 DEF AttachConsole, Owned, Begin
<1>6. ASSUME NEW c \in Call, NEW s \in Session, CheckConsoleReady(c, s)
      PROVE  Routing'
  BY <1>6 DEF CheckConsoleReady, Begin
<1>7. ASSUME NEW c \in Call, NEW u \in User, NEW s \in Session,
            CloseBoardSession(c, u, s)
      PROVE  Routing'
  BY <1>7 DEF CloseBoardSession, Owned, Begin
<1>8. ASSUME NEW u \in User, NEW s \in Session, CloseConsoleSession(u, s)
      PROVE  Routing'
  BY <1>8 DEF CloseConsoleSession, Owned
<1>9. ASSUME NEW c \in Call, GatewayCheck(c) \/ GatewayConnect(c) \/ GatewayStart(c)
      PROVE  Routing'
  BY <1>9 DEF GatewayCheck, GatewayConnect, GatewayStart, Awaiting, Return
<1>10. ASSUME NEW c \in Call, AttachConsoleReturns(c)
      PROVE  Routing'
  BY <1>10 DEF AttachConsoleReturns, Awaiting, Attachable, Return
<1>11. ASSUME NEW c \in Call, CheckReturns(c)
      PROVE  Routing'
  BY <1>11 DEF CheckReturns, Awaiting, Return
<1>12. ASSUME NEW c \in Call, NEW answer \in Answer \ {"no_id"}, CloseReturns(c,
            answer)
      PROVE  Routing'
  BY <1>12 DEF CloseReturns, Awaiting, Return, Dropped
<1>13. ASSUME NEW k \in Conn, NEW s \in Session, AgentAuth(k, s)
      PROVE  Routing'
  BY <1>13 DEF AgentAuth
<1>14. ASSUME NEW k \in Conn, NEW s \in Session, NEW c \in Call, HumanAuth(k, s, c)
      PROVE  Routing'
  BY <1>14 DEF HumanAuth
<1>15. ASSUME NEW k \in Conn, NEW p \in Port, ServerRequested(k, p)
      PROVE  Routing'
  BY <1>15 DEF ServerRequested
<1>16. ASSUME NEW k \in Conn, NEW p \in Port, Bind(k, p)
      PROVE  Routing'
  <2>1. CASE bound[p] = None
    <3>1. \A x \in Port : bound'[x] = bound[x] \/ (x = p /\ bound'[x] = k)
      BY <1>16, <2>1 DEF Bind
    <3>2. cpc'[k] = "tunnel" /\ \A x \in Conn \ {k} : cpc'[x] = cpc[x]
      BY <1>16, <2>1 DEF Bind
    <3>3. crole[k] = "agent" /\ port[cses[k]] = p
      BY <1>16, <2>1 DEF Bind
    <3> QED
      BY <1>16, <2>1, <3>1, <3>2, <3>3 DEF Bind
  <2>2. CASE bound[p] # None
    BY <1>16, <2>2 DEF Bind
  <2> QED
    BY <2>1, <2>2
<1>17. ASSUME NEW k \in Conn, NEW p \in Port, ConnectionRequested(k, p)
      PROVE  Routing'
  <2>1. At(p) = None \/ (At(p) \in Created /\ port[At(p)] = port[cses[k]])
    BY <1>17 DEF ConnectionRequested, At
  <2>2. \A x \in Conn : reached'[x] = IF x = k THEN At(p) ELSE reached[x]
    BY <1>17 DEF ConnectionRequested
  <2> QED
    BY <1>17, <2>1, <2>2 DEF ConnectionRequested
<1>18. ASSUME NEW k \in Conn, Disconnect(k)
      PROVE  Routing'
  BY <1>18 DEF Disconnect
<1>19. ASSUME NEW s \in Session, JobStarts(s)
      PROVE  Routing'
  BY <1>19 DEF JobStarts
<1>20. ASSUME NEW s \in Session, JobEnds(s)
      PROVE  Routing'
  BY <1>20 DEF JobEnds
<1>21. ASSUME NEW s \in Session, NEW c \in Call, KeyExpires(s, c)
      PROVE  Routing'
  BY <1>21 DEF KeyExpires
<1>22. ASSUME Restart PROVE Routing'
  BY <1>22 DEF Restart
<1>23. CASE UNCHANGED vars
  BY <1>23 DEF vars
<1>24. CASE Open \/ Close
  BY <1>24, <1>1, <1>2, <1>8, Zenon DEF Open, Close
<1>25. CASE Use
  BY <1>25, <1>3, <1>4, <1>5, <1>6, <1>7 DEF Use
<1>26. CASE \E c \in Call : ToolReturn(c)
  BY <1>26, <1>9, <1>10, <1>11, <1>12, Zenon DEF ToolReturn
<1>27. CASE Gateway
  BY <1>27, <1>13, <1>14, <1>15, <1>16, <1>17, <1>18, Zenon DEF Gateway
<1>28. CASE Outside
  BY <1>28, <1>19, <1>20, <1>21, Zenon DEF Outside
<1> QED
  BY <1>22, <1>23, <1>24, <1>25, <1>26, <1>27, <1>28, Zenon DEF Next

\* The inductive invariant holds initially.
LEMMA IInvInit == Init => IInv
BY NoneIsNoMember, RestartsAreNat
   DEF Init, IInv, TypeOK, Looked, Pending, Kind, Tool, RemovedHasNoKeys, Routing, NamesCreated,
       Undialled, AgentsBind, BoundByOwnAgent, RoutedUnlessShared, Created

\* The inductive invariant of the sessions and the gateway: types, keys only in
\* registered sessions, ports bound only by their own agents.
THEOREM SessionInvariant == Spec => []IInv
<1>1. IInv /\ [Next]_vars => IInv'
  BY LookedStep, TypeStep, KeysStep, RoutingStep DEF IInv
<1> QED
  BY <1>1, IInvInit, PTL DEF Spec

\* Type correctness.
THEOREM SessionTypeOK == Spec => []TypeOK
<1>1. IInv => TypeOK
  BY DEF IInv
<1> QED
  BY <1>1, SessionInvariant, PTL

\* No human key outlives its session (SessionManager.remove, attach_human).
THEOREM ClosedSessionAdmitsNobody == Spec => []RemovedHasNoKeys
<1>1. IInv => RemovedHasNoKeys
  BY DEF IInv
<1> QED
  BY <1>1, SessionInvariant, PTL

\* Only a session's own agent listens on its port (server_requested).
THEOREM PortsBelongToAgents == Spec => []BoundByOwnAgent
<1>1. IInv => BoundByOwnAgent
  BY DEF IInv, Routing
<1> QED
  BY <1>1, SessionInvariant, PTL

\* A human's forward strays only between sessions with one port
\* (connection_requested).
THEOREM ForwardsStayOnPort == Spec => []RoutedUnlessShared
<1>1. IInv => RoutedUnlessShared
  BY DEF IInv, Routing
<1> QED
  BY <1>1, SessionInvariant, PTL

-----------------------------------------------------------------------------
(* BoardSessions implements SessionContract.                               *)

Step == Contract!Next \/ UNCHANGED <<Life, keys, Entered, ran, Admitted, Forwarded>>

\* A session the registry holds is open.
LEMMA RegistryIsOpen ==
  ASSUME IInv, NEW s \in registry PROVE s \in Session /\ Life[s] = "open"
BY DEF IInv, TypeOK, Routing, NamesCreated, Created, Life

LEMMA LifeKept == ASSUME UNCHANGED <<registry, owner>> PROVE Life' = Life
BY DEF Life

LEMMA ConnsKept ==
  ASSUME UNCHANGED <<cses, crole, reached>> PROVE Admitted' = Admitted /\ Forwarded' = Forwarded
BY DEF Admitted, Forwarded

\* A call is let in or done with only in the steps of _run.
LEMMA EnteredKept ==
  ASSUME \A c \in Call : \/ tpc'[c] = tpc[c] /\ tses'[c] = tses[c]
                        \/ {tpc[c], tpc'[c]} \cap {"connecting", "inside"} = {}
  PROVE  Entered' = Entered
BY DEF Entered

LEMMA BeginKeeps ==
  ASSUME TypeOK, NEW c \in Call, NEW tool, NEW s, Begin(c, tool, s, "awaiting")
  PROVE  Entered' = Entered /\ ran' = ran
BY EnteredKept DEF Begin, TypeOK

LEMMA ReturnKeeps ==
  ASSUME TypeOK, NEW c \in Call, tpc[c] = "awaiting", NEW pc \in {"done", "error"}, Return(c, pc)
  PROVE  Entered' = Entered /\ ran' = ran
BY EnteredKept DEF Return, TypeOK

\* The calls C end without their command, or what they ended with changes nothing.
LEMMA LeaveSteps ==
  ASSUME IInv, NEW C \in SUBSET Call, UNCHANGED <<registry, owner, keys, ran, cses, crole, reached>>,
         Entered' = [c \in Call |-> IF c \in C THEN None ELSE Entered[c]]
  PROVE  Step
BY LifeKept, ConnsKept DEF Step, Contract!Next, Contract!Leave

\* A step that leaves sessions, keys, commands and connections alone.
LEMMA Stutters ==
  ASSUME UNCHANGED <<registry, owner, keys, Entered, ran, cses, crole, reached>> PROVE Step
BY LifeKept, ConnsKept DEF Step

\* New sessions are opened.
LEMMA OpenSteps ==
  ASSUME IInv, NEW S \in SUBSET Session, NEW u \in User, S \subseteq Unused,
         registry' = registry \cup S,
         owner' = [x \in Session |-> IF x \in S THEN u ELSE owner[x]],
         UNCHANGED <<keys, Entered, ran, cses, crole, reached>>
  PROVE  Step
<1>1. \A s \in S : Life[s] = "absent"
  BY DEF Unused, Life
<1>2. u # None
  BY NoneIsNoMember
<1>3. Life' = [s \in Session |-> IF s \in S THEN "open" ELSE Life[s]]
  <2>1. ASSUME NEW s \in Session
        PROVE  Life'[s] = IF s \in S THEN "open" ELSE Life[s]
    BY <1>2 DEF Life
  <2>2. Life' = [s \in Session |-> Life'[s]]
    BY DEF Life
  <2> QED
    BY <2>1, <2>2
<1> QED
  BY <1>1, <1>3, ConnsKept DEF Step, Contract!Next, Contract!Open

\* The sessions S leave the registry: what the contract sees of it.
LEMMA LifeClosed ==
  ASSUME IInv, NEW S \in SUBSET registry, registry' = registry \ S, owner' = owner
  PROVE  Life' = [s \in Session |-> IF s \in S THEN "closed" ELSE Life[s]]
<1>1. \A s \in S : owner[s] # None
  BY DEF IInv, Routing, NamesCreated, Created
<1>2. ASSUME NEW s \in Session
      PROVE  Life'[s] = IF s \in S THEN "closed" ELSE Life[s]
  BY <1>1 DEF Life
<1>3. Life' = [s \in Session |-> Life'[s]]
  BY DEF Life
<1> QED
  BY <1>2, <1>3

\* Sessions leave the registry, with their keys.
LEMMA CloseSteps ==
  ASSUME IInv, NEW S \in SUBSET registry,
         registry' = registry \ S, owner' = owner,
         keys' = [s \in Session |-> IF s \in S THEN {} ELSE keys[s]],
         UNCHANGED <<Entered, ran, Admitted, Forwarded>>
  PROVE  Step
<1>1. S \in SUBSET Session /\ \A s \in S : Life[s] = "open"
  BY RegistryIsOpen
<1> QED
  BY <1>1, LifeClosed DEF Step, Contract!Next, Contract!Close

\* A session that is not in the registry has no key to revoke.
LEMMA Forgets ==
  ASSUME IInv, NEW S, keys' = [s \in Session |-> IF s \in S THEN {} ELSE keys[s]]
  PROVE  keys' = [s \in Session |-> IF s \in S \cap registry THEN {} ELSE keys[s]]
BY DEF IInv, RemovedHasNoKeys

-----------------------------------------------------------------------------
LEMMA ToolSteps == ASSUME IInv, Open \/ Use \/ Close PROVE Step
<1> USE DEF conns, calls, objects
<1>0. TypeOK
  BY DEF IInv
<1>1. ASSUME NEW u \in User, NEW s \in Session, NEW k \in Session, NEW p \in Port,
             NEW q \in Port, NEW answer \in Answer, OpenBoardSession(u, s, k, p, q, answer)
      PROVE  Step
  <2>1. Entered' = Entered
    BY <1>1 DEF OpenBoardSession, Entered
  <2> QED
    BY <1>1, <2>1, OpenSteps DEF OpenBoardSession
<1>2. ASSUME NEW u \in User, NEW s \in Session, NEW p \in Port, OpenConsoleSession(u, s, p)
      PROVE  Step
  <2>1. {s} \subseteq Unused /\ registry' = registry \cup {s}
    BY <1>2 DEF OpenConsoleSession
  <2>2. owner' = [x \in Session |-> IF x \in {s} THEN u ELSE owner[x]]
    BY <1>2 DEF OpenConsoleSession, IInv, TypeOK
  <2>3. UNCHANGED <<keys, Entered, ran, cses, crole, reached>>
    BY <1>2 DEF OpenConsoleSession, Entered
  <2> QED
    BY <2>1, <2>2, <2>3, OpenSteps
<1>3. ASSUME NEW c \in Call, NEW u \in User, NEW s \in Session, AttachShell(c, u, s)
      PROVE  Step
  <2>1. Life[s] = "open" /\ Life' = Life /\ Admitted' = Admitted /\ Forwarded' = Forwarded
    BY <1>3, RegistryIsOpen, LifeKept, ConnsKept DEF AttachShell, Owned
  <2>2. Entered' = Entered /\ ran' = ran
    BY <1>0, <1>3, BeginKeeps DEF AttachShell
  <2>3. keys' = [keys EXCEPT ![s] = @ \cup {c}]
    BY <1>3 DEF AttachShell
  <2> QED
    BY <2>1, <2>2, <2>3 DEF Step, Contract!Next, Contract!Grant
<1>4. ASSUME NEW c \in Call, NEW u \in User, NEW s \in Session,
             RunInSession(c, u, s) \/ CloseBoardSession(c, u, s) \/ CheckConsoleReady(c, s)
               \/ \E j \in BOOLEAN : AttachConsole(c, u, s, j)
      PROVE  Step
  <2>1. Entered' = Entered /\ ran' = ran
    BY <1>0, <1>4, BeginKeeps
    DEF RunInSession, CloseBoardSession, CheckConsoleReady, AttachConsole
  <2> QED
    BY <1>4, <2>1, Stutters DEF RunInSession, CloseBoardSession, CheckConsoleReady, AttachConsole
<1>5. ASSUME NEW u \in User, NEW s \in Session, CloseConsoleSession(u, s) PROVE Step
  <2>1. {s} \in SUBSET registry /\ registry' = registry \ {s} /\ owner' = owner /\ ran' = ran
    BY <1>5 DEF CloseConsoleSession, Owned
  <2>2. keys' = [x \in Session |-> IF x \in {s} THEN {} ELSE keys[x]]
    BY <1>5 DEF CloseConsoleSession, IInv, TypeOK
  <2>3. Admitted' = Admitted /\ Forwarded' = Forwarded /\ Entered' = Entered
    BY <1>5, ConnsKept DEF CloseConsoleSession, Entered
  <2> QED
    BY <2>1, <2>2, <2>3, CloseSteps
<1> QED
  BY <1>1, <1>2, <1>3, <1>4, <1>5 DEF Open, Use, Close

LEMMA ReturnSteps == ASSUME IInv, NEW c \in Call, ToolReturn(c) PROVE Step
<1> USE DEF conns, objects
<1>0. TypeOK /\ Looked
  BY DEF IInv
<1>1. ASSUME GatewayCheck(c) PROVE Step
  <2>1. UNCHANGED <<registry, owner, keys, ran, cses, crole, reached>>
    BY <1>1 DEF GatewayCheck, Return
  <2>2. CASE Return(c, "error")
    BY <1>0, <1>1, <2>1, <2>2, ReturnKeeps, Stutters DEF GatewayCheck, Awaiting
  <2>3. CASE Runnable(tses[c]) /\ Return(c, "connecting")
    <3>1. tses[c] \in Session /\ Life[tses[c]] = "open"
      BY <2>3, RegistryIsOpen DEF Runnable
    <3>2. Entered' = [Entered EXCEPT ![c] = tses[c]]
      BY <1>0, <2>3 DEF Return, Entered, TypeOK
    <3> QED
      BY <2>1, <3>1, <3>2, LifeKept, ConnsKept DEF Step, Contract!Next, Contract!Enter
  <2> QED
    BY <1>1, <2>2, <2>3 DEF GatewayCheck
<1>2. ASSUME GatewayConnect(c) PROVE Step
  <2>1. UNCHANGED <<registry, owner, keys, ran, cses, crole, reached>>
    BY <1>2 DEF GatewayConnect, Return
  <2>2. CASE Return(c, "inside")
    <3>1. Entered' = Entered
      BY <1>0, <1>2, <2>2 DEF GatewayConnect, Return, Entered, TypeOK
    <3> QED
      BY <2>1, <3>1, Stutters
  <2>3. CASE Return(c, "error")
    <3>1. Entered' = [d \in Call |-> IF d \in {c} THEN None ELSE Entered[d]]
      BY <1>0, <2>3 DEF Return, Entered, TypeOK
    <3> QED
      BY <2>1, <3>1, LeaveSteps
  <2> QED
    BY <1>2, <2>2, <2>3 DEF GatewayConnect
<1>3. ASSUME GatewayStart(c) PROVE Step
  <2>1. UNCHANGED <<registry, owner, keys, cses, crole, reached>>
    BY <1>3 DEF GatewayStart
  <2>2. Entered' = [Entered EXCEPT ![c] = None]
    BY <1>0, <1>3 DEF GatewayStart, Entered, TypeOK
  <2>3. CASE ran' = ran
    <3>1. Entered' = [d \in Call |-> IF d \in {c} THEN None ELSE Entered[d]]
      BY <2>2 DEF Entered
    <3> QED
      BY <2>1, <2>3, <3>1, LeaveSteps
  <2>4. CASE ran' = [ran EXCEPT ![c] = tses[c]]
    <3>1. Entered[c] = tses[c] /\ tses[c] \in Session
      BY <1>0, <1>3 DEF GatewayStart, Entered, Looked, Pending
    <3>2. Entered[c] # None
      BY <3>1, NoneIsNoMember
    <3> QED
      BY <2>1, <2>2, <2>4, <3>1, <3>2, LifeKept, ConnsKept DEF Step, Contract!Next, Contract!Start
  <2> QED
    BY <1>3, <2>3, <2>4 DEF GatewayStart
<1>4. ASSUME AttachConsoleReturns(c) PROVE Step
  <2>1. Life' = Life /\ Admitted' = Admitted /\ Forwarded' = Forwarded
    BY <1>4, LifeKept, ConnsKept DEF AttachConsoleReturns, Return
  <2>2. Entered' = Entered /\ ran' = ran
    BY <1>0, <1>4, ReturnKeeps DEF AttachConsoleReturns, Awaiting
  <2>3. CASE keys' = keys
    BY <2>1, <2>2, <2>3 DEF Step
  <2>4. CASE keys' # keys
    <3> DEFINE s == tses[c]
    <3>1. s \in registry /\ keys' = [keys EXCEPT ![s] = @ \cup {c}]
      BY <1>4, <2>4 DEF AttachConsoleReturns, Attachable
    <3>2. s \in Session /\ Life[s] = "open"
      BY <3>1, RegistryIsOpen
    <3> QED
      BY <2>1, <2>2, <3>1, <3>2 DEF Step, Contract!Next, Contract!Grant
  <2> QED
    BY <2>3, <2>4
<1>5. ASSUME CheckReturns(c) PROVE Step
  <2>1. Entered' = Entered /\ ran' = ran
    BY <1>0, <1>5, ReturnKeeps DEF CheckReturns, Awaiting
  <2> QED
    BY <1>5, <2>1, Stutters DEF CheckReturns
<1>6. ASSUME NEW answer \in Answer \ {"no_id"}, CloseReturns(c, answer) PROVE Step
  <2> DEFINE S == Dropped(tses[c])
  <2>1. /\ registry' = registry \ S /\ owner' = owner
        /\ keys' = [x \in Session |-> IF x \in S THEN {} ELSE keys[x]]
    BY <1>6 DEF CloseReturns
  <2>2. registry' = registry \ (S \cap registry) /\ S \cap registry \in SUBSET registry
    BY <2>1
  <2>3. keys' = [x \in Session |-> IF x \in S \cap registry THEN {} ELSE keys[x]]
    BY <2>1, Forgets
  <2>4. Admitted' = Admitted /\ Forwarded' = Forwarded
    BY <1>6, ConnsKept DEF CloseReturns
  <2>5. \E pc \in {"done", "error"} : tpc[c] = "awaiting" /\ Return(c, pc)
    BY <1>6 DEF CloseReturns, Awaiting
  <2>6. Entered' = Entered /\ ran' = ran
    BY <1>0, <2>5, ReturnKeeps
  <2> QED
    BY <2>1, <2>2, <2>3, <2>4, <2>6, CloseSteps
<1> QED
  BY <1>1, <1>2, <1>3, <1>4, <1>5, <1>6 DEF ToolReturn

LEMMA GatewaySteps == ASSUME IInv, Gateway PROVE Step
<1> USE DEF conns, calls, objects
<1>1. ASSUME NEW k \in Conn, NEW s \in Session, AgentAuth(k, s) PROVE Step
  <2>1. Admitted[k] = None
    BY <1>1 DEF AgentAuth, IInv, Routing, Undialled, Admitted
  <2>2. Admitted' = Admitted
    <3>1. ASSUME NEW x \in Conn PROVE Admitted'[x] = Admitted[x]
      BY <1>1, <2>1 DEF AgentAuth, Admitted, IInv, TypeOK
    <3>2. Admitted = [x \in Conn |-> Admitted[x]] /\ Admitted' = [x \in Conn |-> Admitted'[x]]
      BY DEF Admitted
    <3> QED
      BY <3>1, <3>2
  <2>3. Forwarded' = Forwarded /\ Entered' = Entered
    BY <1>1 DEF AgentAuth, Forwarded, Entered
  <2> QED
    BY <1>1, <2>2, <2>3, LifeKept DEF AgentAuth, Step
<1>2. ASSUME NEW k \in Conn, NEW s \in Session, NEW c \in Call, HumanAuth(k, s, c) PROVE Step
  <2>1. Life[s] = "open" /\ Life' = Life /\ keys' = keys /\ ran' = ran /\ c \in keys[s]
    BY <1>2, RegistryIsOpen, LifeKept DEF HumanAuth
  <2>2. Admitted' = [Admitted EXCEPT ![k] = s]
    <3>1. ASSUME NEW x \in Conn PROVE Admitted'[x] = IF x = k THEN s ELSE Admitted[x]
      BY <1>2 DEF HumanAuth, Admitted, IInv, TypeOK
    <3>2. Admitted' = [x \in Conn |-> Admitted'[x]]
      BY DEF Admitted
    <3> QED
      BY <3>1, <3>2 DEF Admitted
  <2>3. Forwarded' = Forwarded /\ Entered' = Entered
    BY <1>2 DEF HumanAuth, Forwarded, Entered
  <2> QED
    BY <2>1, <2>2, <2>3 DEF Step, Contract!Next, Contract!Admit
<1>3. ASSUME NEW k \in Conn, NEW p \in Port, ServerRequested(k, p) \/ Bind(k, p) PROVE Step
  <2>1. Entered' = Entered
    BY <1>3 DEF ServerRequested, Bind, Entered
  <2> QED
    BY <1>3, <2>1, Stutters DEF ServerRequested, Bind
<1>4. ASSUME NEW k \in Conn, NEW p \in Port, ConnectionRequested(k, p) PROVE Step
  <2>1. Admitted[k] # None
    BY <1>4, NoneIsNoMember
    DEF ConnectionRequested, Admitted, IInv, Routing, NamesCreated, Created
  <2>2. Forwarded' = Forwarded \cup {k}
    BY <1>4 DEF ConnectionRequested, Forwarded, IInv, TypeOK
  <2>3. Life' = Life /\ Admitted' = Admitted /\ Entered' = Entered /\ keys' = keys /\ ran' = ran
    BY <1>4 DEF ConnectionRequested, Life, Admitted, Entered
  <2> QED
    BY <2>1, <2>2, <2>3 DEF Step, Contract!Next, Contract!Forward
<1>5. ASSUME NEW k \in Conn, Disconnect(k) PROVE Step
  <2>1. Entered' = [c \in Call |-> IF c \in Riding(k) THEN None ELSE Entered[c]]
    BY <1>5 DEF Disconnect, Entered
  <2>2. Riding(k) \in SUBSET Call
    BY DEF Riding
  <2> QED
    BY <1>5, <2>1, <2>2, LeaveSteps DEF Disconnect
<1> QED
  BY <1>1, <1>2, <1>3, <1>4, <1>5 DEF Gateway

LEMMA OutsideSteps == ASSUME IInv, Outside \/ Restart PROVE Step
<1> USE DEF conns, calls, objects
<1>1. ASSUME NEW s \in Session, JobStarts(s) \/ JobEnds(s) PROVE Step
  <2>1. Entered' = Entered
    BY <1>1 DEF JobStarts, JobEnds, Entered
  <2> QED
    BY <1>1, <2>1, Stutters DEF JobStarts, JobEnds
<1>2. ASSUME NEW s \in Session, NEW c \in Call, KeyExpires(s, c) PROVE Step
  <2>1. Entered' = Entered
    BY <1>2 DEF KeyExpires, Entered
  <2> QED
    BY <1>2, <2>1, LifeKept, ConnsKept DEF KeyExpires, Step, Contract!Next, Contract!Revoke
<1>3. ASSUME Restart PROVE Step
  <2>1. Life' = [s \in Session |-> IF Life[s] = "open" THEN "closed" ELSE Life[s]]
    BY <1>3 DEF Restart, Life
  <2>2. keys' = [s \in Session |-> {}]
    BY <1>3 DEF Restart
  <2>3. Entered' = [c \in Call |-> None]
    BY <1>3 DEF Restart, Entered, Pending
  <2> QED
    BY <1>3, <2>1, <2>2, <2>3, ConnsKept DEF Restart, Step, Contract!Next, Contract!Forget
<1> QED
  BY <1>1, <1>2, <1>3 DEF Outside

LEMMA ContractStep == ASSUME IInv, [Next]_vars PROVE Step
<1>1. CASE UNCHANGED vars
  BY <1>1, Stutters DEF vars, objects, conns, calls, Entered
<1> QED
  BY <1>1, ToolSteps, ReturnSteps, GatewaySteps, OutsideSteps DEF Next

\* The sessions implement the contract about access.
THEOREM SessionsImplementContract == Spec => AccessContract
<1>1. Init => Contract!Init
  BY DEF Init, Contract!Init, Life, Admitted, Entered, Forwarded
<1>2. IInv /\ [Next]_vars => [Contract!Next]_<<Life, keys, Entered, ran, Admitted, Forwarded>>
  BY ContractStep DEF Step
<1> QED
  BY <1>1, <1>2, SessionInvariant, PTL DEF Spec, AccessContract, Contract!Spec, Contract!vars

\* In a session that was closed no key is authorised any more and no call passes
\* the check of Gateway._run; a command starts there only in a call that passed
\* it before the close.
THEOREM ClosedSessionEntersNobody == Spec => NoEntryAfterClose
<1> DEFINE Closed(s) == /\ keys'[s] \subseteq keys[s]
                        /\ \A c \in Call : /\ Entered'[c] = s => Entered[c] = s
                                           /\ ran'[c] = s => s \in {ran[c], Entered[c]}
<1>1. ASSUME IInv, [Next]_vars, NEW s \in Session \ registry PROVE Closed(s)
  <2>1. Life[s] # "open" /\ s # None
    BY <1>1, NoneIsNoMember DEF Life
  <2>2. /\ DOMAIN keys = Session /\ keys = [x \in Session |-> keys[x]]
        /\ ran = [c \in Call |-> ran[c]] /\ Entered = [c \in Call |-> Entered[c]]
    BY <1>1 DEF IInv, TypeOK, Entered
  <2>3. CASE UNCHANGED <<Life, keys, Entered, ran, Admitted, Forwarded>>
    BY <2>3
  <2>4. CASE \E S \in SUBSET Session : Contract!Open(S) \/ Contract!Close(S)
    BY <2>4 DEF Contract!Open, Contract!Close
  <2>5. ASSUME NEW x \in Session, NEW c \in Call,
               \/ Contract!Grant(x, c) \/ Contract!Revoke(x, c) \/ Contract!Enter(x, c)
               \/ \E k \in Conn : Contract!Admit(x, c, k)
        PROVE  Closed(s)
    BY <2>1, <2>2, <2>5
    DEF Contract!Grant, Contract!Revoke, Contract!Enter, Contract!Admit
  <2>6. ASSUME NEW c \in Call, Contract!Start(c) PROVE Closed(s)
    BY <2>1, <2>2, <2>6 DEF Contract!Start
  <2>7. CASE \E C \in SUBSET Call : Contract!Leave(C)
    BY <2>1, <2>7 DEF Contract!Leave
  <2>8. CASE (\E k \in Conn : Contract!Forward(k)) \/ Contract!Forget
    BY <2>1, <2>8 DEF Contract!Forward, Contract!Forget
  <2> QED
    BY <1>1, ContractStep, <2>3, <2>4, <2>5, <2>6, <2>7, <2>8 DEF Step, Contract!Next
<1>2. IInv /\ [Next]_vars => [\A s \in Session \ registry : Closed(s)]_vars
  BY <1>1
<1> QED
  BY <1>2, SessionInvariant, PTL DEF Spec, NoEntryAfterClose
=============================================================================
