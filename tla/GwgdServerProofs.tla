--------------------------- MODULE GwgdServerProofs ----------------------------
(* Proofs about GwgdServer for every set of clients, every mode and every  *)
(* limit on descriptors and on threads or processes.                       *)
EXTENDS GwgdServer, TLAPS

USE ServerAssumption DEF Processes, OpenBy, FdsOf, Player, Outcomes

-----------------------------------------------------------------------------
(* The inductive invariant.                                                *)

\* The client that server() is about to serve is one of those it accepted, and
\* has neither game nor process yet; nobody has before it is accepted.
FreshInv ==
  /\ pc \in {"start", "parent"} => current \in Clients
  /\ pc = "start" =>
       /\ client[current] \in {"connected", "closed"}
       /\ game[current] = "none" /\ processes[current] = "none"
  /\ \A c \in Clients : client[c] \in {"away", "waiting", "refused"} =>
       game[c] = "none" /\ processes[c] = "none"

\* What only one of the modes has: one game at a time that server() waits for,
\* or child processes.
ModeInv ==
  /\ mode = "BLOCKING" => \A c, d \in Clients :
       game[c] = "playing" /\ game[d] = "playing" => c = d
  /\ pc = "playing" => mode = "BLOCKING"
  /\ pc = "parent" => mode = "FORKING"
  /\ pc \in {"listen6", "spin"} => mode = "LIBEVENT"
  /\ mode # "FORKING" => \A c \in Clients : processes[c] = "none"

\* A server that forks has no connection open but the one it has just accepted,
\* which is why the child that it forks inherits no other.
OwnerInv ==
  mode = "FORKING" =>
    /\ \A c, d \in Clients : <<c, d>> \in fds => c = d
    /\ OpenBy(Server) \subseteq IF pc \in {"start", "parent"} THEN {current} ELSE {}

ServerInv == TypeOK /\ FreshInv /\ ModeInv /\ OwnerInv

\* The invariant holds initially.
LEMMA InitServerInv == Init => ServerInv
BY DEF Init, ServerInv, TypeOK, FreshInv, ModeInv, OwnerInv

\* A process that ends takes its descriptors and the games it plays with it, and
\* touches no other process that lives.
LEMMA EndProcessInv ==
  ASSUME ServerInv, NEW p \in Processes, EndProcess(p),
         p # Server => mode = "FORKING" /\ game[p] = "playing"
  PROVE  ServerInv'
<1> USE DEF EndProcess, ServerInv, TypeOK, FreshInv, ModeInv, OwnerInv
<1>1. TypeOK'
  OBVIOUS
<1>2. FreshInv'
  OBVIOUS
<1>3. ModeInv'
  OBVIOUS
<1>4. OwnerInv'
  OBVIOUS
<1> QED
  BY <1>1, <1>2, <1>3, <1>4

\* Every step keeps the invariant.
LEMMA NextServerInv == ServerInv /\ [Next]_vars => ServerInv'
<1> SUFFICES ASSUME ServerInv, [Next]_vars PROVE ServerInv'
  OBVIOUS
<1> USE DEF ServerInv, TypeOK, FreshInv, ModeInv, OwnerInv
<1>1. CASE Listen \/ ListenFails \/ Listen6
  BY <1>1 DEF Listen, ListenFails, Listen6
<1>2. CASE Accept
  BY <1>2 DEF Accept
<1>3. CASE PlayHere
  BY <1>3 DEF PlayHere
<1>4. CASE StartThread
  BY <1>4 DEF StartThread
<1>5. CASE Fork
  BY <1>5 DEF Fork
<1>6. CASE CloseInParent
  BY <1>6 DEF CloseInParent
<1>7. CASE StartFails \/ LibeventEnds
  BY <1>7, EndProcessInv DEF StartFails, LibeventEnds
<1>8. CASE AcceptFails \/ UNCHANGED vars
  BY <1>8 DEF AcceptFails, vars
<1>9. CASE Refuse
  BY <1>9 DEF Refuse
<1>10. ASSUME NEW c \in Clients, PlayInChild(c) PROVE ServerInv'
  BY <1>10 DEF PlayInChild
<1>11. ASSUME NEW c \in Clients, NEW how \in Outcomes, GameOver(c, how) PROVE ServerInv'
  BY <1>11 DEF GameOver
<1>12. ASSUME NEW c \in Clients, PlayerQuits(c) \/ PlayerDisconnects(c) \/ TextNotFetched(c)
       PROVE  ServerInv'
  BY <1>11, <1>12 DEF PlayerQuits, PlayerDisconnects, TextNotFetched
<1>13. ASSUME NEW c \in Clients, Killed(c) PROVE ServerInv'
  BY <1>13, EndProcessInv DEF Killed
<1>14. ASSUME NEW c \in Clients, Connect(c) \/ Close(c) PROVE ServerInv'
  BY <1>14 DEF Connect, Close
<1> QED
  BY <1>1, <1>2, <1>3, <1>4, <1>5, <1>6, <1>7, <1>8, <1>9, <1>10, <1>12, <1>13, <1>14
  DEF Next, server, run_game

\* The invariant always holds.
LEMMA ServerInvAlways == Spec => []ServerInv
BY InitServerInv, NextServerInv, PTL DEF Spec

-----------------------------------------------------------------------------
(* What follows from it.                                                   *)

\* Every variable always holds a value of its type; a server that plays itself
\* waits exactly while a game is played, and a child runs exactly while its is.
THEOREM TypeCorrect == Spec => []TypeOK
BY ServerInvAlways, PTL DEF ServerInv

\* In forking mode nobody but the process that plays with a client keeps its
\* connection open while the server waits for the next one.
THEOREM ConnectionsHaveOneOwner == Spec => []OneOwner
<1>1. ServerInv => OneOwner
  BY DEF ServerInv, OwnerInv, OneOwner
<1> QED
  BY <1>1, ServerInvAlways, PTL

\* Neither the end of the server nor that of another child ends a game in
\* forking mode: only its own client does, or its text.
THEOREM ChildrenAreIndependent == Spec => ChildrenPlayOn
<1>1. ServerInv /\ [Next]_vars =>
        [\A c \in Clients :
           mode = "FORKING" /\ game[c] = "playing" /\ game'[c] = "over" =>
             client[c] = "closed" \/ outcome'[c] \in {"quit", "fetch_failed"}]_vars
  <2> SUFFICES ASSUME ServerInv, Next, mode = "FORKING", NEW c \in Clients,
                      game[c] = "playing", game'[c] = "over"
               PROVE  client[c] = "closed" \/ outcome'[c] \in {"quit", "fetch_failed"}
    OBVIOUS
  <2> USE DEF ServerInv, TypeOK
  <2>1. ~StartFails /\ ~LibeventEnds
    BY DEF StartFails, LibeventEnds, EndProcess
  <2>2. ASSUME NEW d \in Clients, Killed(d)
        PROVE  client[c] = "closed"
    BY <2>2 DEF Killed, EndProcess
  <2>3. ASSUME NEW d \in Clients, PlayerQuits(d) \/ PlayerDisconnects(d) \/ TextNotFetched(d)
        PROVE  client[c] = "closed" \/ outcome'[c] \in {"quit", "fetch_failed"}
    BY <2>3 DEF PlayerQuits, PlayerDisconnects, TextNotFetched, GameOver
  <2>4. ~PlayHere /\ ~StartThread
    BY DEF PlayHere, StartThread, FreshInv
  <2>5. ASSUME NEW d \in Clients, PlayInChild(d)
        PROVE  FALSE
    BY <2>5 DEF PlayInChild
  <2> QED
    BY <2>1, <2>2, <2>3, <2>4, <2>5
    DEF Next, server, run_game, Listen, ListenFails, Listen6, Accept, Fork, CloseInParent,
        AcceptFails, Refuse, Connect, Close, vars
<1> QED
  BY <1>1, ServerInvAlways, PTL DEF Spec, ChildrenPlayOn

-----------------------------------------------------------------------------
(* The safety half of ConnectionReleased.                                  *)

\* Whoever played a game that is over has its connection no longer open, unless
\* the text of the game could not be fetched in the process of the server.
ClosedWhenOver ==
  \A c \in Clients : game[c] = "over" =>
    <<Player(c), c>> \notin fds \/ (outcome[c] = "fetch_failed" /\ mode # "FORKING")

\* The process that played a game does not keep its connection: what remains of
\* ConnectionReleased is that the server closes its own copy at last.
THEOREM PlayersCloseTheirConnections == Spec => []ClosedWhenOver
<1>1. Init => ClosedWhenOver
  BY DEF Init, ClosedWhenOver
<1>2. ServerInv /\ ClosedWhenOver /\ [Next]_vars => ClosedWhenOver'
  <2> SUFFICES ASSUME ServerInv, ClosedWhenOver, [Next]_vars PROVE ClosedWhenOver'
    OBVIOUS
  <2> USE DEF ServerInv, TypeOK, FreshInv, ModeInv, ClosedWhenOver
  <2>1. CASE Listen \/ ListenFails \/ Listen6 \/ Refuse \/ AcceptFails \/ UNCHANGED vars
    BY <2>1 DEF Listen, ListenFails, Listen6, Refuse, AcceptFails, vars
  <2>2. CASE Accept
    BY <2>2 DEF Accept
  <2>3. CASE PlayHere \/ StartThread
    BY <2>3 DEF PlayHere, StartThread
  <2>4. CASE Fork
    BY <2>4 DEF Fork
  <2>5. CASE CloseInParent
    BY <2>5 DEF CloseInParent
  <2>6. CASE StartFails \/ LibeventEnds
    BY <2>6 DEF StartFails, LibeventEnds, EndProcess
  <2>7. ASSUME NEW c \in Clients, PlayInChild(c) \/ Connect(c) \/ Close(c)
        PROVE  ClosedWhenOver'
    BY <2>7 DEF PlayInChild, Connect, Close
  <2>8. ASSUME NEW c \in Clients, NEW how \in Outcomes, GameOver(c, how)
        PROVE  ClosedWhenOver'
    BY <2>8 DEF GameOver, Kept
  <2>9. ASSUME NEW c \in Clients, Killed(c)
        PROVE  ClosedWhenOver'
    BY <2>9 DEF Killed, EndProcess
  <2>10. ASSUME NEW c \in Clients,
                PlayerQuits(c) \/ PlayerDisconnects(c) \/ TextNotFetched(c)
         PROVE  ClosedWhenOver'
    BY <2>8, <2>10 DEF PlayerQuits, PlayerDisconnects, TextNotFetched
  <2> QED
    BY <2>1, <2>2, <2>3, <2>4, <2>5, <2>6, <2>7, <2>9, <2>10 DEF Next, server, run_game
<1> QED
  BY <1>1, <1>2, ServerInvAlways, PTL DEF Spec

================================================================================
