------------------------------- MODULE GwgdServer ------------------------------
(***************************************************************************)
(* server() of gwgd/app/basic/main.c: accepts clients and plays with them  *)
(* one by one (BLOCKING), each in a thread (THREAD) or each in a child     *)
(* process (FORKING).  The games themselves are those of GwgdGame; here    *)
(* only their ends matter, and what they keep (GameEnds).  Of the program  *)
(* gwgd/app/libevent (LIBEVENT) there is the start alone: its events are   *)
(* never added to the event base, and its callback is never called.        *)
(***************************************************************************)
EXTENDS Integers, FiniteSets, GameEnds

CONSTANTS
  Clients,   \* they may play at the same time, each of them once
  Modes,     \* the values of config.server_mode that are tried, and "LIBEVENT"
  Server,    \* the process that runs server()
  MaxFds,    \* the connections that a process may have open
  MaxTasks   \* the threads, or the processes, that there may be besides

ASSUME ServerAssumption ==
  /\ Modes \subseteq {"BLOCKING", "THREAD", "FORKING", "LIBEVENT"}
  /\ Server \notin Clients
  /\ MaxFds \in Nat \ {0} /\ MaxTasks \in Nat

\* The child process that plays with a client is named after the client.
Processes == {Server} \union Clients

VARIABLES
  mode,
  pc,         \* server(): "listen", "accept", "start" (a client is accepted), "parent" (it
              \* has forked), "playing" (BLOCKING), "gone" (the process has ended);
              \* for LIBEVENT "listen6" and "spin"
  current,    \* the client accepted last
  game,       \* of each client: "none", "playing" or "over"
  outcome,
  processes,  \* of each client, its child process: "none", "new", "running", "zombie"
  fds,        \* who has the connection with which client open
  listening,  \* who has sockfd open
  client      \* of each client: "away", "waiting", "connected", "closed", "refused"

vars == <<mode, pc, current, game, outcome, processes, fds, listening, client>>

Init ==
  /\ mode \in Modes
  /\ pc = "listen" /\ current = Server
  /\ game = [c \in Clients |-> "none"]
  /\ outcome = [c \in Clients |-> "none"]
  /\ processes = [c \in Clients |-> "none"]
  /\ fds = {} /\ listening = {}
  /\ client = [c \in Clients |-> "away"]

OpenBy(p) == {c \in Clients : <<p, c>> \in fds}
HoldersOf(c) == {p \in Processes : <<p, c>> \in fds}
FdsOf(p) == {p} \X Clients

\* The tasks that exist: a detached thread until its game is over, a child that
\* nobody waits for as long as its parent lives.
Tasks ==
  IF mode = "THREAD" THEN {c \in Clients : game[c] = "playing"}
  ELSE {c \in Clients : processes[c] # "none"}

\* A slip in server(): the parent plays, the child goes on as the server.
ParentPlays(c) == Server

\* The process that plays with c.
Player(c) == IF mode = "FORKING" THEN c ELSE Server

-----------------------------------------------------------------------------
(* server().                                                               *)

\* socket(), bind() and listen().
Listen ==
  /\ pc = "listen"
  /\ listening' = {Server}
  /\ pc' = IF mode = "LIBEVENT" THEN "listen6" ELSE "accept"
  /\ UNCHANGED <<mode, current, game, outcome, processes, fds, client>>

\* One of them fails: server() returns the code of an error and main() ends.
ListenFails ==
  /\ pc = "listen"
  /\ pc' = "gone"
  /\ UNCHANGED <<mode, current, game, outcome, processes, fds, listening, client>>

\* register_listening_sockets() goes on with a second socket, for AF_INET6, and
\* its main() waits for errno to change.
Listen6 ==
  /\ pc = "listen6"
  /\ pc' = "spin"
  /\ UNCHANGED <<mode, current, game, outcome, processes, fds, listening, client>>

Accept ==
  /\ pc = "accept"
  /\ Cardinality(OpenBy(Server)) < MaxFds
  /\ \E c \in Clients :
       /\ client[c] = "waiting"
       /\ client' = [client EXCEPT ![c] = "connected"]
       /\ fds' = fds \union {<<Server, c>>}
       /\ current' = c
  /\ pc' = "start"
  /\ UNCHANGED <<mode, game, outcome, processes, listening>>

\* accept() fails for want of descriptors, and is called again.
AcceptFails ==
  /\ pc = "accept"
  /\ Cardinality(OpenBy(Server)) >= MaxFds
  /\ UNCHANGED vars

PlayHere ==
  /\ pc = "start" /\ mode = "BLOCKING"
  /\ game' = [game EXCEPT ![current] = "playing"]
  /\ pc' = "playing"
  /\ UNCHANGED <<mode, current, outcome, processes, fds, listening, client>>

StartThread ==
  /\ pc = "start" /\ mode = "THREAD"
  /\ Cardinality(Tasks) < MaxTasks
  /\ game' = [game EXCEPT ![current] = "playing"]
  /\ pc' = "accept"
  /\ UNCHANGED <<mode, current, outcome, processes, fds, listening, client>>

\* A child has what its parent has open.
Fork ==
  /\ pc = "start" /\ mode = "FORKING"
  /\ Cardinality(Tasks) < MaxTasks
  /\ processes' = [processes EXCEPT ![current] = "new"]
  /\ fds' = fds \union ({current} \X OpenBy(Server))
  /\ listening' = listening \union {current}
  /\ pc' = "parent"
  /\ UNCHANGED <<mode, current, game, outcome, client>>

\* A slip in server(): the connection is left to the child, but not closed.
LeaveOpenInParent ==
  /\ pc = "parent"
  /\ pc' = "accept"
  /\ UNCHANGED <<mode, current, game, outcome, processes, fds, listening, client>>

CloseInParent ==
  /\ pc = "parent"
  /\ fds' = fds \ {<<Server, current>>}
  /\ pc' = "accept"
  /\ UNCHANGED <<mode, current, game, outcome, processes, listening, client>>

\* What ends with the process p: its games, its descriptors, and for the server
\* its dead children.
EndProcess(p) ==
  /\ fds' = fds \ FdsOf(p)
  /\ listening' = listening \ {p}
  /\ game' = [c \in Clients |-> IF game[c] = "playing" /\ Player(c) = p THEN "over" ELSE game[c]]
  /\ pc' = IF p = Server THEN "gone" ELSE pc
  /\ processes' = [c \in Clients |->
                     IF p = Server /\ processes[c] = "zombie" THEN "none"
                     ELSE IF c = p THEN IF pc = "gone" THEN "none" ELSE "zombie"
                     ELSE processes[c]]
  /\ UNCHANGED <<mode, current, outcome, client>>

\* The second socket fails, or errno was left set by an earlier call.
LibeventEnds ==
  /\ pc \in {"listen6", "spin"}
  /\ EndProcess(Server)

\* pthread_create() fails, or fork(): server() returns and main() ends.
StartFails ==
  /\ pc = "start" /\ mode # "BLOCKING"
  /\ Cardinality(Tasks) >= MaxTasks
  /\ EndProcess(Server)

-----------------------------------------------------------------------------
(* The games.                                                              *)

\* A slip in server(): the child keeps sockfd.
PlayListening(c) ==
  /\ processes[c] = "new"
  /\ processes' = [processes EXCEPT ![c] = "running"]
  /\ game' = [game EXCEPT ![c] = "playing"]
  /\ UNCHANGED <<mode, pc, current, outcome, fds, listening, client>>

\* A child closes sockfd and plays.
PlayInChild(c) ==
  /\ processes[c] = "new"
  /\ listening' = listening \ {c}
  /\ processes' = [processes EXCEPT ![c] = "running"]
  /\ game' = [game EXCEPT ![c] = "playing"]
  /\ UNCHANGED <<mode, pc, current, outcome, fds, client>>

\* A slip in server(): no exit() in the child.
GameOverReturns(c, how) ==
  /\ game[c] = "playing"
  /\ outcome' = [outcome EXCEPT ![c] = how]
  /\ game' = [game EXCEPT ![c] = "over"]
  /\ fds' = IF "connfd" \in Kept(how) THEN fds ELSE fds \ {<<Player(c), c>>}
  /\ pc' = IF mode = "BLOCKING" THEN "accept" ELSE pc
  /\ UNCHANGED <<mode, current, processes, listening, client>>

\* run_game() returns: in a child, exit() follows.
GameOver(c, how) ==
  /\ game[c] = "playing"
  /\ outcome' = [outcome EXCEPT ![c] = how]
  /\ game' = [game EXCEPT ![c] = "over"]
  /\ fds' = IF mode = "FORKING" THEN fds \ FdsOf(c)
            ELSE IF "connfd" \in Kept(how) THEN fds
            ELSE fds \ {<<Server, c>>}
  /\ processes' = IF mode # "FORKING" THEN processes
                  ELSE [processes EXCEPT ![c] = IF pc = "gone" THEN "none" ELSE "zombie"]
  /\ pc' = IF mode = "BLOCKING" THEN "accept" ELSE pc
  /\ UNCHANGED <<mode, current, listening, client>>

PlayerQuits(c) == client[c] = "connected" /\ GameOver(c, "quit")
PlayerDisconnects(c) == client[c] = "closed" /\ GameOver(c, "disconnect")
TextNotFetched(c) == GameOver(c, "fetch_failed")

\* SIGPIPE: the game writes to a connection that its client has closed.
Killed(c) ==
  /\ game[c] = "playing" /\ client[c] = "closed"
  /\ EndProcess(Player(c))

-----------------------------------------------------------------------------
(* The clients, and the kernel between.                                    *)

Connect(c) ==
  /\ client[c] = "away" /\ listening # {}
  /\ client' = [client EXCEPT ![c] = "waiting"]
  /\ UNCHANGED <<mode, pc, current, game, outcome, processes, fds, listening>>

Close(c) ==
  /\ client[c] = "connected"
  /\ client' = [client EXCEPT ![c] = "closed"]
  /\ UNCHANGED <<mode, pc, current, game, outcome, processes, fds, listening>>

\* Nobody will accept those who wait.
Refuse ==
  /\ listening = {}
  /\ \E c \in Clients : client[c] = "waiting"
  /\ client' = [c \in Clients |-> IF client[c] = "waiting" THEN "refused" ELSE client[c]]
  /\ UNCHANGED <<mode, pc, current, game, outcome, processes, fds, listening>>

server ==
  \/ Listen \/ ListenFails \/ Listen6
  \/ Accept \/ PlayHere \/ StartThread \/ Fork \/ CloseInParent \/ StartFails

run_game(c) == PlayerDisconnects(c) \/ Killed(c)

Next ==
  \/ server \/ AcceptFails \/ LibeventEnds \/ Refuse
  \/ \E c \in Clients :
       \/ PlayInChild(c) \/ PlayerQuits(c) \/ TextNotFetched(c) \/ run_game(c)
       \/ Connect(c) \/ Close(c)

Spec == Init /\ [][Next]_vars

\* The processes and the kernel go on.  Clients need not play on or leave.
FairSpec ==
  /\ Spec
  /\ WF_vars(server) /\ WF_vars(Refuse)
  /\ \A c \in Clients : WF_vars(PlayInChild(c)) /\ WF_vars(run_game(c))

-----------------------------------------------------------------------------
(* Properties.                                                             *)

TypeOK ==
  /\ mode \in Modes
  /\ pc \in {"listen", "listen6", "spin", "accept", "start", "parent", "playing", "gone"}
  /\ current \in Processes
  /\ game \in [Clients -> {"none", "playing", "over"}]
  /\ outcome \in [Clients -> Outcomes \union {"none"}]
  /\ processes \in [Clients -> {"none", "new", "running", "zombie"}]
  /\ fds \subseteq Processes \X Clients /\ listening \subseteq Processes
  /\ client \in [Clients -> {"away", "waiting", "connected", "closed", "refused"}]
  /\ mode # "FORKING" => fds \subseteq FdsOf(Server) /\ listening \subseteq {Server}
  /\ mode = "BLOCKING" => (pc = "playing" <=> \E c \in Clients : game[c] = "playing")
  /\ mode = "FORKING" => \A c \in Clients : processes[c] = "running" <=> game[c] = "playing"

\* A child has the connection with its own client and no other, and the server
\* none while it waits for clients: nobody but the process that plays with a
\* client keeps its connection open.
OneOwner ==
  mode = "FORKING" =>
    /\ \A c, d \in Clients : <<c, d>> \in fds => c = d
    /\ pc = "accept" => OpenBy(Server) = {}

\* The connection of a game that is over is closed, whichever of the server and
\* the child is the last to close it, unless the text of the game could not be
\* fetched in the process of the server.
ConnectionReleased ==
  \A c \in Clients :
    game[c] = "over" ~> (HoldersOf(c) = {} \/ (outcome[c] = "fetch_failed" /\ mode # "FORKING"))

\* Whatever becomes of the server and of the other clients, only its own client
\* and its own text end the game of a child.
ChildrenPlayOn ==
  [][\A c \in Clients :
       mode = "FORKING" /\ game[c] = "playing" /\ game'[c] = "over" =>
         client[c] = "closed" \/ outcome'[c] \in {"quit", "fetch_failed"}]_vars

\* Everybody who waits is accepted or told that the server is gone, however long
\* the others play; but in blocking mode a client that neither plays nor leaves
\* keeps all others waiting, and so do games that have left no descriptors.  The
\* libevent program never answers anybody unless it ends.
Stuck == pc \in {"playing", "spin"} \/ Cardinality(OpenBy(Server)) >= MaxFds
EveryoneAnswered ==
  \A c \in Clients : []<>~Stuck => (client[c] = "waiting" ~> client[c] # "waiting")

================================================================================
