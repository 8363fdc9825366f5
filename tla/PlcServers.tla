----------------------------- MODULE PlcServers -----------------------------
(***************************************************************************)
(* The Modbus server of the PLC runtime (server.cpp), with the interactive *)
(* server that starts and stops it (interactive_server.cpp) and the scan   *)
(* cycle and shutdown of main (main.cpp).                                  *)
(*                                                                         *)
(* startServer accepts clients and creates one handler thread for each; a  *)
(* handler finds its descriptor in an array on the stack of startServer.   *)
(* Handlers are detached: nobody waits for them.  The EtherNet/IP server   *)
(* runs the same code with a flag of its own.                              *)
(***************************************************************************)
EXTENDS Naturals, FiniteSets, FiniteSetsExt

CONSTANTS Clients,
          Kind,          \* what a client asks for: "read", or "coil" to switch it on
          Fds,           \* numbers of descriptors, given out lowest first
          Handlers,      \* numbers of the handler threads that can be created
          Null,
          MaxRequests,   \* bound on the requests of each client
          MaxCommands    \* bound on start_modbus(), stop_modbus() and quit()

ASSUME NumbersAssumption == Fds \subseteq Nat \ {0} /\ Handlers \subseteq Nat
ASSUME KindAssumption == Kind \in [Clients -> {"read", "coil"}]
ASSUME NullAssumption == Null \notin Clients
ASSUME BoundsAssumption == {MaxRequests, MaxCommands} \subseteq Nat

VARIABLES
  run_modbus, run_openplc,
  acceptor,         \* control point of startServer
  client_fd,        \* its variable; 0 stands for accept's -1
  arguments,        \* its array on the stack, left behind when it ends
  table,            \* open descriptors: the client each leads to
  pc, fd,           \* handlers: control point, client_fd
  file,             \* the client whose socket a handler's read() waits on
  req,              \* the client whose request it answers
  MessageLength,    \* the global variable of modbus.cpp: the kind it fits
  state, inbox,     \* clients, and whether a request of theirs was not read yet
  waiting,          \* clients that have sent a request and not got an answer
  asked,            \* requests of each client so far
  commander, next,  \* interactive server: control point, and what follows the join
  commands,
  mainPc, coil,     \* main, and *bool_output[0][0]
  mixed             \* history: a handler may have the wrong descriptor

accVars     == <<acceptor, client_fd, arguments>>
handlerVars == <<pc, fd, file, req>>
clientVars  == <<state, inbox, waiting, asked>>
commandVars == <<run_modbus, run_openplc, commander, next, commands>>
mainVars    == <<mainPc, coil>>
vars == <<accVars, table, handlerVars, MessageLength, clientVars, commandVars, mainVars,
          mixed>>

Free == {f \in Fds : table[f] = Null}
Open(f) == f \in Fds /\ table[f] # Null
CloseFd(f) == IF f \in Fds THEN [table EXCEPT ![f] = Null] ELSE table

\* The runtime is in its scan cycle, and start_modbus() has been carried out.
Init ==
  /\ run_modbus = TRUE /\ run_openplc = TRUE
  /\ acceptor = "accept" /\ client_fd = 0 /\ arguments = 0
  /\ table = [f \in Fds |-> Null]
  /\ pc = [h \in Handlers |-> "none"] /\ fd = [h \in Handlers |-> 0]
  /\ file = [h \in Handlers |-> Null] /\ req = [h \in Handlers |-> Null]
  /\ MessageLength = "none"
  /\ state = [c \in Clients |-> "away"] /\ inbox = [c \in Clients |-> FALSE]
  /\ waiting = [c \in Clients |-> FALSE] /\ asked = [c \in Clients |-> 0]
  /\ commander = "idle" /\ next = "idle" /\ commands = 0
  /\ mainPc = "scan" /\ coil = 1
  /\ mixed = FALSE

Alive == mainPc \notin {"exited", "crashed"}

(***************************************************************************)
(* startServer, waitForClient.                                             *)
(***************************************************************************)
\* A client connects, and accept succeeds with the lowest descriptor that is free.
Accept(c) ==
  /\ acceptor = "accept" /\ run_modbus
  /\ state[c] = "away" /\ Free # {}
  /\ state' = [state EXCEPT ![c] = "connected"]
  /\ client_fd' = Min(Free)
  /\ table' = [table EXCEPT ![Min(Free)] = c]
  /\ acceptor' = "create"
  /\ UNCHANGED <<arguments, handlerVars, MessageLength, inbox, waiting, asked,
                 commandVars, mainVars, mixed>>

\* Mutant: accept blocks until a first client connects.
AcceptorGivesUp_Blocks ==
  /\ acceptor = "accept" /\ ~run_modbus /\ client_fd # 0
  /\ client_fd' = 0 /\ acceptor' = "close"
  /\ UNCHANGED <<arguments, table, handlerVars, MessageLength, clientVars, commandVars,
                 mainVars, mixed>>

\* What an uninitialised variable on the stack may hold, before the first client.
Garbage == IF arguments = 0 THEN Fds \union {0} ELSE {}

\* The flag is cleared: waitForClient returns accept's -1 or, if it has not called
\* accept at all, what its last call has left on the stack.  If startServer has not even
\* entered its loop, it goes on to close the client_fd it never set.
AcceptorGivesUp ==
  /\ acceptor = "accept" /\ ~run_modbus
  /\ \/ \E f \in {0, client_fd} \union Garbage :
          /\ client_fd' = f
          /\ acceptor' = IF f = 0 THEN "close" ELSE "create"
          /\ mixed' = (mixed \/ f # 0)
     \/ client_fd' \in Garbage /\ acceptor' = "close" /\ UNCHANGED mixed
  /\ UNCHANGED <<arguments, table, handlerVars, MessageLength, clientVars, commandVars,
                 mainVars>>

Unused == {h \in Handlers : pc[h] = "none"}
Created == IF Unused = {} THEN pc ELSE [pc EXCEPT ![Min(Unused)] = "start"]

\* Mutant: the array of a handler that has not started yet is overwritten, and the
\* accepted socket is closed at once.
CreateHandler_Closes ==
  /\ acceptor = "create" /\ acceptor' = IF run_modbus THEN "accept" ELSE "close"
  /\ arguments' = client_fd
  /\ table' = CloseFd(client_fd)
  /\ pc' = Created
  /\ mixed' = (mixed \/ pc' = pc \/ \E h \in Handlers : pc[h] = "start")
  /\ UNCHANGED <<client_fd, fd, file, req, MessageLength, clientVars, commandVars,
                 mainVars>>

\* pthread_create, which may fail, and the loop condition; a handler that has not
\* started yet loses its descriptor.
CreateHandler ==
  /\ acceptor = "create" /\ acceptor' = IF run_modbus THEN "accept" ELSE "close"
  /\ arguments' = client_fd
  /\ pc' = Created
  /\ mixed' = (mixed \/ pc' = pc \/ \E h \in Handlers : pc[h] = "start")
  /\ UNCHANGED <<client_fd, table, fd, file, req, MessageLength, clientVars,
                 commandVars, mainVars>>

\* The end of startServer closes the descriptor of the last client as well; a
\* handler that has not started yet finds what becomes of its stack.
AcceptorCloses ==
  /\ acceptor = "close" /\ acceptor' = "ended"
  /\ table' = CloseFd(client_fd)
  /\ mixed' = (mixed \/ Open(client_fd) \/ \E h \in Handlers : pc[h] = "start")
  /\ UNCHANGED <<client_fd, arguments, handlerVars, MessageLength, clientVars,
                 commandVars, mainVars>>

Acceptor == \/ (\E c \in Clients : Accept(c)) \/ AcceptorGivesUp
            \/ CreateHandler \/ AcceptorCloses

(***************************************************************************)
(* handleConnections.                                                      *)
(***************************************************************************)
Begin(h) ==
  /\ pc[h] = "start" /\ pc' = [pc EXCEPT ![h] = "top"]
  /\ fd' = [fd EXCEPT ![h] = arguments]
  /\ UNCHANGED <<accVars, table, file, req, MessageLength, clientVars, commandVars,
                 mainVars, mixed>>

\* The loop condition, and read(), which waits on the socket even when its
\* descriptor is closed meanwhile.
Top(h) ==
  /\ pc[h] = "top"
  /\ IF run_modbus /\ Open(fd[h])
       THEN /\ pc' = [pc EXCEPT ![h] = "read"]
            /\ file' = [file EXCEPT ![h] = table[fd[h]]]
       ELSE pc' = [pc EXCEPT ![h] = "close"] /\ UNCHANGED file
  /\ UNCHANGED <<accVars, table, fd, req, MessageLength, clientVars, commandVars,
                 mainVars, mixed>>

\* read() returns a request, and processModbusMessage clears MessageLength.
Read(h) ==
  /\ pc[h] = "read" /\ inbox[file[h]]
  /\ inbox' = [inbox EXCEPT ![file[h]] = FALSE]
  /\ req' = [req EXCEPT ![h] = file[h]]
  /\ MessageLength' = "none"
  /\ pc' = [pc EXCEPT ![h] = "handle"]
  /\ UNCHANGED <<accVars, table, fd, file, state, waiting, asked, commandVars, mainVars,
                 mixed>>

\* The client has closed the connection.
ReadEnds(h) ==
  /\ pc[h] = "read" /\ ~inbox[file[h]] /\ state[file[h]] = "gone"
  /\ pc' = [pc EXCEPT ![h] = "close"]
  /\ UNCHANGED <<accVars, table, fd, file, req, MessageLength, clientVars, commandVars,
                 mainVars, mixed>>

\* The request is carried out under bufferLock, between two scans or after the last;
\* then MessageLength is set.
Handle(h) ==
  /\ pc[h] = "handle"
  /\ coil' = IF Kind[req[h]] = "coil" THEN 1 ELSE coil
  /\ MessageLength' = Kind[req[h]]
  /\ pc' = [pc EXCEPT ![h] = "return"]
  /\ UNCHANGED <<accVars, table, fd, file, req, clientVars, commandVars, mainPc, mixed>>

Target(h) == IF Open(fd[h]) THEN table[fd[h]] ELSE Null

\* The answer goes wherever the descriptor leads now, MessageLength bytes of it.
Respond(h) ==
  /\ pc[h] = "return" /\ pc' = [pc EXCEPT ![h] = "top"]
  /\ waiting' = IF Target(h) = req[h] THEN [waiting EXCEPT ![Target(h)] = FALSE]
                                           ELSE waiting
  /\ req' = [req EXCEPT ![h] = Null] /\ file' = [file EXCEPT ![h] = Null]
  /\ UNCHANGED <<accVars, table, fd, MessageLength, state, inbox, asked, commandVars,
                 mainVars, mixed>>

\* Mutant: the descriptor is not closed when the client has gone.
Close_Leaks(h) ==
  /\ pc[h] = "close" /\ pc' = [pc EXCEPT ![h] = "ended"]
  /\ fd' = [fd EXCEPT ![h] = 0] /\ file' = [file EXCEPT ![h] = Null]
  /\ UNCHANGED <<accVars, table, req, MessageLength, clientVars, commandVars,
                 mainVars, mixed>>

Close(h) ==
  /\ pc[h] = "close" /\ pc' = [pc EXCEPT ![h] = "ended"]
  /\ table' = CloseFd(fd[h])
  /\ fd' = [fd EXCEPT ![h] = 0] /\ file' = [file EXCEPT ![h] = Null]
  /\ UNCHANGED <<accVars, req, MessageLength, clientVars, commandVars, mainVars,
                 mixed>>

Handler(h) == Begin(h) \/ Top(h) \/ Read(h) \/ ReadEnds(h) \/ Handle(h) \/ Respond(h)
              \/ Close(h)

(***************************************************************************)
(* Clients.                                                                *)
(***************************************************************************)
Ask(c) ==
  /\ state[c] = "connected" /\ ~waiting[c] /\ asked[c] < MaxRequests
  /\ inbox' = [inbox EXCEPT ![c] = TRUE]
  /\ waiting' = [waiting EXCEPT ![c] = TRUE]
  /\ asked' = [asked EXCEPT ![c] = @ + 1]
  /\ UNCHANGED <<accVars, table, handlerVars, MessageLength, state, commandVars,
                 mainVars, mixed>>

Leave(c) ==
  /\ state[c] = "connected"
  /\ state' = [state EXCEPT ![c] = "gone"]
  /\ waiting' = [waiting EXCEPT ![c] = FALSE]
  /\ UNCHANGED <<accVars, table, handlerVars, MessageLength, inbox, asked,
                 commandVars, mainVars, mixed>>

(***************************************************************************)
(* processCommand, and the end of startInteractiveServer.                  *)
(***************************************************************************)
Command(then) ==
  /\ commander = "idle" /\ commands < MaxCommands
  /\ then = "idle" => run_modbus
  /\ run_modbus' = FALSE
  /\ commander' = IF run_modbus THEN "join" ELSE then
  /\ next' = then /\ commands' = commands + 1
  /\ UNCHANGED <<accVars, table, handlerVars, MessageLength, clientVars, run_openplc,
                 mainVars, mixed>>

Joined ==
  /\ commander = "join" /\ acceptor = "ended"
  /\ commander' = next
  /\ UNCHANGED <<accVars, table, handlerVars, MessageLength, clientVars, run_modbus,
                 run_openplc, next, commands, mainVars, mixed>>

StartModbus ==
  /\ commander = "start" /\ commander' = "idle"
  /\ run_modbus' = TRUE
  /\ acceptor' = "accept" /\ client_fd' = 0 /\ arguments' = 0
  /\ UNCHANGED <<table, handlerVars, MessageLength, clientVars, run_openplc, next, commands,
                 mainVars, mixed>>

\* pthread_join of dnp3_thread and enip_thread, never created, and of modbus_thread,
\* already joined: each returns an error or ends the process.
Quit ==
  /\ commander = "quit" /\ commander' = "ended" /\ run_openplc' = FALSE
  /\ mainPc' \in {mainPc, "crashed"}
  /\ UNCHANGED <<accVars, table, handlerVars, MessageLength, clientVars, run_modbus,
                 next, commands, coil, mixed>>

Commander == Joined \/ StartModbus \/ Quit

(***************************************************************************)
(* main.                                                                   *)
(***************************************************************************)
\* In each cycle the program switches its coil on (it is on already) and
\* updateBuffersOut sends packets; the loop ends when run_openplc is cleared.
ScansEnd ==
  /\ mainPc = "scan" /\ ~run_openplc /\ mainPc' = "join"
  /\ UNCHANGED <<accVars, table, handlerVars, MessageLength, clientVars, commandVars,
                 coil, mixed>>

\* Mutant: disableOutputs is forgotten.
DisableOutputs_Never ==
  /\ mainPc = "join" /\ commander = "ended" /\ mainPc' = "final"
  /\ UNCHANGED <<accVars, table, handlerVars, MessageLength, clientVars, commandVars,
                 coil, mixed>>

\* pthread_join(interactive_thread); disableOutputs, without bufferLock.
DisableOutputs ==
  /\ mainPc = "join" /\ commander = "ended" /\ mainPc' = "final"
  /\ coil' = 0
  /\ UNCHANGED <<accVars, table, handlerVars, MessageLength, clientVars, commandVars,
                 mixed>>

\* The last updateBuffersOut, which sends packets if the coil is on, and exit(0).
Exit ==
  /\ mainPc = "final" /\ mainPc' = "exited"
  /\ UNCHANGED <<accVars, table, handlerVars, MessageLength, clientVars, commandVars,
                 coil, mixed>>

Main == ScansEnd \/ DisableOutputs \/ Exit

Next ==
  /\ Alive
  /\ \/ Acceptor \/ (\E h \in Handlers : Handler(h)) \/ Commander \/ Main
     \/ \E c \in Clients : Ask(c) \/ Leave(c)
     \/ \E then \in {"start", "idle", "quit"} : Command(then)

\* Packets keep coming, threads run and get bufferLock in turn; clients and commands
\* owe nothing.
Fairness == /\ WF_vars(Alive /\ Acceptor) /\ WF_vars(Alive /\ Commander)
            /\ WF_vars(Alive /\ Main)
            /\ \A h \in Handlers : WF_vars(Alive /\ Handler(h))

Spec == Init /\ [][Next]_vars /\ Fairness

(***************************************************************************)
(* Properties                                                              *)
(***************************************************************************)
Serving == {"read", "handle", "return"}

TypeOK ==
  /\ run_modbus \in BOOLEAN /\ run_openplc \in BOOLEAN
  /\ acceptor \in {"accept", "create", "close", "ended"}
  /\ client_fd \in Fds \union {0} /\ arguments \in Fds \union {0}
  /\ table \in [Fds -> Clients \union {Null}]
  /\ pc \in [Handlers -> {"none", "start", "top", "read", "handle", "return", "close",
                          "ended"}]
  /\ fd \in [Handlers -> Fds \union {0}]
  /\ file \in [Handlers -> Clients \union {Null}]
  /\ req \in [Handlers -> Clients \union {Null}]
  /\ MessageLength \in {"none", "read", "coil"}
  /\ state \in [Clients -> {"away", "connected", "gone"}]
  /\ inbox \in [Clients -> BOOLEAN] /\ waiting \in [Clients -> BOOLEAN]
  /\ asked \in [Clients -> Nat]
  /\ commander \in {"idle", "join", "start", "quit", "ended"}
  /\ next \in {"idle", "start", "quit"} /\ commands \in Nat
  /\ mainPc \in {"scan", "join", "final", "exited", "crashed"}
  /\ coil \in {0, 1} /\ mixed \in BOOLEAN

Responds(h) == pc[h] = "return" /\ pc'[h] = "top"

\* "Thread to handle requests for each connected client" (server.cpp:196): an answer
\* goes to the client that has asked, as long as no handler has read the arguments of
\* another and the server has not closed a descriptor that was in use.  It only has
\* the wrong length (MessageLength is global) if another handler has been at work, be it
\* that it has ended since.
AnswersGoHome ==
  [][\A h \in Handlers : Responds(h) =>
       /\ ~mixed => Target(h) = req[h]
       /\ \/ MessageLength = Kind[req[h]]
          \/ \E g \in Handlers \ {h} : pc[g] \in Serving \union {"top", "close", "ended"}]_vars

\* The last packets carry a coil that is on only because a client has asked for it:
\* main waits for the servers, not for their handlers, whose writes may follow
\* disableOutputs.
OutputsEndDisabled ==
  mainPc = "exited" /\ coil = 1 => \E c \in Clients : Kind[c] = "coil" /\ asked[c] > 0

\* Every request is answered, or its connection closed, even across a stop and a
\* start of the server, if no handler got the wrong descriptor.
RequestsAreAnswered ==
  \A c \in Clients :
    waiting[c] ~> (~waiting[c] \/ mixed \/ ~Alive \/ \A f \in Fds : table[f] # c)

\* Every command comes to an end, and quit() ends the process.
CommandsEnd ==
  /\ (commander = "join") ~> (commander # "join")
  /\ (commander = "quit") ~> ~Alive

=============================================================================
