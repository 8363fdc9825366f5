-------------------------- MODULE PlcServersProofs --------------------------
(***************************************************************************)
(* Proofs about PlcServers, for any clients, descriptors and handler       *)
(* threads and any number of requests and commands: the types, what the    *)
(* outputs can be when the process ends, and where answers go.             *)
(***************************************************************************)
EXTENDS PlcServers, WellFoundedInduction, TLAPS

Used == {"top", "read", "handle", "return", "close"}
Begun == Used \union {"ended"}

\* What a handler has read belongs to a client that has asked.
Asked ==
  /\ \A c \in Clients : inbox[c] => asked[c] > 0
  /\ \A h \in Handlers :
       /\ pc[h] = "read" => file[h] \in Clients
       /\ pc[h] \in {"handle", "return"} => req[h] \in Clients /\ asked[req[h]] > 0

SomeoneAsked == \E c \in Clients : Kind[c] = "coil" /\ asked[c] > 0

\* Once the outputs are disabled, only a request switches the coil on again.
Disabled == mainPc \in {"final", "exited"} /\ coil = 1 => SomeoneAsked

\* MessageLength fits the request that is answered, or another handler has begun.
Lengths ==
  \A h \in Handlers : pc[h] = "return" =>
    \/ MessageLength = Kind[req[h]]
    \/ \E g \in Handlers \ {h} : pc[g] \in Begun

\* startServer is only started again when it has ended.
Ended ==
  /\ commander \in {"start", "quit", "ended"} => acceptor = "ended" /\ ~run_modbus
  /\ ~run_modbus /\ commander = "idle" => acceptor = "ended"
  /\ commander = "join" => ~run_modbus

IInv == TypeOK /\ Asked /\ Disabled /\ Lengths /\ Ended

\* Unless descriptors were mixed up, each handler has the socket of its client.
Holds(h) ==
  /\ pc[h] \in Used => fd[h] \in Fds /\ table[fd[h]] # Null
  /\ pc[h] \in {"read", "handle", "return"} => file[h] = table[fd[h]]
  /\ pc[h] \in {"handle", "return"} => req[h] = file[h]
  /\ pc[h] = "start" => /\ arguments \in Fds /\ table[arguments] # Null
                        /\ acceptor # "ended"
                        /\ acceptor = "create" => client_fd # arguments

Apart(g, h) ==
  /\ pc[g] \in Used => /\ pc[h] \in Used => fd[g] # fd[h]
                       /\ pc[h] = "start" => fd[g] # arguments
  /\ pc[g] = "start" => pc[h] # "start"

Accepted ==
  acceptor = "create" => /\ client_fd \in Fds /\ table[client_fd] # Null
                         /\ \A h \in Handlers : pc[h] \in Used => fd[h] # client_fd

Own == ~mixed => /\ \A h \in Handlers : Holds(h)
                 /\ \A g, h \in Handlers : g # h => Apart(g, h)
                 /\ Accepted

-----------------------------------------------------------------------------
\* The lowest number of a set of numbers is one of them.
LEMMA MinIsMember ==
    ASSUME NEW S \in SUBSET Nat, S # {}
    PROVE  Min(S) \in S
<1>1. \E x \in S : \A y \in S : ~(<<y, x>> \in OpToRel(<, Nat))
  BY NatLessThanWellFounded, WFMin
<1>2. PICK x \in S : \A y \in S : ~(<<y, x>> \in OpToRel(<, Nat))
  BY <1>1
<1>3. ASSUME NEW y \in S
      PROVE  x =< y
  <2>1. x \in Nat /\ y \in Nat /\ <<y, x>> \in Nat \X Nat
    OBVIOUS
  <2>2. y < x => <<y, x>> \in OpToRel(<, Nat)
    BY <2>1 DEF OpToRel
  <2>3. ~(y < x)
    BY <1>2, <2>2, Zenon
  <2>4. QED
    BY <2>1, <2>3
<1>4. QED
  BY <1>3 DEF Min

LEMMA LowestFree == Free # {} => Min(Free) \in Fds /\ Min(Free) # 0 /\ table[Min(Free)] = Null
<1>1. Free \in SUBSET Nat
  BY NumbersAssumption DEF Free
<1>2. QED
  BY <1>1, MinIsMember, NumbersAssumption DEF Free

LEMMA LowestUnused == Unused # {} => Min(Unused) \in Handlers /\ pc[Min(Unused)] = "none"
<1>1. Unused \in SUBSET Nat
  BY NumbersAssumption DEF Unused
<1>2. QED
  BY <1>1, MinIsMember DEF Unused

LEMMA CreatedStarts ==
    ASSUME TypeOK
    PROVE  \/ Created = pc
           \/ \E n \in Handlers : pc[n] = "none" /\ Created = [pc EXCEPT ![n] = "start"]
  BY LowestUnused DEF Created

LEMMA KindIsKnown == \A c \in Clients : Kind[c] \in {"read", "coil"}
  BY KindAssumption

-----------------------------------------------------------------------------
(* The invariant that holds in any case                                    *)

LEMMA InitIInv == Init => IInv /\ Own
<1>1. Init => TypeOK
  <2> SUFFICES ASSUME Init
               PROVE  TypeOK
    OBVIOUS
  <2>1. inbox \in [Clients -> BOOLEAN] /\ waiting \in [Clients -> BOOLEAN]
    BY DEF Init
  <2>2. /\ asked \in [Clients -> Nat] /\ fd \in [Handlers -> Fds \union {0}]
        /\ state \in [Clients -> {"away", "connected", "gone"}]
    BY DEF Init
  <2>3. QED
    BY <2>1, <2>2 DEF Init, TypeOK
<1>2. Init => Asked /\ Disabled /\ Lengths /\ Ended
  BY DEF Init, Asked, Disabled, Lengths, Ended
<1>3. Init => Own
  BY DEF Init, Own, Holds, Apart, Accepted, Used
<1>4. QED
  BY <1>1, <1>2, <1>3 DEF IInv

LEMMA TypeStep ==
    ASSUME TypeOK, Asked, Next \/ UNCHANGED vars
    PROVE  TypeOK'
<1>1. ASSUME NEW c \in Clients, Accept(c)
      PROVE  TypeOK'
  BY <1>1, LowestFree DEF Accept, TypeOK, accVars, handlerVars, clientVars,
      commandVars, mainVars
<1>2. CASE AcceptorGivesUp
  <2>1. client_fd' \in Fds \union {0} /\ acceptor' \in {"create", "close"} /\ mixed' \in BOOLEAN
    BY <1>2 DEF AcceptorGivesUp, Garbage, TypeOK
  <2>2. UNCHANGED <<arguments, table, handlerVars, MessageLength, clientVars, commandVars,
                    mainVars>>
    BY <1>2 DEF AcceptorGivesUp
  <2>3. QED
    BY <2>1, <2>2 DEF TypeOK, handlerVars, clientVars, commandVars, mainVars
<1>3. CASE CreateHandler
  <2>1. Created \in [Handlers -> {"none", "start", "top", "read", "handle", "return",
                                  "close", "ended"}]
    BY CreatedStarts DEF TypeOK
  <2>2. QED
    BY <1>3, <2>1 DEF CreateHandler, TypeOK, handlerVars, clientVars, commandVars, mainVars
<1>4. CASE AcceptorCloses
  BY <1>4 DEF AcceptorCloses, CloseFd, TypeOK, accVars, handlerVars, clientVars,
      commandVars, mainVars
<1>5. ASSUME NEW h \in Handlers, Begin(h)
      PROVE  TypeOK'
  BY <1>5 DEF Begin, TypeOK, accVars, handlerVars, clientVars, commandVars, mainVars
<1>6. ASSUME NEW h \in Handlers, Top(h)
      PROVE  TypeOK'
  BY <1>6 DEF Top, Open, TypeOK, accVars, handlerVars, clientVars, commandVars,
      mainVars
<1>7. ASSUME NEW h \in Handlers, Read(h)
      PROVE  TypeOK'
  BY <1>7 DEF Read, Asked, TypeOK, accVars, handlerVars, clientVars, commandVars, mainVars
<1>8. ASSUME NEW h \in Handlers, ReadEnds(h)
      PROVE  TypeOK'
  BY <1>8 DEF ReadEnds, TypeOK, accVars, handlerVars, clientVars, commandVars,
      mainVars
<1>9. ASSUME NEW h \in Handlers, Handle(h)
      PROVE  TypeOK'
  BY <1>9, KindIsKnown DEF Handle, Asked, TypeOK, accVars, handlerVars, clientVars,
      commandVars, mainVars
<1>10. ASSUME NEW h \in Handlers, Respond(h)
      PROVE  TypeOK'
  <2>1. waiting' \in [Clients -> BOOLEAN]
    BY <1>10 DEF Respond, TypeOK
  <2>2. pc' \in [Handlers -> {"none", "start", "top", "read", "handle", "return",
                             "close", "ended"}]
    BY <1>10 DEF Respond, TypeOK
  <2>3. QED
    BY <1>10, <2>1, <2>2 DEF Respond, TypeOK, accVars, commandVars, mainVars
<1>11. ASSUME NEW h \in Handlers, Close(h)
      PROVE  TypeOK'
  BY <1>11 DEF Close, CloseFd, TypeOK, accVars, handlerVars, clientVars, commandVars,
      mainVars
<1>12. CASE Joined
  BY <1>12 DEF Joined, TypeOK, accVars, handlerVars, clientVars, commandVars, mainVars
<1>13. CASE StartModbus
  BY <1>13 DEF StartModbus, TypeOK, accVars, handlerVars, clientVars, commandVars,
      mainVars
<1>14. CASE Quit
  <2>1. mainPc' \in {"scan", "join", "final", "exited", "crashed"}
    BY <1>14 DEF Quit, TypeOK
  <2>2. QED
    BY <1>14, <2>1 DEF Quit, TypeOK, accVars, handlerVars, clientVars
<1>15. CASE ScansEnd
  BY <1>15 DEF ScansEnd, TypeOK, accVars, handlerVars, clientVars, commandVars,
      mainVars
<1>16. CASE DisableOutputs
  BY <1>16 DEF DisableOutputs, TypeOK, accVars, handlerVars, clientVars, commandVars,
      mainVars
<1>17. CASE Exit
  BY <1>17 DEF Exit, TypeOK, accVars, handlerVars, clientVars, commandVars, mainVars
<1>18. ASSUME NEW c \in Clients, Ask(c)
      PROVE  TypeOK'
  BY <1>18 DEF Ask, TypeOK, accVars, handlerVars, clientVars, commandVars, mainVars
<1>19. ASSUME NEW c \in Clients, Leave(c)
      PROVE  TypeOK'
  BY <1>19 DEF Leave, TypeOK, accVars, handlerVars, clientVars, commandVars, mainVars
<1>20. ASSUME NEW then \in {"start", "idle", "quit"}, Command(then)
      PROVE  TypeOK'
  <2>1. commander' \in {"idle", "join", "start", "quit", "ended"} /\ commands' \in Nat
    <3>1. commander' = "join" \/ commander' = then
      BY <1>20, Zenon DEF Command
    <3>2. QED
      BY <1>20, <3>1 DEF Command, TypeOK
  <2>2. /\ run_modbus' = FALSE /\ next' = then
        /\ UNCHANGED <<accVars, table, handlerVars, MessageLength, clientVars,
                       run_openplc, mainVars, mixed>>
    BY <1>20 DEF Command
  <2>3. next' \in {"idle", "start", "quit"} /\ run_modbus' \in BOOLEAN
    BY <2>2
  <2>4. QED
    BY <2>1, <2>2, <2>3, ZenonT(60) DEF TypeOK, accVars, handlerVars, clientVars, mainVars
<1>21. CASE UNCHANGED vars
  BY <1>21 DEF vars, TypeOK, accVars, handlerVars, clientVars, commandVars, mainVars
<1>22. QED
  BY <1>1, <1>2, <1>3, <1>4, <1>5, <1>6, <1>7, <1>8, <1>9, <1>10, <1>11,
     <1>12, <1>13, <1>14, <1>15, <1>16, <1>17, <1>18, <1>19, <1>20, <1>21
     DEF Next, Acceptor, Handler, Commander, Main

LEMMA AskedStep ==
    ASSUME TypeOK, Asked, Next \/ UNCHANGED vars
    PROVE  Asked'
<1>1. ASSUME NEW c \in Clients, Accept(c)
      PROVE  Asked'
  BY <1>1, LowestFree DEF Accept, Asked, TypeOK, accVars, handlerVars, clientVars,
      commandVars, mainVars
<1>2. CASE AcceptorGivesUp
  BY <1>2 DEF AcceptorGivesUp, Asked, TypeOK, accVars, handlerVars, clientVars,
      commandVars, mainVars
<1>3. CASE CreateHandler
  BY <1>3, CreatedStarts DEF CreateHandler, Created, Asked, TypeOK, accVars,
      handlerVars, clientVars, commandVars, mainVars
<1>4. CASE AcceptorCloses
  BY <1>4 DEF AcceptorCloses, CloseFd, Asked, TypeOK, accVars, handlerVars,
      clientVars, commandVars, mainVars
<1>5. ASSUME NEW h \in Handlers, Begin(h)
      PROVE  Asked'
  BY <1>5 DEF Begin, Asked, TypeOK, accVars, handlerVars, clientVars, commandVars,
      mainVars
<1>6. ASSUME NEW h \in Handlers, Top(h)
      PROVE  Asked'
  BY <1>6 DEF Top, Open, Asked, TypeOK, accVars, handlerVars, clientVars, commandVars,
      mainVars
<1>7. ASSUME NEW h \in Handlers, Read(h)
      PROVE  Asked'
  BY <1>7 DEF Read, Asked, TypeOK, accVars, handlerVars, clientVars, commandVars,
      mainVars
<1>8. ASSUME NEW h \in Handlers, ReadEnds(h)
      PROVE  Asked'
  BY <1>8 DEF ReadEnds, Asked, TypeOK, accVars, handlerVars, clientVars, commandVars,
      mainVars
<1>9. ASSUME NEW h \in Handlers, Handle(h)
      PROVE  Asked'
  BY <1>9 DEF Handle, Asked, TypeOK, accVars, handlerVars, clientVars, commandVars,
      mainVars
<1>10. ASSUME NEW h \in Handlers, Respond(h)
      PROVE  Asked'
  BY <1>10 DEF Respond, Asked, TypeOK, accVars, handlerVars, clientVars, commandVars,
      mainVars
<1>11. ASSUME NEW h \in Handlers, Close(h)
      PROVE  Asked'
  BY <1>11 DEF Close, CloseFd, Asked, TypeOK, accVars, handlerVars, clientVars,
      commandVars, mainVars
<1>12. CASE Joined
  BY <1>12 DEF Joined, Asked, TypeOK, accVars, handlerVars, clientVars, commandVars,
      mainVars
<1>13. CASE StartModbus
  BY <1>13 DEF StartModbus, Asked, TypeOK, accVars, handlerVars, clientVars,
      commandVars, mainVars
<1>14. CASE Quit
  BY <1>14 DEF Quit, Asked, TypeOK, accVars, handlerVars, clientVars, commandVars,
      mainVars
<1>15. CASE ScansEnd
  BY <1>15 DEF ScansEnd, Asked, TypeOK, accVars, handlerVars, clientVars, commandVars,
      mainVars
<1>16. CASE DisableOutputs
  BY <1>16 DEF DisableOutputs, Asked, TypeOK, accVars, handlerVars, clientVars,
      commandVars, mainVars
<1>17. CASE Exit
  BY <1>17 DEF Exit, Asked, TypeOK, accVars, handlerVars, clientVars, commandVars,
      mainVars
<1>18. ASSUME NEW c \in Clients, Ask(c)
      PROVE  Asked'
  BY <1>18 DEF Ask, Asked, TypeOK, accVars, handlerVars, clientVars, commandVars,
      mainVars
<1>19. ASSUME NEW c \in Clients, Leave(c)
      PROVE  Asked'
  BY <1>19 DEF Leave, Asked, TypeOK, accVars, handlerVars, clientVars, commandVars,
      mainVars
<1>20. ASSUME NEW then \in {"start", "idle", "quit"}, Command(then)
      PROVE  Asked'
  BY <1>20 DEF Command, Asked, TypeOK, accVars, handlerVars, clientVars, commandVars,
      mainVars
<1>21. CASE UNCHANGED vars
  BY <1>21 DEF vars, Asked, TypeOK, accVars, handlerVars, clientVars, commandVars, mainVars
<1>22. QED
  BY <1>1, <1>2, <1>3, <1>4, <1>5, <1>6, <1>7, <1>8, <1>9, <1>10, <1>11,
     <1>12, <1>13, <1>14, <1>15, <1>16, <1>17, <1>18, <1>19, <1>20, <1>21
     DEF Next, Acceptor, Handler, Commander, Main

LEMMA DisabledStep ==
    ASSUME TypeOK, Asked, Disabled, Ended, Next \/ UNCHANGED vars
    PROVE  Disabled'
<1>1. ASSUME NEW c \in Clients, Accept(c)
      PROVE  Disabled'
  BY <1>1 DEF Accept, Disabled, SomeoneAsked, TypeOK, accVars, handlerVars,
      clientVars, commandVars, mainVars
<1>2. CASE AcceptorGivesUp
  BY <1>2 DEF AcceptorGivesUp, Disabled, SomeoneAsked, TypeOK, accVars, handlerVars,
      clientVars, commandVars, mainVars
<1>3. CASE CreateHandler
  BY <1>3 DEF CreateHandler, Created, Disabled, SomeoneAsked, TypeOK, accVars,
      handlerVars, clientVars, commandVars, mainVars
<1>4. CASE AcceptorCloses
  BY <1>4 DEF AcceptorCloses, CloseFd, Disabled, SomeoneAsked, TypeOK, accVars,
      handlerVars, clientVars, commandVars, mainVars
<1>5. ASSUME NEW h \in Handlers, Begin(h)
      PROVE  Disabled'
  BY <1>5 DEF Begin, Disabled, SomeoneAsked, TypeOK, accVars, handlerVars, clientVars,
      commandVars, mainVars
<1>6. ASSUME NEW h \in Handlers, Top(h)
      PROVE  Disabled'
  BY <1>6 DEF Top, Open, Disabled, SomeoneAsked, TypeOK, accVars, handlerVars,
      clientVars, commandVars, mainVars
<1>7. ASSUME NEW h \in Handlers, Read(h)
      PROVE  Disabled'
  BY <1>7 DEF Read, Disabled, SomeoneAsked, TypeOK, accVars, handlerVars, clientVars,
      commandVars, mainVars
<1>8. ASSUME NEW h \in Handlers, ReadEnds(h)
      PROVE  Disabled'
  BY <1>8 DEF ReadEnds, Disabled, SomeoneAsked, TypeOK, accVars, handlerVars,
      clientVars, commandVars, mainVars
<1>9. ASSUME NEW h \in Handlers, Handle(h)
      PROVE  Disabled'
  BY <1>9 DEF Handle, Asked, Disabled, SomeoneAsked, TypeOK, accVars, handlerVars,
      clientVars, commandVars, mainVars
<1>10. ASSUME NEW h \in Handlers, Respond(h)
      PROVE  Disabled'
  BY <1>10 DEF Respond, Disabled, SomeoneAsked, TypeOK, accVars, handlerVars,
      clientVars, commandVars, mainVars
<1>11. ASSUME NEW h \in Handlers, Close(h)
      PROVE  Disabled'
  BY <1>11 DEF Close, CloseFd, Disabled, SomeoneAsked, TypeOK, accVars, handlerVars,
      clientVars, commandVars, mainVars
<1>12. CASE Joined
  BY <1>12 DEF Joined, Disabled, SomeoneAsked, TypeOK, accVars, handlerVars,
      clientVars, commandVars, mainVars
<1>13. CASE StartModbus
  BY <1>13 DEF StartModbus, Disabled, SomeoneAsked, TypeOK, accVars, handlerVars,
      clientVars, commandVars, mainVars
<1>14. CASE Quit
  BY <1>14 DEF Quit, Disabled, SomeoneAsked, TypeOK, accVars, handlerVars, clientVars,
      commandVars, mainVars
<1>15. CASE ScansEnd
  BY <1>15 DEF ScansEnd, Disabled, SomeoneAsked, TypeOK, accVars, handlerVars,
      clientVars, commandVars, mainVars
<1>16. CASE DisableOutputs
  BY <1>16 DEF DisableOutputs, Disabled, SomeoneAsked, TypeOK, accVars, handlerVars,
      clientVars, commandVars, mainVars
<1>17. CASE Exit
  BY <1>17 DEF Exit, Disabled, SomeoneAsked, TypeOK, accVars, handlerVars, clientVars,
      commandVars, mainVars
<1>18. ASSUME NEW c \in Clients, Ask(c)
      PROVE  Disabled'
  BY <1>18 DEF Ask, Disabled, SomeoneAsked, TypeOK, accVars, handlerVars, clientVars,
      commandVars, mainVars
<1>19. ASSUME NEW c \in Clients, Leave(c)
      PROVE  Disabled'
  BY <1>19 DEF Leave, Disabled, SomeoneAsked, TypeOK, accVars, handlerVars,
      clientVars, commandVars, mainVars
<1>20. ASSUME NEW then \in {"start", "idle", "quit"}, Command(then)
      PROVE  Disabled'
  BY <1>20 DEF Command, Disabled, SomeoneAsked, TypeOK, accVars, handlerVars,
      clientVars, commandVars, mainVars
<1>21. CASE UNCHANGED vars
  BY <1>21 DEF vars, Disabled, SomeoneAsked, TypeOK, accVars, handlerVars, clientVars, commandVars, mainVars
<1>22. QED
  BY <1>1, <1>2, <1>3, <1>4, <1>5, <1>6, <1>7, <1>8, <1>9, <1>10, <1>11,
     <1>12, <1>13, <1>14, <1>15, <1>16, <1>17, <1>18, <1>19, <1>20, <1>21
     DEF Next, Acceptor, Handler, Commander, Main

LEMMA LengthsStep ==
    ASSUME TypeOK, Asked, Lengths, Next \/ UNCHANGED vars
    PROVE  Lengths'
<1>1. ASSUME NEW c \in Clients, Accept(c)
      PROVE  Lengths'
  BY <1>1 DEF Accept, Lengths, Begun, Used, TypeOK, accVars, handlerVars, clientVars,
      commandVars, mainVars
<1>2. CASE AcceptorGivesUp
  BY <1>2 DEF AcceptorGivesUp, Lengths, Begun, Used, TypeOK, accVars, handlerVars,
      clientVars, commandVars, mainVars
<1>3. CASE CreateHandler
  BY <1>3, CreatedStarts DEF CreateHandler, Created, Lengths, Begun, Used, TypeOK,
      accVars, handlerVars, clientVars, commandVars, mainVars
<1>4. CASE AcceptorCloses
  BY <1>4 DEF AcceptorCloses, CloseFd, Lengths, Begun, Used, TypeOK, accVars,
      handlerVars, clientVars, commandVars, mainVars
<1>5. ASSUME NEW h \in Handlers, Begin(h)
      PROVE  Lengths'
  BY <1>5 DEF Begin, Lengths, Begun, Used, TypeOK, accVars, handlerVars, clientVars,
      commandVars, mainVars
<1>6. ASSUME NEW h \in Handlers, Top(h)
      PROVE  Lengths'
  BY <1>6 DEF Top, Open, Lengths, Begun, Used, TypeOK, accVars, handlerVars,
      clientVars, commandVars, mainVars
<1>7. ASSUME NEW h \in Handlers, Read(h)
      PROVE  Lengths'
  BY <1>7 DEF Read, Lengths, Begun, Used, TypeOK, accVars, handlerVars, clientVars,
      commandVars, mainVars
<1>8. ASSUME NEW h \in Handlers, ReadEnds(h)
      PROVE  Lengths'
  BY <1>8 DEF ReadEnds, Lengths, Begun, Used, TypeOK, accVars, handlerVars,
      clientVars, commandVars, mainVars
<1>9. ASSUME NEW h \in Handlers, Handle(h)
      PROVE  Lengths'
  BY <1>9 DEF Handle, Lengths, Begun, Used, TypeOK, accVars, handlerVars, clientVars,
      commandVars, mainVars
<1>10. ASSUME NEW h \in Handlers, Respond(h)
      PROVE  Lengths'
  BY <1>10 DEF Respond, Lengths, Begun, Used, TypeOK, accVars, handlerVars,
      clientVars, commandVars, mainVars
<1>11. ASSUME NEW h \in Handlers, Close(h)
      PROVE  Lengths'
  BY <1>11 DEF Close, CloseFd, Lengths, Begun, Used, TypeOK, accVars, handlerVars,
      clientVars, commandVars, mainVars
<1>12. CASE Joined
  BY <1>12 DEF Joined, Lengths, Begun, Used, TypeOK, accVars, handlerVars, clientVars,
      commandVars, mainVars
<1>13. CASE StartModbus
  BY <1>13 DEF StartModbus, Lengths, Begun, Used, TypeOK, accVars, handlerVars,
      clientVars, commandVars, mainVars
<1>14. CASE Quit
  BY <1>14 DEF Quit, Lengths, Begun, Used, TypeOK, accVars, handlerVars, clientVars,
      commandVars, mainVars
<1>15. CASE ScansEnd
  BY <1>15 DEF ScansEnd, Lengths, Begun, Used, TypeOK, accVars, handlerVars,
      clientVars, commandVars, mainVars
<1>16. CASE DisableOutputs
  BY <1>16 DEF DisableOutputs, Lengths, Begun, Used, TypeOK, accVars, handlerVars,
      clientVars, commandVars, mainVars
<1>17. CASE Exit
  BY <1>17 DEF Exit, Lengths, Begun, Used, TypeOK, accVars, handlerVars, clientVars,
      commandVars, mainVars
<1>18. ASSUME NEW c \in Clients, Ask(c)
      PROVE  Lengths'
  BY <1>18 DEF Ask, Lengths, Begun, Used, TypeOK, accVars, handlerVars, clientVars,
      commandVars, mainVars
<1>19. ASSUME NEW c \in Clients, Leave(c)
      PROVE  Lengths'
  BY <1>19 DEF Leave, Lengths, Begun, Used, TypeOK, accVars, handlerVars, clientVars,
      commandVars, mainVars
<1>20. ASSUME NEW then \in {"start", "idle", "quit"}, Command(then)
      PROVE  Lengths'
  BY <1>20 DEF Command, Lengths, Begun, Used, TypeOK, accVars, handlerVars,
      clientVars, commandVars, mainVars
<1>21. CASE UNCHANGED vars
  BY <1>21 DEF vars, Lengths, Begun, Used, TypeOK, accVars, handlerVars, clientVars, commandVars, mainVars
<1>22. QED
  BY <1>1, <1>2, <1>3, <1>4, <1>5, <1>6, <1>7, <1>8, <1>9, <1>10, <1>11,
     <1>12, <1>13, <1>14, <1>15, <1>16, <1>17, <1>18, <1>19, <1>20, <1>21
     DEF Next, Acceptor, Handler, Commander, Main

LEMMA EndedStep ==
    ASSUME TypeOK, Ended, Next \/ UNCHANGED vars
    PROVE  Ended'
<1>1. ASSUME NEW c \in Clients, Accept(c)
      PROVE  Ended'
  BY <1>1 DEF Accept, Ended, TypeOK, accVars, handlerVars, clientVars, commandVars,
      mainVars
<1>2. CASE AcceptorGivesUp
  BY <1>2 DEF AcceptorGivesUp, Ended, TypeOK, accVars, handlerVars, clientVars,
      commandVars, mainVars
<1>3. CASE CreateHandler
  BY <1>3 DEF CreateHandler, Created, Ended, TypeOK, accVars, handlerVars, clientVars,
      commandVars, mainVars
<1>4. CASE AcceptorCloses
  BY <1>4 DEF AcceptorCloses, CloseFd, Ended, TypeOK, accVars, handlerVars,
      clientVars, commandVars, mainVars
<1>5. ASSUME NEW h \in Handlers, Begin(h)
      PROVE  Ended'
  BY <1>5 DEF Begin, Ended, TypeOK, accVars, handlerVars, clientVars, commandVars,
      mainVars
<1>6. ASSUME NEW h \in Handlers, Top(h)
      PROVE  Ended'
  BY <1>6 DEF Top, Open, Ended, TypeOK, accVars, handlerVars, clientVars, commandVars,
      mainVars
<1>7. ASSUME NEW h \in Handlers, Read(h)
      PROVE  Ended'
  BY <1>7 DEF Read, Ended, TypeOK, accVars, handlerVars, clientVars, commandVars,
      mainVars
<1>8. ASSUME NEW h \in Handlers, ReadEnds(h)
      PROVE  Ended'
  BY <1>8 DEF ReadEnds, Ended, TypeOK, accVars, handlerVars, clientVars, commandVars,
      mainVars
<1>9. ASSUME NEW h \in Handlers, Handle(h)
      PROVE  Ended'
  BY <1>9 DEF Handle, Ended, TypeOK, accVars, handlerVars, clientVars, commandVars,
      mainVars
<1>10. ASSUME NEW h \in Handlers, Respond(h)
      PROVE  Ended'
  BY <1>10 DEF Respond, Ended, TypeOK, accVars, handlerVars, clientVars, commandVars,
      mainVars
<1>11. ASSUME NEW h \in Handlers, Close(h)
      PROVE  Ended'
  BY <1>11 DEF Close, CloseFd, Ended, TypeOK, accVars, handlerVars, clientVars,
      commandVars, mainVars
<1>12. CASE Joined
  BY <1>12 DEF Joined, Ended, TypeOK, accVars, handlerVars, clientVars, commandVars,
      mainVars
<1>13. CASE StartModbus
  BY <1>13 DEF StartModbus, Ended, TypeOK, accVars, handlerVars, clientVars,
      commandVars, mainVars
<1>14. CASE Quit
  BY <1>14 DEF Quit, Ended, TypeOK, accVars, handlerVars, clientVars, commandVars,
      mainVars
<1>15. CASE ScansEnd
  BY <1>15 DEF ScansEnd, Ended, TypeOK, accVars, handlerVars, clientVars, commandVars,
      mainVars
<1>16. CASE DisableOutputs
  BY <1>16 DEF DisableOutputs, Ended, TypeOK, accVars, handlerVars, clientVars,
      commandVars, mainVars
<1>17. CASE Exit
  BY <1>17 DEF Exit, Ended, TypeOK, accVars, handlerVars, clientVars, commandVars,
      mainVars
<1>18. ASSUME NEW c \in Clients, Ask(c)
      PROVE  Ended'
  BY <1>18 DEF Ask, Ended, TypeOK, accVars, handlerVars, clientVars, commandVars,
      mainVars
<1>19. ASSUME NEW c \in Clients, Leave(c)
      PROVE  Ended'
  BY <1>19 DEF Leave, Ended, TypeOK, accVars, handlerVars, clientVars, commandVars,
      mainVars
<1>20. ASSUME NEW then \in {"start", "idle", "quit"}, Command(then)
      PROVE  Ended'
  BY <1>20 DEF Command, Ended, TypeOK, accVars, handlerVars, clientVars, commandVars,
      mainVars
<1>21. CASE UNCHANGED vars
  BY <1>21 DEF vars, Ended, TypeOK, accVars, handlerVars, clientVars, commandVars, mainVars
<1>22. QED
  BY <1>1, <1>2, <1>3, <1>4, <1>5, <1>6, <1>7, <1>8, <1>9, <1>10, <1>11,
     <1>12, <1>13, <1>14, <1>15, <1>16, <1>17, <1>18, <1>19, <1>20, <1>21
     DEF Next, Acceptor, Handler, Commander, Main

-----------------------------------------------------------------------------
(* Descriptors                                                             *)

LEMMA OwnStep ==
    ASSUME IInv, Own, Next \/ UNCHANGED vars
    PROVE  Own'
<1>0. TypeOK /\ Ended
  BY DEF IInv
<1>1. ASSUME NEW c \in Clients, Accept(c)
      PROVE  Own'
  <2> DEFINE f == Min(Free)
  <2>1. f \in Fds /\ table[f] = Null
    BY <1>1, LowestFree DEF Accept
  <2>2. /\ client_fd' = f /\ acceptor = "accept" /\ acceptor' = "create"
        /\ table' = [table EXCEPT ![f] = c] /\ c # Null
        /\ UNCHANGED <<arguments, pc, fd, file, req, mixed>>
    BY <1>1, NullAssumption DEF Accept, handlerVars
  <2> HIDE DEF f
  <2>3. /\ table'[f] # Null
        /\ \A g \in Fds : table[g] # Null => g # f /\ table'[g] = table[g]
    BY <1>0, <2>1, <2>2 DEF TypeOK
  <2>4. SUFFICES ASSUME ~mixed
                 PROVE  (/\ \A h \in Handlers : Holds(h)
                         /\ \A g, h \in Handlers : g # h => Apart(g, h)
                         /\ Accepted)'
    BY <2>2 DEF Own
  <2>5. /\ \A h \in Handlers : Holds(h)
        /\ \A g, h \in Handlers : g # h => Apart(g, h)
    BY <2>4 DEF Own
  <2>6. ASSUME NEW h \in Handlers
        PROVE  Holds(h)'
    BY <2>2, <2>3, <2>5 DEF Holds, Used
  <2>7. ASSUME NEW g \in Handlers, NEW h \in Handlers, g # h
        PROVE  Apart(g, h)'
    BY <2>2, <2>5, <2>7 DEF Apart
  <2>8. Accepted'
    BY <2>1, <2>2, <2>3, <2>5 DEF Accepted, Holds
  <2>9. QED
    BY <2>6, <2>7, <2>8
<1>2. CASE AcceptorGivesUp
  <2>1. SUFFICES ASSUME ~mixed'
                 PROVE  (/\ \A h \in Handlers : Holds(h)
                         /\ \A g, h \in Handlers : g # h => Apart(g, h)
                         /\ Accepted)'
    BY DEF Own
  <2>2. ~mixed /\ acceptor' = "close"
    <3>1. CASE client_fd' \in Garbage /\ acceptor' = "close" /\ UNCHANGED mixed
      BY <2>1, <3>1
    <3>2. CASE \E f : acceptor' = (IF f = 0 THEN "close" ELSE "create") /\ mixed' = (mixed \/ f # 0)
      BY <2>1, <3>2, Zenon
    <3>3. QED
      BY <1>2, <3>1, <3>2, Zenon DEF AcceptorGivesUp
  <2>3. UNCHANGED <<arguments, table, pc, fd, file, req>> /\ acceptor = "accept"
    BY <1>2 DEF AcceptorGivesUp, handlerVars
  <2>4. QED
    BY <2>2, <2>3 DEF Own, Holds, Apart, Accepted
<1>3. CASE CreateHandler
  <2>1. /\ acceptor = "create" /\ acceptor' \in {"accept", "close"}
        /\ arguments' = client_fd /\ pc' = Created
        /\ UNCHANGED <<client_fd, table, fd, file, req>>
    BY <1>3 DEF CreateHandler
  <2>2. SUFFICES ASSUME ~mixed'
                 PROVE  (/\ \A h \in Handlers : Holds(h)
                         /\ \A g, h \in Handlers : g # h => Apart(g, h)
                         /\ Accepted)'
    BY DEF Own
  <2>3. ~mixed /\ pc' # pc /\ \A h \in Handlers : pc[h] # "start"
    BY <1>3, <2>2, Zenon DEF CreateHandler
  <2>4. PICK n \in Handlers : pc[n] = "none" /\ pc' = [pc EXCEPT ![n] = "start"]
    BY <1>0, <2>1, <2>3, CreatedStarts
  <2>5. /\ \A h \in Handlers : Holds(h)
        /\ \A g, h \in Handlers : g # h => Apart(g, h)
        /\ Accepted
    BY <2>3 DEF Own
  <2>6. pc'[n] = "start" /\ \A h \in Handlers : h # n => pc'[h] = pc[h]
    BY <1>0, <2>4 DEF TypeOK
  <2>7. ASSUME NEW h \in Handlers
        PROVE  Holds(h)'
    BY <2>1, <2>3, <2>5, <2>6 DEF Holds, Accepted, Used
  <2>8. ASSUME NEW g \in Handlers, NEW h \in Handlers, g # h
        PROVE  Apart(g, h)'
    BY <2>1, <2>3, <2>5, <2>6, <2>8 DEF Apart, Accepted, Used
  <2>9. QED
    BY <2>1, <2>7, <2>8 DEF Accepted
<1>4. CASE AcceptorCloses
  <2>1. SUFFICES ASSUME ~mixed'
                 PROVE  (/\ \A h \in Handlers : Holds(h)
                         /\ \A g, h \in Handlers : g # h => Apart(g, h)
                         /\ Accepted)'
    BY DEF Own
  <2>2. ~mixed /\ ~Open(client_fd) /\ \A h \in Handlers : pc[h] # "start"
    BY <1>4, <2>1, Zenon DEF AcceptorCloses
  <2>3. /\ table' = table /\ acceptor' = "ended"
        /\ UNCHANGED <<client_fd, arguments, pc, fd, file, req>>
    BY <1>0, <1>4, <2>2 DEF AcceptorCloses, CloseFd, Open, TypeOK, handlerVars
  <2>4. QED
    BY <2>2, <2>3 DEF Own, Holds, Apart, Accepted
<1>5. ASSUME NEW h \in Handlers, Begin(h)
      PROVE  Own'
  BY <1>0, <1>5 DEF Begin, Own, Holds, Apart, Accepted, Used, TypeOK, accVars, handlerVars,
      clientVars, commandVars, mainVars
<1>6. ASSUME NEW h \in Handlers, Top(h)
      PROVE  Own'
  BY <1>0, <1>6 DEF Top, Open, Own, Holds, Apart, Accepted, Used, TypeOK, accVars,
      handlerVars, clientVars, commandVars, mainVars
<1>7. ASSUME NEW h \in Handlers, Read(h)
      PROVE  Own'
  BY <1>0, <1>7 DEF Read, Own, Holds, Apart, Accepted, Used, TypeOK, accVars, handlerVars,
      clientVars, commandVars, mainVars
<1>8. ASSUME NEW h \in Handlers, ReadEnds(h)
      PROVE  Own'
  BY <1>0, <1>8 DEF ReadEnds, Own, Holds, Apart, Accepted, Used, TypeOK, accVars,
      handlerVars, clientVars, commandVars, mainVars
<1>9. ASSUME NEW h \in Handlers, Handle(h)
      PROVE  Own'
  BY <1>0, <1>9 DEF Handle, Own, Holds, Apart, Accepted, Used, TypeOK, accVars, handlerVars,
      clientVars, commandVars, mainVars
<1>10. ASSUME NEW h \in Handlers, Respond(h)
      PROVE  Own'
  BY <1>0, <1>10 DEF Respond, Own, Holds, Apart, Accepted, Used, TypeOK, accVars,
      handlerVars, clientVars, commandVars, mainVars
<1>11. ASSUME NEW h \in Handlers, Close(h)
      PROVE  Own'
  BY <1>0, <1>11 DEF Close, CloseFd, Own, Holds, Apart, Accepted, Used, TypeOK, accVars,
      handlerVars, clientVars, commandVars, mainVars
<1>12. CASE Joined
  BY <1>0, <1>12 DEF Joined, Own, Holds, Apart, Accepted, Used, TypeOK, accVars,
      handlerVars, clientVars, commandVars, mainVars
<1>13. CASE StartModbus
  BY <1>0, <1>13 DEF StartModbus, Ended, Own, Holds, Apart, Accepted, Used, TypeOK, accVars,
      handlerVars, clientVars, commandVars, mainVars
<1>14. CASE Quit
  BY <1>0, <1>14 DEF Quit, Own, Holds, Apart, Accepted, Used, TypeOK, accVars, handlerVars,
      clientVars, commandVars, mainVars
<1>15. CASE ScansEnd
  BY <1>0, <1>15 DEF ScansEnd, Own, Holds, Apart, Accepted, Used, TypeOK, accVars,
      handlerVars, clientVars, commandVars, mainVars
<1>16. CASE DisableOutputs
  BY <1>0, <1>16 DEF DisableOutputs, Own, Holds, Apart, Accepted, Used, TypeOK, accVars,
      handlerVars, clientVars, commandVars, mainVars
<1>17. CASE Exit
  BY <1>0, <1>17 DEF Exit, Own, Holds, Apart, Accepted, Used, TypeOK, accVars, handlerVars,
      clientVars, commandVars, mainVars
<1>18. ASSUME NEW c \in Clients, Ask(c)
      PROVE  Own'
  BY <1>0, <1>18 DEF Ask, Own, Holds, Apart, Accepted, Used, TypeOK, accVars, handlerVars,
      clientVars, commandVars, mainVars
<1>19. ASSUME NEW c \in Clients, Leave(c)
      PROVE  Own'
  BY <1>0, <1>19 DEF Leave, Own, Holds, Apart, Accepted, Used, TypeOK, accVars, handlerVars,
      clientVars, commandVars, mainVars
<1>20. ASSUME NEW then \in {"start", "idle", "quit"}, Command(then)
      PROVE  Own'
  BY <1>0, <1>20 DEF Command, Own, Holds, Apart, Accepted, Used, TypeOK, accVars,
      handlerVars, clientVars, commandVars, mainVars
<1>21. CASE UNCHANGED vars
  BY <1>0, <1>21 DEF vars, Own, Holds, Apart, Accepted, Used, TypeOK, accVars, handlerVars, clientVars, commandVars, mainVars
<1>22. QED
  BY <1>0, <1>1, <1>2, <1>3, <1>4, <1>5, <1>6, <1>7, <1>8, <1>9, <1>10, <1>11,
     <1>12, <1>13, <1>14, <1>15, <1>16, <1>17, <1>18, <1>19, <1>20, <1>21
     DEF Next, Acceptor, Handler, Commander, Main

LEMMA NextIInv == IInv /\ Own /\ [Next]_vars => IInv' /\ Own'
  BY TypeStep, AskedStep, DisabledStep, LengthsStep, EndedStep, OwnStep DEF IInv

\* An answer is sent to the client whose request was read.
LEMMA AnswerStep ==
    ASSUME IInv, Own, [Next]_vars, NEW h \in Handlers, Responds(h)
    PROVE  /\ ~mixed => Target(h) = req[h]
           /\ \/ MessageLength = Kind[req[h]]
              \/ \E g \in Handlers \ {h} :
                   pc[g] \in Serving \union {"top", "close", "ended"}
<1>1. pc[h] = "return"
  BY DEF Responds
<1>2. ~mixed => Target(h) = req[h]
  BY <1>1 DEF Own, Holds, Used, Target, Open
<1>3. QED
  BY <1>1, <1>2 DEF IInv, Lengths, Begun, Used, Serving

-----------------------------------------------------------------------------
\* The handlers, startServer, processCommand and main keep every variable in its type.
THEOREM TypeCorrect == Spec => []TypeOK
<1>1. Init => IInv /\ Own
  BY InitIInv
<1>2. IInv /\ Own /\ [Next]_vars => IInv' /\ Own'
  BY NextIInv
<1>3. IInv => TypeOK
  BY DEF IInv
<1>4. QED
  BY <1>1, <1>2, <1>3, PTL DEF Spec

\* The process ends with the coil on only if a client has asked for it, whatever
\* handlers still run while main disables the outputs.
THEOREM CoilsAreAskedFor == Spec => []OutputsEndDisabled
<1>1. Init => IInv /\ Own
  BY InitIInv
<1>2. IInv /\ Own /\ [Next]_vars => IInv' /\ Own'
  BY NextIInv
<1>3. IInv => OutputsEndDisabled
  BY DEF IInv, Disabled, SomeoneAsked, OutputsEndDisabled
<1>4. QED
  BY <1>1, <1>2, <1>3, PTL DEF Spec

\* A handler answers the client whose request it has read, unless descriptors were
\* mixed up, with the length of that answer unless another handler has been at work.
THEOREM AnswersAreDelivered == Spec => AnswersGoHome
<1>1. Init => IInv /\ Own
  BY InitIInv
<1>2. IInv /\ Own /\ [Next]_vars => IInv' /\ Own'
  BY NextIInv
<1>3. IInv /\ Own /\ [Next]_vars =>
        [\A h \in Handlers : Responds(h) =>
           /\ ~mixed => Target(h) = req[h]
           /\ \/ MessageLength = Kind[req[h]]
              \/ \E g \in Handlers \ {h} :
                   pc[g] \in Serving \union {"top", "close", "ended"}]_vars
  BY AnswerStep
<1>4. QED
  BY <1>1, <1>2, <1>3, PTL DEF Spec, AnswersGoHome

=============================================================================
