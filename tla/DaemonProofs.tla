---------------------------- MODULE DaemonProofs -----------------------------
(***************************************************************************)
(* The server's descriptors, what ends the daemon, that answers are whole, *)
(* and that there is one daemon: for any number of clients, descriptors,   *)
(* files and lines, and of processes, shells and commands. None of the     *)
(* four is inductive: OwnDescriptors needs what the server's number stands *)
(* for between its three closes, EndedByLeaver that a connection ends only *)
(* when the one descriptor, or the one place in the queue, that it has is  *)
(* given up, AnswerIsWhole what is still to print with what the client has *)
(* already, and OneDaemon that who works holds the lock.                   *)
(***************************************************************************)
EXTENDS Server, Lifecycle, TLAPS

\* what the descriptors are, and who may be in the queue
Table ==
  /\ fds \in [Fds -> Clients \union {None, File}]
  /\ queue \in Seq(Clients)
  /\ sv \in {"accept", "read", "lock", "print", "closeIn", "closeOut", "closeS2"}
  /\ sv # "accept" => s2 \in Fds
  /\ file # None => file \in Fds
  /\ alive \in BOOLEAN /\ gap \in BOOLEAN /\ stolen \in BOOLEAN

\* the server's number is free between two closes of it
FreeBetween ==
  ~gap /\ sv \in {"closeOut", "closeS2"} => fds[s2] = None

DescriptorInv == Table /\ FreeBetween /\ OwnDescriptors

CloseSteps == {"closeIn", "closeOut", "closeS2"}

-----------------------------------------------------------------------------
(* Descriptors                                                             *)

LEMMA DescriptorsInit == SvInit => DescriptorInv
  <1> SUFFICES ASSUME SvInit PROVE DescriptorInv
    OBVIOUS
  <1>1. /\ fds = [f \in Fds |-> None] /\ queue = <<>> /\ sv = "accept" /\ file = None
        /\ alive = TRUE /\ gap = FALSE /\ stolen = FALSE
    BY DEF SvInit
  <1>2. fds \in [Fds -> Clients \union {None, File}]
    BY <1>1
  <1>3. queue \in Seq(Clients)
    BY <1>1
  <1> QED BY <1>1, <1>2, <1>3 DEF DescriptorInv, Table, FreeBetween, OwnDescriptors

LEMMA LowestIsFree ==
  ASSUME NEW f \in Lowest
  PROVE  f \in Fds /\ fds[f] = None
  BY DEF Lowest, Free

\* steps that leave the descriptors alone
LEMMA DescriptorsKept ==
  ASSUME DescriptorInv, UNCHANGED <<fds, queue, s2, file, gap, stolen>>,
         alive' \in BOOLEAN,
         sv' = sv \/ (sv \in {"read", "lock", "print"} /\ sv' \in {"lock", "print", "closeIn"})
  PROVE  DescriptorInv'
  BY DEF DescriptorInv, Table, FreeBetween, OwnDescriptors, Peer

LEMMA AcceptKeeps == DescriptorInv /\ Accept => DescriptorInv'
  <1> SUFFICES ASSUME DescriptorInv, Accept PROVE DescriptorInv'
    OBVIOUS
  <1>1. PICK f \in Lowest : s2' = f
    BY DEF Accept
  <1>2. f \in Fds /\ fds[f] = None
    BY <1>1, LowestIsFree
  <1>3. Head(queue) \in Clients /\ queue' \in Seq(Clients)
    BY DEF Accept, DescriptorInv, Table
  <1>4. /\ fds' = [fds EXCEPT ![f] = Head(queue)] /\ s2' = f /\ sv' = "read"
        /\ UNCHANGED <<file, alive, gap, stolen>>
    BY <1>1 DEF Accept
  <1>5. Table'
    BY <1>2, <1>3, <1>4 DEF DescriptorInv, Table
  <1>6. ~gap /\ file # None => fds'[file] = File
    BY <1>2, <1>4, ServerAssumption DEF DescriptorInv, Table, OwnDescriptors
  <1>7. fds'[s2'] \in Clients
    BY <1>2, <1>3, <1>4 DEF DescriptorInv, Table
  <1> QED BY <1>4, <1>5, <1>6, <1>7 DEF DescriptorInv, FreeBetween, OwnDescriptors, Peer

LEMMA CloseKeeps == DescriptorInv /\ Close => DescriptorInv'
  <1> SUFFICES ASSUME DescriptorInv, Close PROVE DescriptorInv'
    OBVIOUS
  <1>1. /\ sv \in CloseSteps /\ s2 \in Fds
        /\ fds' = [fds EXCEPT ![s2] = None]
        /\ UNCHANGED <<queue, s2, file, alive, gap>>
        /\ stolen' = (stolen \/ (fds[s2] # None /\ (sv # "closeIn" \/ fds[s2] = File)))
        /\ sv' = After(sv)
    BY DEF Close, CloseSteps, Peer, DescriptorInv, Table
  <1>2. sv' \in {"closeOut", "closeS2", "accept"}
    BY <1>1 DEF After, CloseSteps
  <1>3. Table'
    BY <1>1, <1>2 DEF DescriptorInv, Table
  <1>4. ASSUME ~gap
        PROVE  /\ ~stolen' /\ fds'[s2] = None
               /\ file # None => fds'[file] = File
    <2>1. fds[s2] = None \/ (sv = "closeIn" /\ fds[s2] \in Clients)
      BY <1>1, <1>4 DEF DescriptorInv, FreeBetween, OwnDescriptors, Peer, CloseSteps
    <2>2. ~stolen'
      BY <1>1, <1>4, <2>1, ServerAssumption DEF DescriptorInv, OwnDescriptors
    <2>3. file # None => file # s2
      BY <1>4, <2>1, ServerAssumption DEF DescriptorInv, OwnDescriptors
    <2> QED BY <1>1, <1>4, <2>2, <2>3 DEF DescriptorInv, Table, OwnDescriptors
  <1> QED BY <1>1, <1>2, <1>3, <1>4 DEF DescriptorInv, FreeBetween, OwnDescriptors

LEMMA OpenFileKeeps == DescriptorInv /\ OpenFile => DescriptorInv'
  <1> SUFFICES ASSUME DescriptorInv, OpenFile PROVE DescriptorInv'
    OBVIOUS
  <1>1. PICK f \in Lowest : file' = f
    BY DEF OpenFile
  <1>2. f \in Fds /\ fds[f] = None
    BY <1>1, LowestIsFree
  <1>3. /\ fds' = [fds EXCEPT ![f] = File] /\ file' = f
        /\ UNCHANGED <<queue, sv, s2, alive, stolen>>
        /\ gap' = (gap \/ (f = s2 /\ sv \in {"closeOut", "closeS2"}))
    BY <1>1 DEF OpenFile, server
  <1>4. Table'
    BY <1>2, <1>3 DEF DescriptorInv, Table
  <1>5. FreeBetween'
    BY <1>2, <1>3 DEF DescriptorInv, Table, FreeBetween
  <1>6. ASSUME ~gap, sv \in {"read", "lock", "print", "closeIn"}
        PROVE  fds'[s2] \in Clients
    BY <1>2, <1>3, <1>6, ServerAssumption DEF DescriptorInv, Table, OwnDescriptors, Peer
  <1>7. OwnDescriptors'
    BY <1>2, <1>3, <1>6 DEF DescriptorInv, Table, OwnDescriptors, Peer
  <1> QED BY <1>4, <1>5, <1>7 DEF DescriptorInv

LEMMA CloseFileKeeps == DescriptorInv /\ CloseFile => DescriptorInv'
  <1> SUFFICES ASSUME DescriptorInv, CloseFile PROVE DescriptorInv'
    OBVIOUS
  <1>1. /\ file \in Fds /\ file # None /\ file' = None
        /\ fds' = [fds EXCEPT ![file] = None]
        /\ UNCHANGED <<queue, sv, s2, alive, gap, stolen>>
    BY DEF CloseFile, server, DescriptorInv, Table
  <1>2. Table'
    BY <1>1 DEF DescriptorInv, Table
  <1>3. FreeBetween'
    BY <1>1 DEF DescriptorInv, Table, FreeBetween
  <1>4. ASSUME ~gap, sv \in {"read", "lock", "print", "closeIn"}
        PROVE  fds'[s2] \in Clients
    BY <1>1, <1>4, ServerAssumption DEF DescriptorInv, Table, OwnDescriptors, Peer
  <1>5. OwnDescriptors'
    BY <1>1, <1>4 DEF DescriptorInv, OwnDescriptors, Peer
  <1> QED BY <1>2, <1>3, <1>5 DEF DescriptorInv

LEMMA DescriptorsNext == DescriptorInv /\ [SvNext]_svVars => DescriptorInv'
  <1> SUFFICES ASSUME DescriptorInv, [SvNext]_svVars PROVE DescriptorInv'
    OBVIOUS
  <1>1. alive \in BOOLEAN
    BY DEF DescriptorInv, Table
  <1>2. CASE UNCHANGED svVars
    BY <1>1, <1>2, DescriptorsKept DEF svVars, daemon, server
  <1>3. CASE ReadLine \/ ReadFails \/ Lock \/ PrintLine \/ Printed
    <2>1. UNCHANGED <<fds, queue, s2, file, gap, stolen>>
      BY <1>3 DEF ReadLine, ReadFails, Lock, PrintLine, Printed
    <2>2. alive' \in BOOLEAN
      BY <1>1, <1>3 DEF ReadLine, ReadFails, Lock, PrintLine, Printed
    <2>3. sv' = sv \/ (sv \in {"read", "lock", "print"} /\ sv' \in {"lock", "print", "closeIn"})
      BY <1>3 DEF ReadLine, ReadFails, Lock, PrintLine, Printed
    <2> QED BY <2>1, <2>2, <2>3, DescriptorsKept
  <1>4. CASE Store
    BY <1>1, <1>4, DescriptorsKept DEF Store, server
  <1>5. ASSUME NEW c \in Clients, Ask(c) \/ Finish(c) \/ AskAgain(c) \/ Leave(c)
        PROVE  DescriptorInv'
    BY <1>1, <1>5, DescriptorsKept DEF Ask, Finish, AskAgain, Leave, daemon, server
  <1>6. ASSUME NEW c \in Clients, NEW request \in Requests, Connect(c, request)
        PROVE  DescriptorInv'
    <2>1. queue' \in Seq(Clients)
      BY <1>6 DEF Connect, DescriptorInv, Table
    <2> QED BY <1>6, <2>1 DEF Connect, server, DescriptorInv, Table, FreeBetween, OwnDescriptors, Peer
  <1> QED BY <1>2, <1>3, <1>4, <1>5, <1>6, AcceptKeeps, CloseKeeps, OpenFileKeeps, CloseFileKeeps
          DEF SvNext, ServerThread

LEMMA DescriptorsInvariant == SvSpec => []DescriptorInv
  <1> QED BY DescriptorsInit, DescriptorsNext, PTL DEF SvSpec

\* As long as no file is opened between two closes of one number, the server
\* and the other threads have their own descriptors, whatever the clients do.
THEOREM DescriptorsOwned == SvSpec => []OwnDescriptors
  <1>1. DescriptorInv => OwnDescriptors
    BY DEF DescriptorInv
  <1> QED BY <1>1, DescriptorsInvariant, PTL

-----------------------------------------------------------------------------
(* The end of the daemon                                                   *)

Asked == Requests \union {None}

ClientType ==
  [pc : {"new", "connected", "reads", "done", "left", "broken"}, asks : Asked,
   met : BOOLEAN, sent : BOOLEAN, got : Seq(Asked \X Nat), ended : BOOLEAN]

Types ==
  /\ Table /\ cl \in [Clients -> ClientType]
  /\ line \in Asked /\ moment \in Nat

\* a connection has one descriptor or one place in the queue
OnePlace ==
  /\ \A f, g \in Fds : fds[f] \in Clients /\ fds[f] = fds[g] => f = g
  /\ \A i, j \in 1 .. Len(queue) : queue[i] = queue[j] => i = j
  /\ \A f \in Fds, i \in 1 .. Len(queue) : fds[f] # queue[i]

Connected(c) ==
  (\E f \in Fds : fds[f] = c) \/ (\E i \in 1 .. Len(queue) : queue[i] = c)

\* a connection that has a place has not ended, and a client that is through
\* saw its end
Lasts ==
  alive => \A c \in Clients :
             /\ Connected(c) => ~cl[c].ended /\ cl[c].pc # "new"
             /\ cl[c].pc \in {"done", "broken"} => cl[c].ended

EndInv == Types /\ OnePlace /\ Lasts /\ EndedByLeaver

-----------------------------------------------------------------------------
LEMMA EndInit == SvInit => EndInv
  <1> SUFFICES ASSUME SvInit PROVE EndInv
    OBVIOUS
  <1>1. /\ fds = [f \in Fds |-> None] /\ queue = <<>> /\ line = None /\ moment = 0
        /\ alive = TRUE /\ cl = [c \in Clients |-> NoClient]
    BY DEF SvInit
  <1>2. NoClient \in ClientType
    BY DEF NoClient, ClientType, Asked
  <1>3. Types
    BY <1>1, <1>2, DescriptorsInit DEF Types, DescriptorInv, Asked
  <1>4. OnePlace
    BY <1>1, ServerAssumption DEF OnePlace
  <1>5. \A c \in Clients : ~Connected(c) /\ cl[c].pc = "new"
    BY <1>1, ServerAssumption DEF Connected, NoClient
  <1> QED BY <1>1, <1>3, <1>4, <1>5 DEF EndInv, Lasts, EndedByLeaver

\* steps of the daemon that leave the connections and the clients alone
LEMMA EndKept ==
  ASSUME EndInv, Table', UNCHANGED <<fds, queue, cl, alive>>, line' \in Asked, moment' \in Nat
  PROVE  EndInv'
  BY DEF EndInv, Types, OnePlace, Lasts, Connected, EndedByLeaver

\* a step in which one client goes on without the daemon
LEMMA ClientGoesOn ==
  ASSUME EndInv, UNCHANGED daemon, cl' \in [Clients -> ClientType],
         NEW c \in Clients, \A d \in Clients \ {c} : cl'[d] = cl[d],
         cl[c].pc \in {"connected", "reads"}, cl'[c].pc # "new",
         cl'[c].ended = cl[c].ended,
         cl'[c].pc \in {"done", "broken"} => cl[c].ended
  PROVE  EndInv'
  <1>1. UNCHANGED <<fds, queue, sv, s2, line, moment, file, alive, gap, stolen>>
    BY DEF daemon, server
  <1>2. Types'
    BY <1>1 DEF EndInv, Types, Table
  <1>3. OnePlace'
    BY <1>1 DEF EndInv, OnePlace
  <1>4. Lasts'
    BY <1>1 DEF EndInv, Lasts, Connected
  <1>5. EndedByLeaver'
    BY <1>1 DEF EndInv, EndedByLeaver
  <1> QED BY <1>2, <1>3, <1>4, <1>5 DEF EndInv

LEMMA ClientsStep ==
  ASSUME EndInv, NEW c \in Clients, Ask(c) \/ Finish(c) \/ AskAgain(c) \/ Leave(c)
  PROVE  EndInv'
  <1>1. UNCHANGED daemon /\ cl[c].pc \in {"connected", "reads"}
    BY DEF Ask, Finish, AskAgain, Leave
  <1>2. cl \in [Clients -> ClientType] /\ cl[c] \in ClientType
    BY DEF EndInv, Types
  <1>3. CASE Ask(c)
    <2>1. cl' = [cl EXCEPT ![c] = [cl[c] EXCEPT !.pc = "reads", !.sent = TRUE]]
      BY <1>3 DEF Ask
    <2>2. [cl[c] EXCEPT !.pc = "reads", !.sent = TRUE] \in ClientType
      BY <1>2 DEF ClientType
    <2>3. cl' \in [Clients -> ClientType]
      BY <1>2, <2>1, <2>2
    <2>4. /\ cl'[c].pc = "reads" /\ cl'[c].ended = cl[c].ended
          /\ \A d \in Clients \ {c} : cl'[d] = cl[d]
      BY <1>2, <2>1 DEF ClientType
    <2> QED BY <1>1, <2>3, <2>4, ClientGoesOn
  <1>4. ASSUME NEW pc \in {"done", "broken", "connected", "left"},
               cl' = [cl EXCEPT ![c].pc = pc],
               pc \in {"done", "broken"} => cl[c].ended
        PROVE  EndInv'
    <2>1. cl' = [cl EXCEPT ![c] = [cl[c] EXCEPT !.pc = pc]]
      BY <1>4
    <2>2. [cl[c] EXCEPT !.pc = pc] \in ClientType
      BY <1>2 DEF ClientType
    <2>3. cl' \in [Clients -> ClientType]
      BY <1>2, <2>1, <2>2
    <2>4. /\ cl'[c].pc = pc /\ cl'[c].ended = cl[c].ended
          /\ \A d \in Clients \ {c} : cl'[d] = cl[d]
      BY <1>2, <2>1 DEF ClientType
    <2> QED BY <1>1, <1>4, <2>3, <2>4, ClientGoesOn
  <1>5. CASE Finish(c)
    BY <1>4, <1>5 DEF Finish, Stops
  <1>6. CASE AskAgain(c)
    BY <1>4, <1>6 DEF AskAgain, Stops
  <1>7. CASE Leave(c)
    BY <1>4, <1>7 DEF Leave
  <1> QED BY <1>3, <1>5, <1>6, <1>7

\* of a connection's descriptor that is closed, no place is left
LEMMA CloseEnds ==
  ASSUME EndInv, Table', NEW f \in Fds,
         fds' = [fds EXCEPT ![f] = None], cl' = Ends(f, fds),
         UNCHANGED <<queue, line, moment, alive>>
  PROVE  EndInv'
  <1>1. fds \in [Fds -> Clients \union {None, File}] /\ cl \in [Clients -> ClientType]
    BY DEF EndInv, Types, Table
  <1>2. \A c \in Clients : /\ cl'[c] \in ClientType /\ cl'[c].pc = cl[c].pc
                           /\ cl'[c].ended = IF fds[f] = c THEN TRUE ELSE cl[c].ended
    <2> SUFFICES ASSUME NEW c \in Clients
                 PROVE  /\ cl'[c] \in ClientType /\ cl'[c].pc = cl[c].pc
                        /\ cl'[c].ended = IF fds[f] = c THEN TRUE ELSE cl[c].ended
      OBVIOUS
    <2>1. cl[c] \in ClientType
      BY <1>1
    <2>2. cl'[c] = IF fds[f] = c THEN [cl[c] EXCEPT !.ended = TRUE] ELSE cl[c]
      BY DEF Ends
    <2> QED BY <2>1, <2>2 DEF ClientType
  <1>3. Types'
    <2>1. cl' \in [Clients -> ClientType]
      BY <1>2 DEF Ends
    <2> QED BY <2>1 DEF EndInv, Types
  <1>4. OnePlace'
    BY <1>1, ServerAssumption DEF EndInv, OnePlace, Types, Table
  <1>5. \A c \in Clients : Connected(c)' => Connected(c) /\ fds[f] # c
    BY <1>1, ServerAssumption DEF EndInv, OnePlace, Connected
  <1>6. Lasts'
    BY <1>2, <1>5 DEF EndInv, Lasts
  <1>7. EndedByLeaver'
    BY <1>2 DEF EndInv, EndedByLeaver
  <1> QED BY <1>3, <1>4, <1>6, <1>7 DEF EndInv

LEMMA AcceptEnds == EndInv /\ Table' /\ Accept => EndInv'
  <1> SUFFICES ASSUME EndInv, Table', Accept PROVE EndInv'
    OBVIOUS
  <1>1. PICK f \in Lowest : s2' = f
    BY DEF Accept
  <1>2. f \in Fds /\ fds[f] = None
    BY <1>1, LowestIsFree
  <1>3. /\ fds \in [Fds -> Clients \union {None, File}]
        /\ queue \in Seq(Clients) /\ queue # <<>>
        /\ fds' = [fds EXCEPT ![f] = Head(queue)] /\ queue' = Tail(queue)
        /\ UNCHANGED <<line, moment, alive, cl>>
    BY <1>1 DEF Accept, EndInv, Types, Table
  <1>4. /\ Head(queue) = queue[1] /\ Head(queue) \in Clients
        /\ 1 \in 1 .. Len(queue)
        /\ Len(queue') = Len(queue) - 1
        /\ \A i \in 1 .. Len(queue') : i + 1 \in 1 .. Len(queue) /\ queue'[i] = queue[i + 1]
    BY <1>3
  <1>5. OnePlace'
    <2>1. \A g, h \in Fds : fds'[g] \in Clients /\ fds'[g] = fds'[h] => g = h
      BY <1>2, <1>3, <1>4 DEF EndInv, OnePlace
    <2>2. \A i, j \in 1 .. Len(queue') : queue'[i] = queue'[j] => i = j
      BY <1>4 DEF EndInv, OnePlace
    <2>3. \A g \in Fds, i \in 1 .. Len(queue') : fds'[g] # queue'[i]
      <3> SUFFICES ASSUME NEW g \in Fds, NEW i \in 1 .. Len(queue') PROVE fds'[g] # queue'[i]
        OBVIOUS
      <3>1. CASE g = f
        BY <3>1, <1>2, <1>3, <1>4 DEF EndInv, OnePlace
      <3>2. CASE g # f
        BY <3>2, <1>3, <1>4 DEF EndInv, OnePlace
      <3> QED BY <3>1, <3>2
    <2> QED BY <2>1, <2>2, <2>3 DEF OnePlace
  <1>6. \A c \in Clients : Connected(c)' => Connected(c)
    <2> SUFFICES ASSUME NEW c \in Clients, Connected(c)' PROVE Connected(c)
      OBVIOUS
    <2>1. CASE \E g \in Fds : fds'[g] = c
      BY <2>1, <1>2, <1>3, <1>4 DEF Connected
    <2>2. CASE \E i \in 1 .. Len(queue') : queue'[i] = c
      BY <2>2, <1>4 DEF Connected
    <2> QED BY <2>1, <2>2 DEF Connected
  <1> QED BY <1>3, <1>5, <1>6 DEF EndInv, Types, Lasts, EndedByLeaver

LEMMA ConnectEnds ==
  ASSUME EndInv, Table', NEW c \in Clients, NEW request \in Requests, Connect(c, request)
  PROVE  EndInv'
  <1>1. cl \in [Clients -> ClientType] /\ cl[c] \in ClientType /\ queue \in Seq(Clients)
        /\ alive \in BOOLEAN /\ cl[c].pc = "new"
    BY DEF Connect, EndInv, Types, Table
  <1>2. cl' = [cl EXCEPT ![c] = [cl[c] EXCEPT !.pc = "connected", !.asks = request,
                                              !.met = alive, !.ended = ~alive]]
    BY DEF Connect
  <1>3. [cl[c] EXCEPT !.pc = "connected", !.asks = request, !.met = alive, !.ended = ~alive]
          \in ClientType
    BY <1>1 DEF ClientType, Asked
  <1>4. cl' \in [Clients -> ClientType]
    BY <1>1, <1>2, <1>3
  <1>5. /\ cl'[c].pc = "connected" /\ cl'[c].ended = ~alive
        /\ \A d \in Clients \ {c} : cl'[d] = cl[d]
    BY <1>1, <1>2 DEF ClientType
  <1>6. /\ UNCHANGED <<fds, line, moment, alive>>
        /\ queue' = IF alive THEN Append(queue, c) ELSE queue
    BY DEF Connect, server
  <1>7. Types'
    BY <1>4, <1>6 DEF EndInv, Types
  <1>8. EndedByLeaver'
    BY <1>1, <1>5, <1>6 DEF EndInv, EndedByLeaver
  <1>9. CASE ~alive
    <2>1. queue' = queue
      BY <1>6, <1>9
    <2> QED BY <1>6, <1>7, <1>8, <1>9, <2>1 DEF EndInv, OnePlace, Lasts
  <1>10. CASE alive
    <2>1. ~Connected(c)
      BY <1>1, <1>10 DEF EndInv, Lasts
    <2>2. /\ Len(queue') = Len(queue) + 1 /\ queue'[Len(queue')] = c
          /\ \A i \in 1 .. Len(queue) : queue'[i] = queue[i]
          /\ Len(queue) \in Nat
      BY <1>1, <1>6, <1>10
    <2>3. \A i \in 1 .. Len(queue') : i \in 1 .. Len(queue) \/ i = Len(queue')
      BY <2>2
    <2>4. OnePlace'
      <3>1. \A i, j \in 1 .. Len(queue') : queue'[i] = queue'[j] => i = j
        BY <2>1, <2>2, <2>3 DEF EndInv, OnePlace, Connected
      <3>2. \A f \in Fds, i \in 1 .. Len(queue') : fds[f] # queue'[i]
        BY <2>1, <2>2, <2>3 DEF EndInv, OnePlace, Connected
      <3> QED BY <1>6, <3>1, <3>2 DEF EndInv, OnePlace
    <2>5. \A d \in Clients : Connected(d)' => Connected(d) \/ d = c
      BY <1>6, <2>2, <2>3 DEF Connected
    <2>6. Lasts'
      BY <1>5, <1>6, <1>10, <2>5 DEF EndInv, Lasts
    <2> QED BY <1>7, <1>8, <2>4, <2>6 DEF EndInv
  <1> QED BY <1>1, <1>9, <1>10

\* the one step that ends the daemon: the client of the server's connection
\* has gone, and saw no end of it
LEMMA PrintLineEnds == EndInv /\ Table' /\ PrintLine => EndInv'
  <1> SUFFICES ASSUME EndInv, Table', PrintLine PROVE EndInv'
    OBVIOUS
  <1>1. /\ cl \in [Clients -> ClientType] /\ s2 \in Fds /\ alive
        /\ UNCHANGED <<fds, queue, line, moment>>
        /\ line \in Asked /\ moment \in Nat
    BY DEF PrintLine, EndInv, Types, Table
  <1>2. OnePlace'
    BY <1>1 DEF EndInv, OnePlace
  <1>3. \A c \in Clients : Connected(c)' = Connected(c)
    BY <1>1 DEF Connected
  <1>4. CASE Peer \in Clients /\ Gone(Peer)
    <2>1. /\ alive' = FALSE
          /\ cl' = [c \in Clients |-> [cl[c] EXCEPT !.ended = TRUE]]
      BY <1>4 DEF PrintLine
    <2>2. \A c \in Clients : cl'[c] \in ClientType /\ cl'[c].pc = cl[c].pc
      BY <1>1, <2>1 DEF ClientType
    <2>3. Types'
      <3>1. cl' \in [Clients -> ClientType]
        BY <2>1, <2>2
      <3> QED BY <1>1, <3>1 DEF EndInv, Types
    <2>4. Connected(Peer)
      BY <1>1 DEF Connected, Peer
    <2>5. cl[Peer].pc = "left"
      BY <1>1, <1>4, <2>4 DEF EndInv, Lasts, Gone
    <2>6. EndedByLeaver'
      BY <1>4, <2>2, <2>5 DEF EndedByLeaver
    <2> QED BY <1>2, <2>1, <2>3, <2>6 DEF EndInv, Lasts
  <1>5. CASE ~(Peer \in Clients /\ Gone(Peer))
    <2>1. /\ alive' = alive
          /\ cl' = [c \in Clients |-> IF Peer = c
                      THEN [cl[c] EXCEPT !.got = Append(@, <<line, moment>>)] ELSE cl[c]]
      BY <1>5 DEF PrintLine
    <2>2. \A c \in Clients : /\ cl'[c] \in ClientType
                             /\ cl'[c].pc = cl[c].pc /\ cl'[c].ended = cl[c].ended
      <3> SUFFICES ASSUME NEW c \in Clients
                   PROVE  /\ cl'[c] \in ClientType
                          /\ cl'[c].pc = cl[c].pc /\ cl'[c].ended = cl[c].ended
        OBVIOUS
      <3>1. cl[c] \in ClientType /\ Append(cl[c].got, <<line, moment>>) \in Seq(Asked \X Nat)
        BY <1>1 DEF ClientType
      <3>2. cl'[c] = cl[c] \/ cl'[c] = [cl[c] EXCEPT !.got = Append(cl[c].got, <<line, moment>>)]
        BY <2>1
      <3> QED BY <3>1, <3>2 DEF ClientType
    <2>3. Types'
      <3>1. cl' \in [Clients -> ClientType]
        BY <2>1, <2>2
      <3> QED BY <1>1, <3>1 DEF EndInv, Types
    <2>4. Lasts'
      BY <1>3, <2>1, <2>2 DEF EndInv, Lasts
    <2>5. EndedByLeaver'
      BY <2>1, <1>1 DEF EndedByLeaver
    <2> QED BY <1>2, <2>3, <2>4, <2>5 DEF EndInv
  <1> QED BY <1>4, <1>5

LEMMA EndNext == DescriptorInv /\ EndInv /\ [SvNext]_svVars => EndInv'
  <1> SUFFICES ASSUME DescriptorInv, EndInv, [SvNext]_svVars PROVE EndInv'
    OBVIOUS
  <1>0. Table' /\ line \in Asked /\ moment \in Nat
    BY DescriptorsNext DEF DescriptorInv, EndInv, Types
  <1>1. CASE UNCHANGED svVars
    BY <1>0, <1>1, EndKept DEF svVars, daemon, server
  <1>2. CASE ReadLine
    <2>1. line' \in Asked
      BY <1>0, <1>2 DEF ReadLine, EndInv, Types, ClientType
    <2> QED BY <1>0, <1>2, <2>1, EndKept DEF ReadLine
  <1>3. CASE ReadFails \/ Lock \/ Printed
    BY <1>0, <1>3, EndKept DEF ReadFails, Lock, Printed
  <1>4. CASE Store
    BY <1>0, <1>4, EndKept DEF Store, server
  <1>5. CASE Close
    <2>1. s2 \in Fds
      BY <1>5 DEF Close, EndInv, Types, Table
    <2> QED BY <1>0, <1>5, <2>1, CloseEnds DEF Close
  <1>6. CASE CloseFile
    <2>1. file \in Fds
      BY <1>6 DEF CloseFile, EndInv, Types, Table
    <2> QED BY <1>0, <1>6, <2>1, CloseEnds DEF CloseFile, server
  <1>7. CASE OpenFile
    <2>1. PICK f \in Lowest : file' = f
      BY <1>7 DEF OpenFile
    <2>2. f \in Fds /\ fds[f] = None
      BY <2>1, LowestIsFree
    <2>3. /\ fds \in [Fds -> Clients \union {None, File}]
          /\ fds' = [fds EXCEPT ![f] = File]
          /\ UNCHANGED <<queue, line, moment, alive, cl>>
      BY <1>7, <2>1 DEF OpenFile, server, EndInv, Types, Table
    <2>4. /\ queue \in Seq(Clients)
          /\ \A i \in 1 .. Len(queue) : queue[i] # File
      BY ServerAssumption DEF EndInv, Types, Table
    <2>5. OnePlace'
      BY <2>2, <2>3, <2>4, ServerAssumption DEF EndInv, OnePlace
    <2>6. \A c \in Clients : Connected(c)' => Connected(c)
      BY <2>2, <2>3, ServerAssumption DEF Connected
    <2> QED BY <1>0, <2>3, <2>5, <2>6 DEF EndInv, Types, Lasts, EndedByLeaver
  <1>8. ASSUME NEW c \in Clients, NEW request \in Requests, Connect(c, request)
        PROVE  EndInv'
    BY <1>0, <1>8, ConnectEnds
  <1>9. ASSUME NEW c \in Clients, Ask(c) \/ Finish(c) \/ AskAgain(c) \/ Leave(c)
        PROVE  EndInv'
    BY <1>9, ClientsStep
  <1>10. CASE Accept
    BY <1>0, <1>10, AcceptEnds
  <1>11. CASE PrintLine
    BY <1>0, <1>11, PrintLineEnds
  <1> QED BY <1>1, <1>2, <1>3, <1>4, <1>5, <1>6, <1>7, <1>8, <1>9, <1>10, <1>11
          DEF SvNext, ServerThread

\* Only a client that was ended before its answer ends the daemon: for any
\* number of clients, which may ask again, and whatever descriptors the other
\* threads open and close.
THEOREM DaemonEndedByLeaver == SvSpec => []EndedByLeaver
  <1>1. EndInv => EndedByLeaver
    BY DEF EndInv
  <1> QED BY <1>1, EndInit, EndNext, DescriptorsInvariant, PTL DEF SvSpec

-----------------------------------------------------------------------------
(* The answers                                                             *)

LinesOf(request) == IF request = "ring" THEN Lines ELSE 1

Own(c) == \A k \in DOMAIN cl[c].got : cl[c].got[k][1] = cl[c].asks

\* the whole answer to the request of c
Full(c) ==
  /\ Len(cl[c].got) = LinesOf(cl[c].asks) /\ Own(c)
  /\ cl[c].asks = "ring" => \A k \in DOMAIN cl[c].got : cl[c].got[k] = cl[c].got[1]

\* what is still to print, with what c has, makes its answer, all of it of
\* the moment that the io thread cannot leave while the ring is printed
PartOf(c) ==
  /\ line = cl[c].asks /\ Own(c)
  /\ left \in Nat /\ Len(cl[c].got) + left = LinesOf(line)
  /\ sv = "lock" => cl[c].got = <<>>
  /\ sv = "print" /\ line = "ring" =>
       iolock /\ \A k \in DOMAIN cl[c].got : cl[c].got[k][2] = moment

\* where the answer to c has come, unless c has left
AnswerOf(c) ==
  /\ cl[c].pc # "new" => cl[c].met /\ cl[c].asks \in Requests
  /\ cl[c].pc = "new" \/ (\E i \in 1 .. Len(queue) : queue[i] = c) => cl[c].got = <<>>
  /\ sv # "accept" /\ fds[s2] = c =>
       /\ sv = "read" => cl[c].got = <<>>
       /\ sv \in {"lock", "print"} => PartOf(c)
       /\ sv = "closeIn" => Full(c)
  /\ cl[c].ended => Full(c)

AnswerInv ==
  ~gap /\ alive =>
    /\ iolock => sv = "print"
    /\ \A c \in Clients : cl[c].pc # "left" => AnswerOf(c)

-----------------------------------------------------------------------------
LEMMA AnswersInit == SvInit => AnswerInv
  BY ServerAssumption DEF SvInit, NoClient, AnswerInv, AnswerOf

\* what a client has and what the server does for it are as they were
LEMMA AnswerStays ==
  ASSUME NEW c \in Clients, AnswerOf(c),
         cl'[c].got = cl[c].got, cl'[c].asks = cl[c].asks, cl'[c].met = cl[c].met,
         cl'[c].ended = cl[c].ended, cl'[c].pc = "new" <=> cl[c].pc = "new",
         (\E i \in 1 .. Len(queue') : queue'[i] = c) => \E i \in 1 .. Len(queue) : queue[i] = c,
         sv' # "accept" /\ fds'[s2'] = c =>
           sv # "accept" /\ fds[s2] = c /\ UNCHANGED <<sv, line, left, iolock, moment>>
  PROVE  AnswerOf(c)'
  <1>1. Full(c) => Full(c)'
    BY DEF Full, Own
  <1>2. sv' # "accept" /\ fds'[s2'] = c /\ PartOf(c) => PartOf(c)'
    BY DEF PartOf, Own
  <1> QED BY <1>1, <1>2 DEF AnswerOf

LEMMA AnswersAccept ==
  ASSUME DescriptorInv, EndInv, AnswerInv, Accept
  PROVE  AnswerInv'
  <1> SUFFICES ASSUME ~gap, alive PROVE AnswerInv'
    BY DEF Accept, AnswerInv
  <1>1. PICK f \in Lowest : s2' = f
    BY DEF Accept
  <1>2. f \in Fds /\ fds[f] = None
    BY <1>1, LowestIsFree
  <1>3. /\ fds \in [Fds -> Clients \union {None, File}]
        /\ queue \in Seq(Clients) /\ queue # <<>> /\ sv = "accept" /\ sv' = "read"
        /\ fds' = [fds EXCEPT ![f] = Head(queue)] /\ queue' = Tail(queue)
        /\ UNCHANGED <<line, left, iolock, moment, cl>>
    BY <1>1 DEF Accept, EndInv, Types, Table
  <1>4. /\ fds'[s2'] = queue[1] /\ 1 \in 1 .. Len(queue)
        /\ \A i \in 1 .. Len(queue') : i + 1 \in 1 .. Len(queue) /\ queue'[i] = queue[i + 1]
    BY <1>1, <1>2, <1>3
  <1>5. ASSUME NEW c \in Clients, cl[c].pc # "left" PROVE AnswerOf(c)'
    <2>1. AnswerOf(c)
      BY <1>5 DEF AnswerInv
    <2>2. (\E i \in 1 .. Len(queue') : queue'[i] = c) => \E i \in 1 .. Len(queue) : queue[i] = c
      BY <1>4
    <2>3. CASE fds'[s2'] = c
      <3>1. cl[c].got = <<>>
        BY <2>1, <2>3, <1>4 DEF AnswerOf
      <3>2. Full(c) => Full(c)'
        BY <1>3 DEF Full, Own
      <3> QED BY <1>3, <2>1, <2>2, <3>1, <3>2 DEF AnswerOf
    <2>4. CASE fds'[s2'] # c
      BY <1>3, <2>1, <2>2, <2>4, AnswerStays
    <2> QED BY <2>3, <2>4
  <1> QED BY <1>3, <1>5 DEF AnswerInv

\* the client of the server's connection: it waits for its answer
LEMMA PeerWaits ==
  ASSUME EndInv, alive, NEW c \in Clients, sv # "accept", fds[s2] = c
  PROVE  /\ ~cl[c].ended /\ cl[c].pc \in {"connected", "reads", "left"}
         /\ \A i \in 1 .. Len(queue) : queue[i] # c
  <1>1. s2 \in Fds
    BY DEF EndInv, Types, Table
  <1>2. Connected(c)
    BY <1>1 DEF Connected
  <1>3. cl[c].pc \in {"new", "connected", "reads", "done", "left", "broken"}
    BY DEF EndInv, Types, ClientType
  <1> QED BY <1>1, <1>2, <1>3 DEF EndInv, OnePlace, Lasts

LEMMA AnswersRead ==
  ASSUME DescriptorInv, EndInv, AnswerInv, ReadLine
  PROVE  AnswerInv'
  <1> SUFFICES ASSUME ~gap, alive PROVE AnswerInv'
    BY DEF ReadLine, AnswerInv
  <1>1. /\ sv = "read" /\ UNCHANGED <<fds, queue, s2, iolock, moment, cl>>
        /\ ~iolock /\ sv' \in {"lock", "print"}
    BY DEF ReadLine, AnswerInv
  <1>2. ASSUME NEW c \in Clients, cl[c].pc # "left" PROVE AnswerOf(c)'
    <2>1. AnswerOf(c)
      BY <1>2 DEF AnswerInv
    <2>2. CASE fds[s2] = c
      <3>1. ~cl[c].ended /\ cl[c].pc \in {"connected", "reads"} /\ cl[c].got = <<>>
        BY <1>1, <1>2, <2>1, <2>2, PeerWaits DEF AnswerOf
      <3>2. cl[c].asks \in Requests /\ cl[c].met
        BY <2>1, <3>1 DEF AnswerOf
      <3>3. line' = cl[c].asks
        BY <2>2, <3>1 DEF ReadLine, Peer, Gone
      <3>4. /\ sv' = IF line' = "ring" THEN "lock" ELSE "print"
            /\ left' = LinesOf(line')
        BY <3>2, <3>3, ServerAssumption DEF ReadLine, Requests, LinesOf
      <3>5. LinesOf(line') \in Nat
        BY ServerAssumption DEF LinesOf
      <3>6. Len(<<>>) = 0 /\ DOMAIN <<>> = {}
        OBVIOUS
      <3>7. PartOf(c)'
        BY <1>1, <3>1, <3>3, <3>4, <3>5, <3>6 DEF PartOf, Own, LinesOf
      <3> QED BY <1>1, <2>1, <3>1, <3>2, <3>7 DEF AnswerOf
    <2>3. CASE fds[s2] # c
      BY <1>1, <2>1, <2>3, AnswerStays
    <2> QED BY <2>2, <2>3
  <1> QED BY <1>1, <1>2 DEF AnswerInv

LEMMA AnswersLock ==
  ASSUME DescriptorInv, EndInv, AnswerInv, Lock
  PROVE  AnswerInv'
  <1> SUFFICES ASSUME ~gap, alive PROVE AnswerInv'
    BY DEF Lock, AnswerInv
  <1>1. /\ sv = "lock" /\ sv' = "print" /\ iolock'
        /\ UNCHANGED <<fds, queue, s2, line, left, moment, cl>>
    BY DEF Lock
  <1>2. ASSUME NEW c \in Clients, cl[c].pc # "left" PROVE AnswerOf(c)'
    <2>1. AnswerOf(c)
      BY <1>2 DEF AnswerInv
    <2>2. CASE fds[s2] = c
      <3>1. PartOf(c)
        BY <1>1, <2>1, <2>2 DEF AnswerOf
      <3>2. DOMAIN cl[c].got = {}
        BY <1>1, <3>1 DEF PartOf
      <3>3. PartOf(c)'
        BY <1>1, <3>1, <3>2 DEF PartOf, Own
      <3>4. Full(c) => Full(c)'
        BY <1>1 DEF Full, Own
      <3> QED BY <1>1, <2>1, <3>3, <3>4 DEF AnswerOf
    <2>3. CASE fds[s2] # c
      BY <1>1, <2>1, <2>3, AnswerStays
    <2> QED BY <2>2, <2>3
  <1> QED BY <1>1, <1>2 DEF AnswerInv

LEMMA AnswersPrint ==
  ASSUME DescriptorInv, EndInv, AnswerInv, PrintLine
  PROVE  AnswerInv'
  <1> SUFFICES ASSUME ~gap, alive, alive' PROVE AnswerInv'
    BY DEF PrintLine, AnswerInv
  <1>1. /\ sv = "print" /\ left > 0 /\ left' = left - 1
        /\ UNCHANGED <<fds, queue, sv, s2, line, iolock, moment>>
        /\ cl' = [c \in Clients |-> IF Peer = c
                    THEN [cl[c] EXCEPT !.got = Append(@, <<line, moment>>)] ELSE cl[c]]
    BY DEF PrintLine
  <1>2. /\ cl \in [Clients -> ClientType] /\ line \in Asked /\ moment \in Nat
    BY DEF EndInv, Types
  <1>3. ASSUME NEW c \in Clients, cl'[c].pc # "left" PROVE AnswerOf(c)'
    <2>1. CASE Peer = c
      <3>1. cl[c] \in ClientType /\ cl[c].got \in Seq(Asked \X Nat)
        BY <1>2 DEF ClientType
      <3>2. cl'[c] = [cl[c] EXCEPT !.got = Append(cl[c].got, <<line, moment>>)]
        BY <1>1, <2>1
      <3>3. /\ cl'[c].got = Append(cl[c].got, <<line, moment>>)
            /\ cl'[c].asks = cl[c].asks /\ cl'[c].met = cl[c].met
            /\ cl'[c].ended = cl[c].ended /\ cl'[c].pc = cl[c].pc
        BY <3>1, <3>2 DEF ClientType
      <3>4. fds[s2] = c /\ AnswerOf(c)
        BY <1>3, <2>1, <3>3 DEF AnswerInv, Peer
      <3>5. /\ ~cl[c].ended /\ cl[c].pc # "new" /\ cl[c].met /\ cl[c].asks \in Requests
            /\ \A i \in 1 .. Len(queue) : queue[i] # c
        BY <1>1, <3>4, PeerWaits DEF AnswerOf
      <3>6. PartOf(c)
        BY <1>1, <3>4 DEF AnswerOf
      <3>7. /\ Len(cl'[c].got) = Len(cl[c].got) + 1 /\ Len(cl[c].got) \in Nat
            /\ \A k \in DOMAIN cl'[c].got :
                 \/ k \in DOMAIN cl[c].got /\ cl'[c].got[k] = cl[c].got[k]
                 \/ cl'[c].got[k] = <<line, moment>>
        BY <1>2, <3>1, <3>3
      <3>8. left \in Nat /\ Len(cl[c].got) + left = LinesOf(line) /\ line = cl[c].asks
        BY <3>6 DEF PartOf
      <3>9. left' \in Nat /\ Len(cl'[c].got) + left' = LinesOf(line')
        <4>1. LinesOf(line) \in Nat /\ LinesOf(line') = LinesOf(line)
          BY <1>1, ServerAssumption DEF LinesOf
        <4>2. left' \in Nat /\ left' = left - 1
          BY <1>1, <3>8
        <4> QED BY <3>7, <3>8, <4>1, <4>2
      <3>10. Own(c)'
        BY <3>3, <3>6, <3>7 DEF PartOf, Own
      <3>11. line' = "ring" => iolock' /\ \A k \in DOMAIN cl'[c].got : cl'[c].got[k][2] = moment'
        BY <1>1, <3>6, <3>7 DEF PartOf
      <3>12. PartOf(c)'
        BY <1>1, <3>3, <3>8, <3>9, <3>10, <3>11 DEF PartOf, LinesOf
      <3> QED BY <1>1, <3>3, <3>4, <3>5, <3>12 DEF AnswerOf
    <2>2. CASE Peer # c
      <3>1. cl'[c] = cl[c] /\ AnswerOf(c)
        BY <1>1, <1>3, <2>2 DEF AnswerInv
      <3> QED BY <1>1, <2>2, <3>1, AnswerStays DEF Peer
    <2> QED BY <2>1, <2>2
  <1> QED BY <1>1, <1>3 DEF AnswerInv

LEMMA AnswersPrinted ==
  ASSUME DescriptorInv, EndInv, AnswerInv, Printed
  PROVE  AnswerInv'
  <1> SUFFICES ASSUME ~gap, alive PROVE AnswerInv'
    BY DEF Printed, AnswerInv
  <1>1. /\ sv = "print" /\ left = 0 /\ sv' = "closeIn" /\ ~iolock'
        /\ UNCHANGED <<fds, queue, s2, line, left, moment, cl>>
    BY DEF Printed
  <1>2. ASSUME NEW c \in Clients, cl[c].pc # "left" PROVE AnswerOf(c)'
    <2>1. AnswerOf(c)
      BY <1>2 DEF AnswerInv
    <2>2. CASE fds[s2] = c
      <3>1. PartOf(c)
        BY <1>1, <2>1, <2>2 DEF AnswerOf
      <3>2. cl[c].got \in Seq(Asked \X Nat)
        BY DEF EndInv, Types, ClientType
      <3>3. Len(cl[c].got) = LinesOf(cl[c].asks) /\ Own(c)
        BY <1>1, <3>1, <3>2 DEF PartOf
      <3>4. ASSUME cl[c].asks = "ring", NEW k \in DOMAIN cl[c].got
            PROVE  cl[c].got[k] = cl[c].got[1]
        <4>1. 1 \in DOMAIN cl[c].got
          BY <3>2, <3>4
        <4>2. \A j \in DOMAIN cl[c].got :
                cl[c].got[j] \in Asked \X Nat /\ cl[c].got[j][1] = line /\ cl[c].got[j][2] = moment
          BY <1>1, <3>1, <3>2, <3>4 DEF PartOf, Own
        <4>3. \A j \in DOMAIN cl[c].got : cl[c].got[j] = <<line, moment>>
          BY <4>2
        <4> QED BY <3>4, <4>1, <4>3
      <3>5. Full(c)
        BY <3>3, <3>4 DEF Full
      <3>6. Full(c)'
        BY <1>1, <3>5 DEF Full, Own
      <3> QED BY <1>1, <2>1, <3>6 DEF AnswerOf
    <2>3. CASE fds[s2] # c
      BY <1>1, <2>1, <2>3, AnswerStays
    <2> QED BY <2>2, <2>3
  <1> QED BY <1>1, <1>2 DEF AnswerInv

LEMMA AnswersClose ==
  ASSUME DescriptorInv, EndInv, AnswerInv, Close
  PROVE  AnswerInv'
  <1> SUFFICES ASSUME ~gap, alive PROVE AnswerInv'
    BY DEF Close, AnswerInv
  <1>1. /\ sv \in CloseSteps /\ s2 \in Fds /\ sv' = After(sv)
        /\ fds' = [fds EXCEPT ![s2] = None] /\ cl' = Ends(s2, fds)
        /\ UNCHANGED <<queue, s2, line, left, iolock, moment>>
    BY DEF Close, CloseSteps, EndInv, Types, Table
  <1>2. fds \in [Fds -> Clients \union {None, File}] /\ cl \in [Clients -> ClientType]
    BY DEF EndInv, Types, Table
  <1>3. fds'[s2'] = None /\ ~iolock' /\ sv' \notin {"read", "lock", "print", "closeIn"}
    BY <1>1, <1>2 DEF AnswerInv, CloseSteps, After
  <1>4. ASSUME NEW c \in Clients, cl'[c].pc # "left" PROVE AnswerOf(c)'
    <2>1. CASE fds[s2] = c
      <3>1. sv = "closeIn"
        BY <1>1, <2>1, ServerAssumption DEF CloseSteps, DescriptorInv, FreeBetween
      <3>2. cl'[c] = [cl[c] EXCEPT !.ended = TRUE] /\ cl[c] \in ClientType
        BY <1>1, <1>2, <2>1 DEF Ends
      <3>3. /\ cl'[c].got = cl[c].got /\ cl'[c].asks = cl[c].asks /\ cl'[c].met = cl[c].met
            /\ cl'[c].pc = cl[c].pc
        BY <3>2 DEF ClientType
      <3>4. AnswerOf(c)
        BY <1>4, <3>3 DEF AnswerInv
      <3>5. Full(c)
        BY <2>1, <3>1, <3>4 DEF AnswerOf
      <3>6. Full(c)'
        BY <3>3, <3>5 DEF Full, Own
      <3>7. c # None
        BY ServerAssumption
      <3> QED BY <1>1, <1>3, <3>3, <3>4, <3>6, <3>7 DEF AnswerOf
    <2>2. CASE fds[s2] # c
      <3>1. cl'[c] = cl[c]
        BY <1>1, <2>2 DEF Ends
      <3>2. AnswerOf(c) /\ c # None
        BY <1>4, <3>1, ServerAssumption DEF AnswerInv
      <3> QED BY <1>1, <1>3, <3>1, <3>2, AnswerStays
    <2> QED BY <2>1, <2>2
  <1> QED BY <1>3, <1>4 DEF AnswerInv

\* the other threads' files are none of the connections
LEMMA AnswersFiles ==
  ASSUME DescriptorInv, EndInv, AnswerInv, OpenFile \/ CloseFile
  PROVE  AnswerInv'
  <1>0. (gap => gap') /\ alive' = alive
    BY DEF OpenFile, CloseFile, DescriptorInv, Table
  <1> SUFFICES ASSUME ~gap, alive PROVE AnswerInv'
    BY <1>0 DEF AnswerInv
  <1>1. /\ fds \in [Fds -> Clients \union {None, File}] /\ cl \in [Clients -> ClientType]
        /\ sv # "accept" => s2 \in Fds
    BY DEF EndInv, Types, Table
  <1>2. UNCHANGED <<queue, sv, s2, line, left, iolock, moment>>
    BY DEF OpenFile, CloseFile, server
  <1>3. PICK f \in Fds, v \in {None, File} : fds' = [fds EXCEPT ![f] = v]
    <2>1. CASE OpenFile
      BY <2>1, LowestIsFree DEF OpenFile
    <2>2. CASE CloseFile
      BY <2>2 DEF CloseFile, DescriptorInv, Table
    <2> QED BY <2>1, <2>2
  <1>4. \A c \in Clients : cl'[c] = cl[c]
    <2>1. CASE OpenFile
      BY <2>1 DEF OpenFile
    <2>2. CASE CloseFile
      <3>1. cl' = Ends(file, fds) /\ fds[file] = File
        BY <2>2 DEF CloseFile, DescriptorInv, OwnDescriptors
      <3> QED BY <3>1, ServerAssumption DEF Ends
    <2> QED BY <2>1, <2>2
  <1>5. ASSUME NEW c \in Clients, cl'[c].pc # "left" PROVE AnswerOf(c)'
    <2>1. AnswerOf(c)
      BY <1>4, <1>5 DEF AnswerInv
    <2>2. sv' # "accept" /\ fds'[s2'] = c => fds[s2] = c
      BY <1>1, <1>2, <1>3, ServerAssumption
    <2> QED BY <1>2, <1>4, <2>1, <2>2, AnswerStays
  <1> QED BY <1>2, <1>5 DEF AnswerInv

LEMMA AnswersConnect ==
  ASSUME EndInv, AnswerInv, NEW c \in Clients, NEW request \in Requests, Connect(c, request)
  PROVE  AnswerInv'
  <1> SUFFICES ASSUME ~gap, alive PROVE AnswerInv'
    BY DEF Connect, AnswerInv
  <1>1. cl \in [Clients -> ClientType] /\ cl[c] \in ClientType /\ queue \in Seq(Clients)
        /\ cl[c].pc = "new" /\ (sv # "accept" => s2 \in Fds)
    BY DEF Connect, EndInv, Types, Table
  <1>2. /\ cl' = [cl EXCEPT ![c] = [cl[c] EXCEPT !.pc = "connected", !.asks = request,
                                                 !.met = alive, !.ended = ~alive]]
        /\ queue' = Append(queue, c)
        /\ UNCHANGED <<fds, sv, s2, line, left, iolock, moment>>
    BY DEF Connect, server
  <1>3. /\ cl'[c].pc = "connected" /\ cl'[c].asks = request /\ cl'[c].met = alive
        /\ cl'[c].ended = ~alive /\ cl'[c].got = cl[c].got
        /\ \A d \in Clients \ {c} : cl'[d] = cl[d]
    BY <1>1, <1>2 DEF ClientType
  <1>4. \A i \in 1 .. Len(queue') : queue'[i] = c \/ (i \in 1 .. Len(queue) /\ queue'[i] = queue[i])
    BY <1>1, <1>2
  <1>5. AnswerOf(c)'
    <2>1. sv # "accept" => fds[s2] # c
      BY <1>1 DEF EndInv, Lasts, Connected
    <2>2. AnswerOf(c)
      BY <1>1 DEF AnswerInv
    <2>3. cl[c].got = <<>>
      BY <1>1, <2>2 DEF AnswerOf
    <2> QED BY <1>2, <1>3, <2>1, <2>3 DEF AnswerOf
  <1>6. ASSUME NEW d \in Clients \ {c}, cl[d].pc # "left" PROVE AnswerOf(d)'
    <2>1. AnswerOf(d)
      BY <1>6 DEF AnswerInv
    <2>2. (\E i \in 1 .. Len(queue') : queue'[i] = d) => \E i \in 1 .. Len(queue) : queue[i] = d
      BY <1>4, <1>6
    <2> QED BY <1>2, <1>3, <1>6, <2>1, <2>2, AnswerStays
  <1>7. iolock' => sv' = "print"
    BY <1>2 DEF AnswerInv
  <1> QED BY <1>3, <1>5, <1>6, <1>7 DEF AnswerInv

LEMMA AnswersClient ==
  ASSUME EndInv, AnswerInv, NEW c \in Clients, Ask(c) \/ Finish(c) \/ AskAgain(c) \/ Leave(c)
  PROVE  AnswerInv'
  <1>0. gap' = gap /\ alive' = alive
    BY DEF Ask, Finish, AskAgain, Leave, daemon
  <1> SUFFICES ASSUME ~gap, alive PROVE AnswerInv'
    BY <1>0 DEF AnswerInv
  <1>1. UNCHANGED <<fds, queue, sv, s2, line, left, iolock, moment>>
        /\ cl[c].pc \in {"connected", "reads"}
    BY DEF Ask, Finish, AskAgain, Leave, daemon, server
  <1>2. cl \in [Clients -> ClientType] /\ cl[c] \in ClientType
    BY DEF EndInv, Types
  <1>3. /\ cl'[c].got = cl[c].got /\ cl'[c].asks = cl[c].asks /\ cl'[c].met = cl[c].met
        /\ cl'[c].ended = cl[c].ended /\ cl'[c].pc # "new"
        /\ \A d \in Clients \ {c} : cl'[d] = cl[d]
    <2>1. CASE Ask(c)
      BY <1>2, <2>1 DEF Ask, ClientType
    <2>2. CASE Finish(c)
      BY <1>2, <2>2 DEF Finish, ClientType
    <2>3. CASE AskAgain(c)
      BY <1>2, <2>3 DEF AskAgain, ClientType
    <2>4. CASE Leave(c)
      BY <1>2, <2>4 DEF Leave, ClientType
    <2> QED BY <2>1, <2>2, <2>3, <2>4
  <1>4. AnswerOf(c)'
    <2>1. AnswerOf(c)
      BY <1>1 DEF AnswerInv
    <2> QED BY <1>1, <1>3, <2>1, AnswerStays
  <1>5. ASSUME NEW d \in Clients \ {c}, cl[d].pc # "left" PROVE AnswerOf(d)'
    <2>1. AnswerOf(d)
      BY <1>5 DEF AnswerInv
    <2> QED BY <1>1, <1>3, <1>5, <2>1, AnswerStays
  <1>6. iolock' => sv' = "print"
    BY <1>1 DEF AnswerInv
  <1> QED BY <1>3, <1>4, <1>5, <1>6 DEF AnswerInv

LEMMA AnswersNext == DescriptorInv /\ EndInv /\ AnswerInv /\ [SvNext]_svVars => AnswerInv'
  <1> SUFFICES ASSUME DescriptorInv, EndInv, AnswerInv, [SvNext]_svVars PROVE AnswerInv'
    OBVIOUS
  <1>1. CASE UNCHANGED svVars
    BY <1>1 DEF svVars, daemon, server, AnswerInv, AnswerOf, PartOf, Full, Own
  <1>2. CASE ReadFails
    BY <1>2 DEF ReadFails, AnswerInv, DescriptorInv, OwnDescriptors
  <1>3. CASE Store
    <2> SUFFICES ASSUME ~gap, alive PROVE AnswerInv'
      BY <1>3 DEF Store, AnswerInv
    <2>1. ~iolock /\ UNCHANGED <<fds, queue, sv, s2, line, left, iolock, cl>>
      BY <1>3 DEF Store, server
    <2>2. ASSUME NEW c \in Clients, cl[c].pc # "left" PROVE AnswerOf(c)'
      <3>1. AnswerOf(c)
        BY <2>2 DEF AnswerInv
      <3>2. PartOf(c) => PartOf(c)'
        BY <2>1 DEF PartOf, Own
      <3>3. Full(c) => Full(c)'
        BY <2>1 DEF Full, Own
      <3> QED BY <2>1, <3>1, <3>2, <3>3 DEF AnswerOf
    <2> QED BY <2>1, <2>2 DEF AnswerInv
  <1> QED BY <1>1, <1>2, <1>3, AnswersAccept, AnswersRead, AnswersLock, AnswersPrint, AnswersPrinted,
             AnswersClose, AnswersFiles, AnswersConnect, AnswersClient
          DEF SvNext, ServerThread

\* A client that is through has the whole answer to its own request, and a
\* ring of one moment: for any number of clients, lines, stores and files, as
\* long as no file is opened between two closes of the server's number.
THEOREM AnswersWhole == SvSpec => []AnswerIsWhole
  <1>1. EndInv /\ AnswerInv => AnswerIsWhole
    <2> SUFFICES ASSUME EndInv, AnswerInv, ~gap, alive, NEW c \in Clients, cl[c].pc = "done"
                 PROVE  Full(c)
      BY DEF AnswerIsWhole, Full, Own, LinesOf
    <2>1. AnswerOf(c) /\ cl[c].ended
      BY DEF AnswerInv, EndInv, Lasts
    <2> QED BY <2>1 DEF AnswerOf
  <1> QED BY <1>1, EndInit, EndNext, AnswersInit, AnswersNext, DescriptorsInvariant, PTL DEF SvSpec

-----------------------------------------------------------------------------
(* The process                                                             *)

HolderInv ==
  /\ proc \in [Pids -> {"new", "open", "locked", "written", "runs", "signalled", "stops", "gone"}]
  /\ \A p \in Pids : Holding(p) => holder = p
  /\ pidFile \in Pids \union {NoPid}

LEMMA HolderInit == LfInit => HolderInv
  BY DEF LfInit, HolderInv, Holding

\* a process goes on without the lock's being taken or given up
LEMMA GoesOn ==
  ASSUME HolderInv, NEW p \in Pids,
         NEW pc \in {"open", "written", "runs", "signalled", "stops", "gone"},
         proc' = [proc EXCEPT ![p] = pc], holder' = holder,
         pidFile' \in Pids \union {NoPid},
         Holding(p) \/ pc \in {"open", "gone"}
  PROVE  HolderInv'
  BY DEF HolderInv, Holding

\* a process that has the lock is gone, and the lock free
LEMMA GivesUp ==
  ASSUME HolderInv, NEW p \in Pids, Holding(p),
         proc' = [proc EXCEPT ![p] = "gone"], holder' = NoPid, pidFile' = pidFile
  PROVE  HolderInv'
  <1>1. \A q \in Pids \ {p} : ~Holding(q)
    BY DEF HolderInv
  <1> QED BY <1>1 DEF HolderInv, Holding

LEMMA SignalKeeps ==
  ASSUME HolderInv, NEW p \in Pids, Signal(p), pidFile' = pidFile
  PROVE  HolderInv'
  <1>1. CASE proc[p] = "runs"
    BY <1>1, GoesOn DEF Signal, Holding, HolderInv
  <1>2. CASE proc[p] = "written"
    BY <1>2, GivesUp DEF Signal, Holding
  <1>3. CASE proc[p] \notin {"written", "runs"}
    BY <1>3 DEF Signal, Holding, HolderInv
  <1> QED BY <1>1, <1>2, <1>3

LEMMA HolderNext == HolderInv /\ [LfNext]_lfVars => HolderInv'
  <1> SUFFICES ASSUME HolderInv, [LfNext]_lfVars PROVE HolderInv'
    OBVIOUS
  <1>1. ASSUME UNCHANGED <<proc, holder, pidFile>> PROVE HolderInv'
    BY <1>1 DEF HolderInv, Holding
  <1>2. CASE UNCHANGED lfVars
    BY <1>1, <1>2 DEF lfVars
  <1>3. ASSUME NEW p \in Pids, LockFile(p) PROVE HolderInv'
    <2>1. CASE holder = NoPid
      <3>1. \A q \in Pids : ~Holding(q)
        BY <2>1, LifecycleAssumption DEF HolderInv
      <3>2. proc' = [proc EXCEPT ![p] = "locked"] /\ holder' = p /\ pidFile' = pidFile
        BY <1>3, <2>1 DEF LockFile
      <3> QED BY <3>1, <3>2 DEF HolderInv, Holding
    <2>2. CASE holder # NoPid
      BY <1>3, <2>2, GoesOn DEF LockFile, HolderInv
    <2> QED BY <2>1, <2>2
  <1>4. ASSUME NEW p \in Pids, WritePid(p) \/ Handle(p) \/ EndLoop(p) PROVE HolderInv'
    BY <1>4, GoesOn DEF WritePid, Handle, EndLoop, Holding, HolderInv
  <1>5. ASSUME NEW p \in Pids, Exit(p) PROVE HolderInv'
    BY <1>5, GivesUp DEF Exit, Holding
  <1>6. ASSUME NEW s \in Scripts, NEW command \in Commands, Give(s, command) PROVE HolderInv'
    BY <1>1, <1>6 DEF Give
  <1>7. ASSUME NEW s \in Scripts, Kill(s) PROVE HolderInv'
    BY <1>1, <1>7, SignalKeeps DEF Kill, HolderInv
  <1>8. ASSUME NEW s \in Scripts, Wake(s) PROVE HolderInv'
    BY <1>1, <1>8 DEF Wake
  <1>9. ASSUME NEW s \in Scripts, NEW p \in Pids, Launch(s, p) PROVE HolderInv'
    BY <1>9, GoesOn DEF Launch, HolderInv
  <1>10. CASE Tick
    BY <1>1, <1>10 DEF Tick
  <1> QED BY <1>2, <1>3, <1>4, <1>5, <1>6, <1>7, <1>8, <1>9, <1>10 DEF LfNext

\* Two processes never have the daemon's threads and databases at once,
\* however many shells start, stop and restart it.
THEOREM OneDaemonEver == LfSpec => []OneDaemon
  <1>1. HolderInv => OneDaemon
    BY DEF HolderInv, OneDaemon
  <1> QED BY <1>1, HolderInit, HolderNext, PTL DEF LfSpec

-----------------------------------------------------------------------------
(* The restart                                                             *)

ScriptType ==
  [pc : {"idle", "launch", "kill", "sleep"}, command : Commands \union {"none"}, timer : Nat,
   hit : Pids \union {NoPid}, pid : Pids \union {NoPid}]

\* half seconds until an ending process is gone
Remains(p) == IF proc[p] = "signalled" THEN timer[p] + StopTime ELSE timer[p]

LastsShort == \A p \in Pids : Ending(p) => Remains(p) < RestartTime

\* Whom a restart has signalled is gone before its pause is over.
GoneInTime(s) ==
  script[s].hit # NoPid =>
    /\ Ending(script[s].hit) \/ proc[script[s].hit] = "gone"
    /\ Ending(script[s].hit) =>
         script[s].pc = "sleep" /\ Remains(script[s].hit) < script[s].timer

\* A launched daemon, or what will launch one, is not lost.
GoesOnLaunching ==
  last = "launched" /\ refused = {} =>
    \/ \E p \in Pids : proc[p] \in {"open", "locked", "written", "runs"}
    \/ \E s \in Scripts : script[s].pc \in {"sleep", "launch"}

RestartInv ==
  /\ timer \in [Pids -> Nat] /\ slow \in BOOLEAN
  /\ script \in [Scripts -> ScriptType]
  /\ holder \in Pids \union {NoPid}
  /\ holder # NoPid => Holding(holder)
  /\ pidFile # NoPid => proc[pidFile] \in {"written", "runs", "signalled", "stops", "gone"}
  /\ \A s \in Scripts : script[s].pid # NoPid => script[s].pc = "idle"
  /\ ~slow => LastsShort /\ \A s \in Scripts : GoneInTime(s)
  /\ "own" \in refused => slow
  /\ GoesOnLaunching

LEMMA RestartInit == LfInit => RestartInv
  <1> SUFFICES ASSUME LfInit PROVE RestartInv
    OBVIOUS
  <1>1. Idle \in ScriptType
    BY DEF Idle, ScriptType
  <1>2. \A s \in Scripts : script[s].hit = NoPid /\ script[s].pid = NoPid
    BY DEF LfInit, Idle
  <1>3. \A p \in Pids : ~Ending(p)
    BY DEF LfInit, Ending
  <1>4. (\A s \in Scripts : GoneInTime(s)) /\ LastsShort /\ GoesOnLaunching
    BY <1>2, <1>3 DEF LfInit, GoneInTime, LastsShort, GoesOnLaunching
  <1> QED BY <1>1, <1>2, <1>4 DEF LfInit, RestartInv

\* Only the lock, the processes and the shells' notes of them change.
LEMMA LockFileRestarts ==
  ASSUME HolderInv, RestartInv, NEW p \in Pids, LockFile(p)
  PROVE  RestartInv'
  <1>1. /\ proc[p] = "open" /\ proc' \in [Pids -> {proc[p], "locked", "gone"} \union {proc[q] : q \in Pids}]
        /\ UNCHANGED <<timer, pidFile, script, last, commands, slow>>
        /\ \A q \in Pids \ {p} : proc'[q] = proc[q]
    BY DEF LockFile, HolderInv
  <1>2. CASE holder = NoPid
    <2>1. proc' = [proc EXCEPT ![p] = "locked"] /\ holder' = p /\ refused' = refused
      BY <1>2 DEF LockFile
    <2>2. \A q \in Pids : Ending(q)' <=> Ending(q)
      BY <1>1, <2>1 DEF Ending, HolderInv
    <2>3. \A q \in Pids : Ending(q) => Remains(q)' = Remains(q)
      BY <1>1, <2>1 DEF Ending, Remains, HolderInv
    <2>4. \A s \in Scripts : GoneInTime(s) => GoneInTime(s)'
      BY <1>1, <2>1, <2>2, <2>3 DEF GoneInTime, RestartInv, ScriptType, HolderInv
    <2>5. LastsShort => LastsShort'
      BY <1>1, <2>2, <2>3 DEF LastsShort
    <2>6. GoesOnLaunching'
      BY <1>1, <2>1 DEF GoesOnLaunching, HolderInv
    <2> QED BY <1>1, <2>1, <2>4, <2>5, <2>6, LifecycleAssumption DEF RestartInv, HolderInv, Holding
  <1>3. CASE holder # NoPid
    <2>1. /\ proc' = [proc EXCEPT ![p] = "gone"] /\ holder' = holder
          /\ refused' = IF Ending(holder) THEN refused \union {By(p)} ELSE refused
      BY <1>3 DEF LockFile
    <2>2. holder \in Pids /\ holder # p /\ Holding(holder)
      BY <1>1, <1>3 DEF RestartInv, Holding
    <2>3. \A q \in Pids : Ending(q)' <=> Ending(q)
      BY <1>1, <2>1 DEF Ending, HolderInv
    <2>4. \A q \in Pids : Ending(q) => Remains(q)' = Remains(q)
      BY <1>1, <2>1 DEF Ending, Remains, HolderInv
    <2>5. \A s \in Scripts : GoneInTime(s) => GoneInTime(s)'
      BY <1>1, <2>1, <2>3, <2>4 DEF GoneInTime, RestartInv, ScriptType, HolderInv
    <2>6. LastsShort => LastsShort'
      BY <1>1, <2>3, <2>4 DEF LastsShort
    <2>7. "own" \in refused' => slow
      <3> SUFFICES ASSUME "own" \in refused', ~slow PROVE FALSE
        OBVIOUS
      <3>1. Ending(holder) /\ By(p) = "own"
        BY <2>1 DEF RestartInv
      <3>2. PICK s \in Scripts : script[s].pid = p /\ script[s].hit = holder
        BY <3>1 DEF By
      <3>3. script[s].pc = "idle"
        BY <3>2, LifecycleAssumption DEF RestartInv
      <3> QED BY <1>3, <3>1, <3>2, <3>3 DEF RestartInv, GoneInTime
    <2>8. GoesOnLaunching'
      <3> SUFFICES ASSUME last = "launched", refused' = {}
                   PROVE  \E q \in Pids : proc'[q] \in {"open", "locked", "written", "runs"}
        BY <1>1 DEF GoesOnLaunching
      <3>1. ~Ending(holder)
        BY <2>1
      <3>2. proc'[holder] \in {"locked", "written", "runs"}
        BY <1>1, <2>2, <3>1 DEF Holding, Ending
      <3> QED BY <2>2, <3>2
    <2> QED BY <1>1, <2>1, <2>2, <2>5, <2>6, <2>7, <2>8 DEF RestartInv, HolderInv, Holding
  <1> QED BY <1>2, <1>3

\* The daemon starts, or its loop ends: the time that remains is the same.
LEMMA DaemonRestarts ==
  ASSUME HolderInv, RestartInv, NEW p \in Pids, WritePid(p) \/ Handle(p) \/ EndLoop(p) \/ Exit(p)
  PROVE  RestartInv'
  <1>1. UNCHANGED <<script, last, commands, slow, refused>>
    BY DEF WritePid, Handle, EndLoop, Exit
  <1>2. CASE WritePid(p) \/ Handle(p)
    <2>1. /\ UNCHANGED <<timer, holder>> /\ (pidFile' = pidFile \/ (pidFile' = p /\ proc'[p] = "written"))
          /\ proc[p] \in {"locked", "written"} /\ proc'[p] \in {"written", "runs"}
          /\ \A q \in Pids \ {p} : proc'[q] = proc[q]
      BY <1>2 DEF WritePid, Handle, HolderInv
    <2>2. \A q \in Pids : (Ending(q)' <=> Ending(q)) /\ (Ending(q) => Remains(q)' = Remains(q))
      BY <2>1 DEF Ending, Remains
    <2>3. \A s \in Scripts : GoneInTime(s) => GoneInTime(s)'
      BY <1>1, <2>1, <2>2 DEF GoneInTime, RestartInv, ScriptType
    <2>4. (LastsShort => LastsShort') /\ GoesOnLaunching'
      BY <1>1, <2>1, <2>2 DEF LastsShort, GoesOnLaunching
    <2> QED BY <1>1, <2>1, <2>3, <2>4 DEF RestartInv, Holding, HolderInv
  <1>3. CASE EndLoop(p)
    <2>1. /\ proc[p] = "signalled" /\ timer[p] = 0 /\ UNCHANGED <<holder, pidFile>>
          /\ proc' = [proc EXCEPT ![p] = "stops"] /\ timer' = [timer EXCEPT ![p] = StopTime]
      BY <1>3 DEF EndLoop
    <2>2. \A q \in Pids : (Ending(q)' <=> Ending(q)) /\ (Ending(q) => Remains(q)' = Remains(q))
      BY <2>1, LifecycleAssumption DEF Ending, Remains, HolderInv, RestartInv
    <2>3. \A s \in Scripts : GoneInTime(s) => GoneInTime(s)'
      BY <1>1, <2>1, <2>2 DEF GoneInTime, RestartInv, ScriptType, HolderInv
    <2>4. (LastsShort => LastsShort') /\ GoesOnLaunching'
      BY <1>1, <2>1, <2>2 DEF LastsShort, GoesOnLaunching, HolderInv, RestartInv
    <2>5. timer' \in [Pids -> Nat]
      BY <2>1, LifecycleAssumption DEF RestartInv
    <2> QED BY <1>1, <2>1, <2>3, <2>4, <2>5 DEF RestartInv, Holding, HolderInv
  <1>4. CASE Exit(p)
    <2>1. /\ proc[p] = "stops" /\ UNCHANGED <<timer, pidFile>>
          /\ proc' = [proc EXCEPT ![p] = "gone"] /\ holder' = NoPid
      BY <1>4 DEF Exit
    <2>2. \A q \in Pids : (Ending(q)' => Ending(q)) /\ (Ending(q)' => Remains(q)' = Remains(q))
      BY <2>1 DEF Ending, Remains, HolderInv, RestartInv
    <2>3. \A s \in Scripts : GoneInTime(s) => GoneInTime(s)'
      BY <1>1, <2>1, <2>2 DEF GoneInTime, RestartInv, ScriptType, HolderInv, Ending
    <2>4. (LastsShort => LastsShort') /\ GoesOnLaunching'
      BY <1>1, <2>1, <2>2 DEF LastsShort, GoesOnLaunching, HolderInv, RestartInv
    <2> QED BY <1>1, <2>1, <2>3, <2>4 DEF RestartInv, HolderInv
  <1> QED BY <1>2, <1>3, <1>4

\* What a shell notes of itself: which process it has hit and which launched.
LEMMA ShellNotes ==
  ASSUME RestartInv, NEW s \in Scripts, NEW r \in ScriptType,
         script' = [script EXCEPT ![s] = r]
  PROVE  /\ script' \in [Scripts -> ScriptType]
         /\ script'[s] = r /\ \A o \in Scripts \ {s} : script'[o] = script[o]
  BY DEF RestartInv

LEMMA GiveRestarts ==
  ASSUME RestartInv, NEW s \in Scripts, NEW command \in Commands, Give(s, command)
  PROVE  RestartInv'
  <1> DEFINE r == [Idle EXCEPT !.pc = IF command = "start" THEN "launch" ELSE "kill",
                               !.command = command]
  <1>1. /\ script[s].pc = "idle" /\ script' = [script EXCEPT ![s] = r]
        /\ UNCHANGED <<proc, timer, holder, pidFile, last, slow, refused>>
    BY DEF Give
  <1>2. r \in ScriptType /\ r.hit = NoPid /\ r.pid = NoPid
    BY DEF Idle, ScriptType
  <1>3. /\ script' \in [Scripts -> ScriptType]
        /\ script'[s] = r /\ \A o \in Scripts \ {s} : script'[o] = script[o]
    BY <1>1, <1>2, ShellNotes
  <1> HIDE DEF r
  <1>4. \A o \in Scripts : GoneInTime(o) => GoneInTime(o)'
    BY <1>1, <1>2, <1>3 DEF GoneInTime, Ending, Remains
  <1>5. GoesOnLaunching'
    BY <1>1, <1>3 DEF GoesOnLaunching, RestartInv
  <1> QED BY <1>1, <1>2, <1>3, <1>4, <1>5 DEF RestartInv, LastsShort, Ending, Remains, Holding


\* A signal ends its process after a pass, which is short or noted as slow.
LEMMA SignalRestarts ==
  ASSUME HolderInv, RestartInv, NEW p \in Pids, p = pidFile, Signal(p)
  PROVE  /\ Ending(p)' \/ proc'[p] = "gone"
         /\ timer' \in [Pids -> Nat] /\ slow' \in BOOLEAN /\ (slow => slow')
         /\ holder' \in Pids \union {NoPid} /\ (holder' # NoPid => Holding(holder)')
         /\ ~slow' => LastsShort'
         /\ \A q \in Pids \ {p} : proc'[q] = proc[q] /\ timer'[q] = timer[q]
         /\ Ending(p) => proc'[p] = proc[p] /\ timer'[p] = timer[p]
         /\ proc[p] = "gone" => proc'[p] = "gone"
  <1>a. /\ timer \in [Pids -> Nat] /\ slow \in BOOLEAN /\ holder \in Pids \union {NoPid}
        /\ (holder # NoPid => Holding(holder)) /\ (~slow => LastsShort)
    BY DEF RestartInv
  <1>1. CASE proc[p] = "runs"
    <2>1. /\ proc' = [proc EXCEPT ![p] = "signalled"] /\ holder' = holder
          /\ \E pass \in Passes : /\ timer' = [timer EXCEPT ![p] = pass]
                                 /\ slow' = (slow \/ pass + StopTime >= RestartTime)
      BY <1>1 DEF Signal
    <2>2. PICK pass \in Nat : /\ timer' = [timer EXCEPT ![p] = pass]
                              /\ slow' = (slow \/ pass + StopTime >= RestartTime)
      BY <2>1, LifecycleAssumption
    <2>3. proc'[p] = "signalled" /\ timer'[p] = pass /\ timer' \in [Pids -> Nat]
          /\ \A q \in Pids \ {p} : proc'[q] = proc[q] /\ timer'[q] = timer[q]
      BY <1>a, <2>1, <2>2 DEF HolderInv
    <2>4. ~slow' => LastsShort'
      <3> SUFFICES ASSUME ~slow', NEW q \in Pids, Ending(q)' PROVE Remains(q)' < RestartTime
        BY DEF LastsShort
      <3>1. CASE q = p
        <4>1. ~(pass + StopTime >= RestartTime)
          BY <2>2
        <4> QED BY <2>2, <2>3, <3>1, <4>1, LifecycleAssumption DEF Remains
      <3>2. CASE q # p
        BY <1>a, <2>2, <2>3, <3>2 DEF LastsShort, Remains, Ending
      <3> QED BY <3>1, <3>2
    <2>5. slow' \in BOOLEAN /\ (slow => slow')
      BY <2>2
    <2>6. holder' # NoPid => Holding(holder)'
      BY <1>a, <2>1, <2>3 DEF Holding
    <2> QED BY <1>1, <1>a, <2>1, <2>3, <2>4, <2>5, <2>6 DEF Ending
  <1>2. CASE proc[p] = "written"
    <2>1. /\ proc' = [proc EXCEPT ![p] = "gone"] /\ holder' = NoPid /\ UNCHANGED <<timer, slow>>
      BY <1>2 DEF Signal
    <2>2. ~slow' => LastsShort'
      BY <1>a, <2>1 DEF LastsShort, Ending, Remains, HolderInv
    <2> QED BY <1>2, <1>a, <2>1, <2>2 DEF Ending, HolderInv
  <1>3. CASE proc[p] \notin {"written", "runs"}
    <2>1. UNCHANGED <<proc, timer, holder, slow>>
      BY <1>3 DEF Signal
    <2>2. Ending(p) \/ proc[p] = "gone"
      BY <1>3, LifecycleAssumption DEF RestartInv, Ending
    <2> QED BY <1>a, <2>1, <2>2 DEF LastsShort, Ending, Remains, Holding
  <1> QED BY <1>1, <1>2, <1>3

LEMMA KillRestarts ==
  ASSUME HolderInv, RestartInv, NEW s \in Scripts, Kill(s)
  PROVE  RestartInv'
  <1> DEFINE r == IF script[s].command = "restart"
                  THEN [script[s] EXCEPT !.pc = "sleep", !.timer = RestartTime, !.hit = pidFile]
                  ELSE [script[s] EXCEPT !.pc = "idle"]
  <1>a. script[s] \in ScriptType /\ pidFile \in Pids \union {NoPid} /\ RestartTime \in Nat
    BY LifecycleAssumption DEF RestartInv, HolderInv
  <1>1. /\ script[s].pc = "kill" /\ UNCHANGED <<pidFile, refused>>
        /\ script' = [script EXCEPT ![s] = r]
        /\ last' = IF script[s].command = "restart" THEN last ELSE "signalled"
    BY DEF Kill
  <1>2. r \in ScriptType /\ r.pid = script[s].pid
    BY <1>a DEF ScriptType
  <1>3. \/ r.pc = "sleep" /\ r.timer = RestartTime /\ r.hit = pidFile /\ last' = last
        \/ r.pc = "idle" /\ r.hit = script[s].hit /\ last' = "signalled"
    BY <1>a, <1>1 DEF ScriptType
  <1>4. /\ script' \in [Scripts -> ScriptType]
        /\ script'[s] = r /\ \A o \in Scripts \ {s} : script'[o] = script[o]
    BY <1>1, <1>2, ShellNotes
  <1> HIDE DEF r
  <1>5. /\ \A p \in Pids : p = pidFile => Ending(p)' \/ proc'[p] = "gone"
        /\ timer' \in [Pids -> Nat] /\ slow' \in BOOLEAN /\ (slow => slow')
        /\ holder' \in Pids \union {NoPid} /\ (holder' # NoPid => Holding(holder)')
        /\ ~slow' => LastsShort'
        /\ \A q \in Pids : \/ proc'[q] = proc[q] /\ timer'[q] = timer[q]
                           \/ q = pidFile /\ ~Ending(q) /\ proc[q] # "gone"
    <2>1. CASE pidFile = NoPid
      <3>1. UNCHANGED <<proc, timer, holder, slow>>
        BY <2>1 DEF Kill
      <3>2. (~slow' => LastsShort') /\ (holder' # NoPid => Holding(holder)')
        BY <3>1 DEF RestartInv, LastsShort, Ending, Remains, Holding
      <3>3. \A p \in Pids : p # pidFile
        BY <2>1, LifecycleAssumption
      <3> QED BY <3>1, <3>2, <3>3 DEF RestartInv
    <2>2. CASE pidFile # NoPid
      <3>1. PICK p \in Pids : p = pidFile /\ Signal(p)
        BY <1>a, <2>2 DEF Kill
      <3>2. /\ Ending(p)' \/ proc'[p] = "gone"
            /\ timer' \in [Pids -> Nat] /\ slow' \in BOOLEAN /\ (slow => slow')
            /\ holder' \in Pids \union {NoPid} /\ (holder' # NoPid => Holding(holder)')
            /\ ~slow' => LastsShort'
            /\ \A q \in Pids \ {p} : proc'[q] = proc[q] /\ timer'[q] = timer[q]
            /\ Ending(p) => proc'[p] = proc[p] /\ timer'[p] = timer[p]
            /\ proc[p] = "gone" => proc'[p] = proc[p]
        BY <3>1, SignalRestarts
      <3>3. proc[p] = "gone" => timer'[p] = timer[p]
        BY <3>1 DEF Signal
      <3>4. \A q \in Pids : \/ proc'[q] = proc[q] /\ timer'[q] = timer[q]
                            \/ q = pidFile /\ ~Ending(q) /\ proc[q] # "gone"
        BY <3>1, <3>2, <3>3
      <3> QED BY <3>1, <3>2, <3>4
    <2> QED BY <2>1, <2>2
  <1>6. ASSUME NEW o \in Scripts, GoneInTime(o), o # s PROVE GoneInTime(o)'
    BY <1>4, <1>5, <1>6 DEF GoneInTime, Ending, Remains, RestartInv, ScriptType
  <1>7. ~slow' => GoneInTime(s)'
    <2>a. script'[s] = r /\ r \in ScriptType
      BY <1>2, <1>4
    <2> SUFFICES ASSUME ~slow', NEW h \in Pids, h = script'[s].hit
                 PROVE  /\ Ending(h)' \/ proc'[h] = "gone"
                        /\ Ending(h)' => script'[s].pc = "sleep" /\ Remains(h)' < script'[s].timer
      BY <2>a DEF GoneInTime, Ending, Remains, ScriptType
    <2>1. CASE r.pc = "sleep" /\ r.timer = RestartTime /\ r.hit = pidFile
      BY <1>5, <2>a, <2>1 DEF LastsShort
    <2>2. CASE r.pc = "idle" /\ r.hit = script[s].hit
      <3>1. proc[h] = "gone"
        BY <1>1, <1>5, <2>a, <2>2, LifecycleAssumption DEF RestartInv, GoneInTime
      <3>2. proc'[h] = "gone"
        BY <1>5, <3>1
      <3> QED BY <3>2 DEF Ending
    <2> QED BY <1>3, <2>1, <2>2
  <1>8. GoesOnLaunching'
    <2>1. CASE r.pc = "sleep"
      BY <1>4, <2>1 DEF GoesOnLaunching
    <2>2. CASE last' = "signalled"
      BY <2>2 DEF GoesOnLaunching
    <2> QED BY <1>3, <2>1, <2>2
  <1>9. pidFile' # NoPid => proc'[pidFile] \in {"written", "runs", "signalled", "stops", "gone"}
    <2> SUFFICES ASSUME NEW p \in Pids, p = pidFile
                 PROVE  proc'[p] \in {"written", "runs", "signalled", "stops", "gone"}
      BY <1>a, <1>1
    <2> QED BY <1>5 DEF Ending
  <1>10. \A o \in Scripts : script'[o].pid # NoPid => script'[o].pc = "idle"
    BY <1>1, <1>2, <1>4 DEF RestartInv
  <1>11. "own" \in refused' => slow'
    BY <1>1, <1>5 DEF RestartInv
  <1> QED BY <1>1, <1>4, <1>5, <1>6, <1>7, <1>8, <1>9, <1>10, <1>11 DEF RestartInv

LEMMA LaunchRestarts ==
  ASSUME HolderInv, RestartInv, NEW s \in Scripts,
         Wake(s) \/ \E p \in Pids : Launch(s, p)
  PROVE  RestartInv'
  <1>a. script[s] \in ScriptType
    BY DEF RestartInv
  <1>1. CASE Wake(s)
    <2> DEFINE r == [script[s] EXCEPT !.pc = "launch"]
    <2>1. /\ script[s].pc = "sleep" /\ script[s].timer = 0 /\ script' = [script EXCEPT ![s] = r]
          /\ UNCHANGED <<proc, timer, holder, pidFile, last, slow, refused>>
      BY <1>1 DEF Wake
    <2>2. r \in ScriptType /\ r.pid = script[s].pid /\ r.hit = script[s].hit /\ r.pc = "launch"
      BY <1>a DEF ScriptType
    <2>3. /\ script' \in [Scripts -> ScriptType]
          /\ script'[s] = r /\ \A o \in Scripts \ {s} : script'[o] = script[o]
      BY <2>1, <2>2, ShellNotes
    <2> HIDE DEF r
    <2>4. ASSUME NEW o \in Scripts, GoneInTime(o), o # s PROVE GoneInTime(o)'
      BY <2>1, <2>3, <2>4 DEF GoneInTime, Ending, Remains
    <2>5. GoneInTime(s) => GoneInTime(s)'
      <3> SUFFICES ASSUME GoneInTime(s), r.hit # NoPid PROVE proc[r.hit] = "gone"
        BY <2>1, <2>2, <2>3 DEF GoneInTime, Ending
      <3>1. r.hit \in Pids /\ Remains(r.hit) \in Nat
        BY <2>2, LifecycleAssumption DEF ScriptType, Remains, RestartInv
      <3> QED BY <2>1, <2>2, <3>1 DEF GoneInTime
    <2>6. GoesOnLaunching'
      BY <2>2, <2>3 DEF GoesOnLaunching
    <2> QED BY <2>1, <2>2, <2>3, <2>4, <2>5, <2>6 DEF RestartInv, LastsShort, Ending, Remains, Holding
  <1>2. ASSUME NEW p \in Pids, Launch(s, p) PROVE RestartInv'
    <2> DEFINE r == [script[s] EXCEPT !.pc = "idle", !.pid = p]
    <2>1. /\ script[s].pc = "launch" /\ proc[p] = "new" /\ proc' = [proc EXCEPT ![p] = "open"]
          /\ script' = [script EXCEPT ![s] = r]
          /\ UNCHANGED <<timer, holder, pidFile, slow, refused>>
      BY <1>2 DEF Launch
    <2>2. r \in ScriptType /\ r.hit = script[s].hit /\ r.pc = "idle"
      BY <1>a DEF ScriptType
    <2>3. /\ script' \in [Scripts -> ScriptType]
          /\ script'[s] = r /\ \A o \in Scripts \ {s} : script'[o] = script[o]
      BY <2>1, <2>2, ShellNotes
    <2> HIDE DEF r
    <2>4. \A q \in Pids : /\ Ending(q)' <=> Ending(q)
                          /\ Ending(q) => Remains(q)' = Remains(q)
                          /\ proc[q] = "gone" => proc'[q] = "gone"
      BY <2>1 DEF Ending, Remains, HolderInv
    <2>5. ASSUME NEW o \in Scripts, GoneInTime(o), o # s PROVE GoneInTime(o)'
      <3>1. script'[o] = script[o] /\ script[o] \in ScriptType
        BY <2>3, <2>5 DEF RestartInv
      <3> QED BY <2>4, <2>5, <3>1 DEF GoneInTime, ScriptType
    <2>6. GoneInTime(s) => GoneInTime(s)'
      <3> SUFFICES ASSUME GoneInTime(s), r.hit # NoPid PROVE proc'[r.hit] = "gone"
        BY <2>1, <2>2, <2>3 DEF GoneInTime, Ending
      <3>1. r.hit \in Pids /\ proc[r.hit] = "gone"
        BY <2>1, <2>2 DEF GoneInTime, ScriptType
      <3> QED BY <2>4, <3>1
    <2>7. GoesOnLaunching' /\ (LastsShort => LastsShort')
      BY <2>1, <2>4 DEF GoesOnLaunching, LastsShort, HolderInv
    <2>8. holder # NoPid => Holding(holder)'
      BY <2>1 DEF RestartInv, Holding, HolderInv
    <2>9. pidFile # NoPid => proc'[pidFile] \in {"written", "runs", "signalled", "stops", "gone"}
      BY <2>1 DEF RestartInv, HolderInv
    <2> QED BY <2>1, <2>2, <2>3, <2>5, <2>6, <2>7, <2>8, <2>9 DEF RestartInv
  <1> QED BY <1>1, <1>2

\* Time passes for the process that ends and for the pause alike.
LEMMA TickRestarts == HolderInv /\ RestartInv /\ Tick => RestartInv'
  <1> SUFFICES ASSUME HolderInv, RestartInv, Tick PROVE RestartInv'
    OBVIOUS
  <1>a. timer \in [Pids -> Nat] /\ script \in [Scripts -> ScriptType]
    BY DEF RestartInv
  <1>1. /\ \A p \in Pids : Ending(p) => timer[p] > 0
        /\ timer' = [p \in Pids |-> OneLess(timer[p])]
        /\ script' = [s \in Scripts |-> [script[s] EXCEPT !.timer = OneLess(script[s].timer)]]
        /\ UNCHANGED <<proc, holder, pidFile, last, slow, refused>>
    BY DEF Tick
  <1>2. timer' \in [Pids -> Nat]
    BY <1>a, <1>1 DEF OneLess
  <1>3. \A s \in Scripts : /\ script'[s] \in ScriptType
                           /\ script'[s].pc = script[s].pc /\ script'[s].hit = script[s].hit
                           /\ script'[s].pid = script[s].pid
                           /\ script'[s].timer = OneLess(script[s].timer)
    <2> TAKE s \in Scripts
    <2>1. script[s] \in ScriptType /\ OneLess(script[s].timer) \in Nat
      BY <1>a DEF ScriptType, OneLess
    <2>2. script'[s] = [script[s] EXCEPT !.timer = OneLess(script[s].timer)]
      BY <1>1
    <2> HIDE DEF OneLess
    <2> QED BY <2>1, <2>2 DEF ScriptType
  <1>4. script' \in [Scripts -> ScriptType]
    BY <1>1, <1>3
  <1>5. ASSUME NEW p \in Pids, Ending(p)
        PROVE  Remains(p) \in Nat /\ Remains(p) > 0 /\ Remains(p)' = Remains(p) - 1
    BY <1>a, <1>1, <1>5, LifecycleAssumption DEF Remains, OneLess
  <1>6. LastsShort => LastsShort'
    BY <1>1, <1>5, LifecycleAssumption DEF LastsShort, Ending
  <1>7. ASSUME NEW s \in Scripts, GoneInTime(s) PROVE GoneInTime(s)'
    <2> SUFFICES ASSUME script[s].hit # NoPid, Ending(script[s].hit)
                 PROVE  script[s].pc = "sleep" /\ Remains(script[s].hit)' < script'[s].timer
      BY <1>1, <1>3, <1>7 DEF GoneInTime, Ending
    <2>1. script[s].hit \in Pids /\ script[s].timer \in Nat
      BY <1>a DEF ScriptType
    <2>2. script[s].pc = "sleep" /\ Remains(script[s].hit) < script[s].timer
      BY <1>7 DEF GoneInTime
    <2> QED BY <1>3, <1>5, <2>1, <2>2 DEF OneLess
  <1>8. GoesOnLaunching'
    BY <1>1, <1>3 DEF RestartInv, GoesOnLaunching
  <1> QED BY <1>1, <1>2, <1>3, <1>4, <1>6, <1>7, <1>8 DEF RestartInv, Holding

LEMMA RestartNext == HolderInv /\ RestartInv /\ [LfNext]_lfVars => RestartInv'
  <1>1. HolderInv /\ RestartInv /\ UNCHANGED lfVars => RestartInv'
    BY DEF lfVars, RestartInv, LastsShort, GoneInTime, GoesOnLaunching, Ending, Remains, Holding
  <1> QED BY <1>1, LockFileRestarts, DaemonRestarts, GiveRestarts, KillRestarts, LaunchRestarts,
             TickRestarts DEF LfNext

\* The pause of a restart is long enough for every process it may have to
\* wait for, but one whose pass is slow; and no launch is lost in the course
\* of starts, stops and restarts but to a process that ends.
THEOREM RestartsSucceed == LfSpec => []Restarted
  <1>1. HolderInv /\ RestartInv => Restarted
    <2> SUFFICES ASSUME HolderInv, RestartInv, Settled, last = "launched", refused = {}
                 PROVE  \E p \in Pids : proc[p] = "runs"
      BY DEF RestartInv, Restarted
    <2>1. \A s \in Scripts : script[s].pc \notin {"sleep", "launch"}
      BY DEF Settled
    <2>2. PICK p \in Pids : proc[p] \in {"open", "locked", "written", "runs"}
      BY <2>1 DEF RestartInv, GoesOnLaunching
    <2> QED BY <2>2 DEF Settled
  <1> QED BY <1>1, HolderInit, HolderNext, RestartInit, RestartNext, PTL DEF LfSpec

=============================================================================
