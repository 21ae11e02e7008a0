------------------------------- MODULE Server -------------------------------
(***************************************************************************)
(* The daemon's server thread (IO::servering) and its clients, the CGI     *)
(* program socket_client.                                                  *)
(*                                                                         *)
(* The server takes one connection after the other: it reads a request     *)
(* line, prints the answer, and closes the connection's descriptor three   *)
(* times. Other threads of the daemon open and close files meanwhile, and  *)
(* an open() gets the lowest free descriptor. A client reads until the     *)
(* connection ends, and may be ended itself at any moment.                 *)
(*                                                                         *)
(* A line of an answer is the request it answers and the moment of the     *)
(* data it shows.                                                          *)
(***************************************************************************)
EXTENDS Integers, Sequences, FiniteSets

CONSTANTS
  Clients,    \* the CGI processes
  Lines,      \* the lines of a ring: BUFFERLENGTH2, 256 in the program
  Fds,        \* the descriptors free for connections and files: 0 .. n
  MaxMoment,  \* bound: the values the io thread stores
  MaxOpens,   \* bound: files another thread opens
  MaxLeaves,  \* bound: clients that are ended
  None        \* nothing

\* what a descriptor is that stands for a file
File == "file"

\* types 1 and 4; type 3, which 2 and 22 differ from by the rows they leave
\* out and by their client, which takes any number of lines
Requests == {"value", "ring"}

ASSUME ServerAssumption ==
  /\ Lines \in Nat \ {0} /\ Fds \subseteq Nat /\ Cardinality(Fds) > 1
  /\ MaxMoment \in Nat /\ MaxOpens \in Nat /\ MaxLeaves \in Nat
  /\ None \notin Clients \union Fds /\ None \notin Requests
  /\ File \notin Clients \union {None}

VARIABLES
  fds,      \* what a descriptor is: a connection, named by its client, a file
  queue,    \* the connections accept() has still to return
  sv,       \* where the server is
  s2,       \* its descriptor
  line,     \* the request in its buffer: None at the start, never cleared
  left,     \* lines of the answer still to print
  iolock,   \* the server holds it
  moment,   \* how many values the io thread has stored
  file,     \* the descriptor another thread has for the file it opened
  opens,    \* how much of MaxOpens is used up
  alive,    \* the daemon runs
  cl,       \* the clients
  gap,      \* history: a file was opened between two closes of one number
  stolen    \* history: a close of the server's hit what is not its connection

server == <<sv, s2, line, left, iolock>>
daemon == <<fds, queue, server, moment, file, opens, alive, gap, stolen>>
svVars == <<daemon, cl>>

NoClient ==
  [pc |-> "new", asks |-> None, met |-> FALSE, sent |-> FALSE, got |-> <<>>, ended |-> FALSE]

\* a client's process has ended: at the end of its answer, by the web server,
\* or by SIGPIPE
Gone(c) == cl[c].pc \in {"done", "left", "broken"}

SvInit ==
  /\ fds = [f \in Fds |-> None] /\ queue = <<>>
  /\ sv = "accept" /\ s2 = None /\ line = None /\ left = 0 /\ iolock = FALSE
  /\ moment = 0 /\ file = None /\ opens = 0 /\ alive = TRUE
  /\ cl = [c \in Clients |-> NoClient]
  /\ gap = FALSE /\ stolen = FALSE

-----------------------------------------------------------------------------
(* Descriptors                                                             *)

Free == {f \in Fds : fds[f] = None}

\* the lowest free descriptor, in a set, which is empty when none is free
Lowest == {f \in Free : \A o \in Free : f <= o}

\* the client at the other end of the server's descriptor
Peer == fds[s2]

\* the connection of c ends when the last descriptor of it is closed
Ends(f, table) ==
  [c \in Clients |->
     IF table[f] = c THEN [cl[c] EXCEPT !.ended = TRUE] ELSE cl[c]]

-----------------------------------------------------------------------------
(* The server                                                              *)

Accept ==
  /\ alive /\ sv = "accept" /\ queue # <<>>
  /\ s2' \in Lowest
  /\ fds' = [fds EXCEPT ![s2'] = Head(queue)]
  /\ queue' = Tail(queue)
  /\ sv' = "read"
  /\ UNCHANGED <<line, left, iolock, moment, file, opens, alive, gap, stolen, cl>>

\* (mutant of ReadLine) an empty read is tried again
ReadLineAgain ==
  /\ alive /\ sv = "read" /\ Peer \in Clients /\ cl[Peer].sent
  /\ line' = cl[Peer].asks
  /\ sv' = IF line' = "ring" THEN "lock" ELSE "print"
  /\ left' = IF line' = "ring" THEN Lines ELSE 1
  /\ UNCHANGED <<fds, queue, s2, iolock, moment, file, opens, alive, gap, stolen, cl>>

\* fgets waits for a line or the end, and leaves the buffer as it was at the
\* end; sscanf scans the buffer in either case.
ReadLine ==
  /\ alive /\ sv = "read" /\ Peer \in Clients
  /\ \/ cl[Peer].sent /\ line' = cl[Peer].asks
     \/ ~cl[Peer].sent /\ Gone(Peer) /\ line' = line
  /\ sv' = IF line' = "ring" THEN "lock" ELSE "print"
  /\ left' = IF line' = None THEN 0 ELSE IF line' = "ring" THEN Lines ELSE 1
  /\ UNCHANGED <<fds, queue, s2, iolock, moment, file, opens, alive, gap, stolen, cl>>

\* its descriptor was closed under it, or is a file without a request in it
ReadFails ==
  /\ alive /\ sv = "read" /\ Peer \notin Clients
  /\ sv' = IF line = "ring" THEN "lock" ELSE "print"
  /\ left' = IF line = None THEN 0 ELSE IF line = "ring" THEN Lines ELSE 1
  /\ UNCHANGED <<fds, queue, s2, line, iolock, moment, file, opens, alive, gap, stolen, cl>>

\* (mutant of Lock) a ring is printed without iolock
LockNone ==
  /\ alive /\ sv = "lock"
  /\ iolock' = FALSE /\ sv' = "print"
  /\ UNCHANGED <<fds, queue, s2, line, left, moment, file, opens, alive, gap, stolen, cl>>

Lock ==
  /\ alive /\ sv = "lock"
  /\ iolock' = TRUE /\ sv' = "print"
  /\ UNCHANGED <<fds, queue, s2, line, left, moment, file, opens, alive, gap, stolen, cl>>

\* fprintf and fflush of a line, to whatever the descriptor is by now
PrintLine ==
  /\ alive /\ sv = "print" /\ left > 0
  /\ left' = left - 1
  /\ IF IF Peer \in Clients THEN Gone(Peer) ELSE FALSE
     THEN /\ alive' = FALSE            \* SIGPIPE
          /\ cl' = [c \in Clients |-> [cl[c] EXCEPT !.ended = TRUE]]
     ELSE /\ alive' = alive
          /\ cl' = [c \in Clients |-> IF Peer = c
                      THEN [cl[c] EXCEPT !.got = Append(@, <<line, moment>>)] ELSE cl[c]]
  /\ UNCHANGED <<fds, queue, sv, s2, line, iolock, moment, file, opens, gap, stolen>>

Printed ==
  /\ alive /\ sv = "print" /\ left = 0
  /\ iolock' = FALSE /\ sv' = "closeIn"
  /\ UNCHANGED <<fds, queue, s2, line, left, moment, file, opens, alive, gap, stolen, cl>>

\* fclose(sockin), fclose(sockout), close(s2)
After(pc) == CASE pc = "closeIn" -> "closeOut"
               [] pc = "closeOut" -> "closeS2"
               [] pc = "closeS2" -> "accept"

Close ==
  /\ alive /\ sv \in {"closeIn", "closeOut", "closeS2"}
  /\ fds' = [fds EXCEPT ![s2] = None]
  /\ cl' = Ends(s2, fds)
  /\ stolen' = (stolen \/ (Peer # None /\ (sv # "closeIn" \/ Peer = File)))
  /\ sv' = After(sv)
  /\ UNCHANGED <<queue, s2, line, left, iolock, moment, file, opens, alive, gap>>

-----------------------------------------------------------------------------
(* The daemon's other threads                                              *)

\* the io thread stores a live value
Store ==
  /\ alive /\ ~iolock /\ moment < MaxMoment
  /\ moment' = moment + 1
  /\ UNCHANGED <<fds, queue, server, file, opens, alive, gap, stolen, cl>>

\* powercalc.db, live.db, a journal, or /dev/gpio at the start
OpenFile ==
  /\ alive /\ file = None /\ opens < MaxOpens
  /\ file' \in Lowest /\ opens' = opens + 1
  /\ fds' = [fds EXCEPT ![file'] = File]
  /\ gap' = (gap \/ (file' = s2 /\ sv \in {"closeOut", "closeS2"}))
  /\ UNCHANGED <<queue, server, moment, alive, stolen, cl>>

\* (mutant of CloseFile) the handle is kept, and closed once more
CloseFileTwice ==
  /\ alive /\ file # None
  /\ fds' = [fds EXCEPT ![file] = None]
  /\ cl' = Ends(file, fds)
  /\ file' = IF fds[file] = None THEN None ELSE file
  /\ UNCHANGED <<queue, server, moment, opens, alive, gap, stolen>>

CloseFile ==
  /\ alive /\ file # None
  /\ fds' = [fds EXCEPT ![file] = None]
  /\ cl' = Ends(file, fds)
  /\ file' = None
  /\ UNCHANGED <<queue, server, moment, opens, alive, gap, stolen>>

-----------------------------------------------------------------------------
(* The clients                                                             *)

\* without a daemon to connect to only an error is printed
Connect(c, request) ==
  /\ cl[c].pc = "new"
  /\ cl' = [cl EXCEPT ![c].pc = "connected", ![c].asks = request,
                      ![c].met = alive, ![c].ended = ~alive]
  /\ queue' = IF alive THEN Append(queue, c) ELSE queue
  /\ UNCHANGED <<fds, server, moment, file, opens, alive, gap, stolen>>

Ask(c) ==
  /\ cl[c].pc = "connected"
  /\ cl' = [cl EXCEPT ![c].pc = "reads", ![c].sent = TRUE]
  /\ UNCHANGED daemon

\* (mutant of Stops) one line is enough
StopsEarly(c) == cl[c].got # <<>> \/ cl[c].ended

\* fgets gives a line, or NULL, when there is a newline or no more to come;
\* the single line of a value has no newline.
Stops(c) == cl[c].ended

\* a count of lines the FFT takes: one bit of it is set
Whole(n) == \E k \in 0 .. Lines : n = 2 ^ k

\* type3 takes a ring by its length
Finish(c) ==
  /\ cl[c].pc = "reads" /\ Stops(c)
  /\ cl[c].asks = "ring" => Whole(Len(cl[c].got))
  /\ cl' = [cl EXCEPT ![c].pc = "done"]
  /\ UNCHANGED daemon

\* and asks once more on the same socket otherwise: SIGPIPE where the
\* connection has ended, and no end where there was none.
AskAgain(c) ==
  /\ cl[c].pc = "reads" /\ Stops(c)
  /\ cl[c].asks = "ring" /\ ~Whole(Len(cl[c].got))
  /\ cl' = [cl EXCEPT ![c].pc = IF cl[c].met THEN "broken" ELSE "connected"]
  /\ UNCHANGED daemon

\* the web server ends the process
Leave(c) ==
  /\ cl[c].pc \in {"connected", "reads"} /\ ~cl[c].ended
  /\ Cardinality({d \in Clients : cl[d].pc = "left"}) < MaxLeaves
  /\ cl' = [cl EXCEPT ![c].pc = "left"]
  /\ UNCHANGED daemon

-----------------------------------------------------------------------------
ServerThread ==
  \/ Accept \/ ReadLine \/ ReadFails \/ Lock \/ PrintLine \/ Printed \/ Close

SvNext ==
  \/ ServerThread
  \/ Store \/ OpenFile \/ CloseFile
  \/ \E c \in Clients : \/ \E request \in Requests : Connect(c, request)
                        \/ Ask(c) \/ Finish(c) \/ AskAgain(c) \/ Leave(c)

\* The threads are scheduled round robin; a client asks right after it has
\* connected, and a file is closed again.
SvFairness ==
  /\ WF_svVars(ServerThread) /\ WF_svVars(CloseFile)
  /\ \A c \in Clients : WF_svVars(Ask(c)) /\ WF_svVars(Finish(c) \/ AskAgain(c))

SvSpec == SvInit /\ [][SvNext]_svVars /\ SvFairness

-----------------------------------------------------------------------------
(* Properties                                                              *)

\* The server and the other threads have their own descriptors as long as no
\* file is opened between two closes of one number: a connection is closed
\* by the server alone, and a file by the thread that opened it.
OwnDescriptors ==
  ~gap => /\ ~stolen
          /\ file # None => fds[file] = File
          /\ sv \in {"read", "lock", "print", "closeIn"} => Peer \in Clients

\* What a client has read when it ends is the whole answer to its own
\* request, and a ring as it was at one moment, though its lines go out one
\* by one and the requests before it may have been left unasked.
AnswerIsWhole ==
  ~gap /\ alive =>
    \A c \in Clients :
      cl[c].pc = "done" =>
        /\ Len(cl[c].got) = IF cl[c].asks = "ring" THEN Lines ELSE 1
        /\ \A k \in DOMAIN cl[c].got : cl[c].got[k][1] = cl[c].asks
        /\ cl[c].asks = "ring" => \A k \in DOMAIN cl[c].got : cl[c].got[k] = cl[c].got[1]

\* SIGPIPE ends the daemon only when a client was ended before its answer:
\* one that reads to the end never does it.
EndedByLeaver == ~alive => \E c \in Clients : cl[c].pc = "left"

\* Every client that has met the daemon is through at last: no request left
\* unasked, no descriptor taken or closed wrongly, and no end of the daemon
\* makes one wait or ask for ever.
Served ==
  \A c \in Clients : cl[c].pc = "connected" /\ cl[c].met ~> Gone(c)

=============================================================================
