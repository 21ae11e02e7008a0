------------------------------ MODULE MCDaemon -------------------------------
(* The daemon as others meet it, one part per behaviour. Its server: two    *)
(* clients of any kind and three descriptors, one for a connection, one for *)
(* a file of another thread, and one to spare; a ring has four lines, so    *)
(* that a broken answer may have a length that the client takes for a whole *)
(* one. Its process: two shells that start, stop and restart it, and passes *)
(* of the main loop within and beyond what a restart allows for.            *)
EXTENDS Server, Lifecycle

VARIABLE part

FdSet == 0 .. 2

Init ==
  /\ part \in {"server", "process"}
  /\ SvInit /\ LfInit

\* all clients are through, or the commands are given and carried out
Done ==
  /\ \/ part = "server" /\ \A c \in Clients : Gone(c)
     \/ part = "process" /\ Settled /\ commands = MaxCommands
  /\ UNCHANGED <<svVars, lfVars>>

Next ==
  /\ \/ part = "server" /\ SvNext /\ UNCHANGED lfVars
     \/ part = "process" /\ LfNext /\ UNCHANGED svVars
     \/ Done
  /\ UNCHANGED part

Spec == Init /\ [][Next]_<<part, svVars, lfVars>> /\ SvFairness

=============================================================================
