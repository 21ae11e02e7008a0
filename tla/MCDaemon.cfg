CONSTANTS
  Clients = {c1, c2}
  Lines = 4
  Fds <- FdSet
  MaxMoment = 1
  MaxOpens = 2
  MaxLeaves = 1
  None = None
  Pids = {p1, p2, p3}
  Scripts = {s1, s2}
  MaxCommands = 3
  StopTime = 8
  RestartTime = 10
  Passes = {0, 1, 3}
  NoPid = NoPid
SPECIFICATION Spec
INVARIANTS OwnDescriptors AnswerIsWhole EndedByLeaver OneDaemon Restarted
PROPERTY Served
