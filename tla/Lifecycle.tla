------------------------------ MODULE Lifecycle -----------------------------
(***************************************************************************)
(* The life of the daemon as a process: the lock file with its pid, the    *)
(* signal that ends it, and the script powercalc.sh that starts, stops and *)
(* restarts it.                                                            *)
(*                                                                         *)
(* Time is counted in half seconds, the unit of the pauses in the code     *)
(* that a pass of the main loop (300 ms) is shorter than.                  *)
(***************************************************************************)
EXTENDS Integers, FiniteSets

CONSTANTS
  Pids,        \* the processes that may be started
  Scripts,     \* the shells that run powercalc.sh
  MaxCommands, \* bound: commands given
  StopTime,    \* 8: what io.stop() and ow.stop() sleep
  RestartTime, \* 10: what restart sleeps
  Passes,      \* how long the pass goes on that the signal falls into
  NoPid        \* nothing

ASSUME LifecycleAssumption ==
  /\ MaxCommands \in Nat /\ StopTime \in Nat /\ RestartTime \in Nat
  /\ Passes \subseteq Nat /\ NoPid \notin Pids

VARIABLES
  proc,      \* where a process is
  timer,     \* half seconds until its next step, when it ends
  holder,    \* who has locked the lock file
  pidFile,   \* the pid in it
  script,    \* the shells: what each does, and the process it has signalled
  last,      \* what was done last, a process launched or one signalled
  commands,  \* how much of MaxCommands is used up
  slow,      \* history: a pass went on for longer than restart allows for
  refused    \* history: a process was refused the lock by one that ends, which
             \* its restart had signalled ("own") or not ("other")

lfVars == <<proc, timer, holder, pidFile, script, last, commands, slow, refused>>

Commands == {"start", "stop", "restart"}

Idle == [pc |-> "idle", command |-> "none", timer |-> 0, hit |-> NoPid, pid |-> NoPid]

LfInit ==
  /\ proc = [p \in Pids |-> "new"] /\ timer = [p \in Pids |-> 0]
  /\ holder = NoPid /\ pidFile = NoPid
  /\ script = [s \in Scripts |-> Idle]
  /\ last = "none" /\ commands = 0
  /\ slow = FALSE /\ refused = {}

-----------------------------------------------------------------------------
(* The daemon                                                              *)

\* after the lock and before the end
Holding(p) == proc[p] \in {"locked", "written", "runs", "signalled", "stops"}

Ending(p) == proc[p] \in {"signalled", "stops"}

\* who the lock's holder was signalled by, of the restart that launched p
By(p) ==
  IF \E s \in Scripts : script[s].pid = p /\ script[s].hit = holder THEN "own" ELSE "other"

\* (mutant of LockFile) that the lock is taken is not looked at
LockFileTaken(p) ==
  /\ proc[p] = "open"
  /\ proc' = [proc EXCEPT ![p] = "locked"] /\ holder' = p
  /\ UNCHANGED <<timer, pidFile, script, last, commands, slow, refused>>

\* lockf(F_TLOCK): a second instance ends at once
LockFile(p) ==
  /\ proc[p] = "open"
  /\ IF holder = NoPid
     THEN proc' = [proc EXCEPT ![p] = "locked"] /\ holder' = p /\ refused' = refused
     ELSE /\ proc' = [proc EXCEPT ![p] = "gone"] /\ holder' = holder
          /\ refused' = IF Ending(holder) THEN refused \union {By(p)} ELSE refused
  /\ UNCHANGED <<timer, pidFile, script, last, commands, slow>>

WritePid(p) ==
  /\ proc[p] = "locked"
  /\ proc' = [proc EXCEPT ![p] = "written"] /\ pidFile' = p
  /\ UNCHANGED <<timer, holder, script, last, commands, slow, refused>>

\* signal(SIGTERM, ...): until here the signal kills
Handle(p) ==
  /\ proc[p] = "written"
  /\ proc' = [proc EXCEPT ![p] = "runs"]
  /\ UNCHANGED <<timer, holder, pidFile, script, last, commands, slow, refused>>

\* the pass is over: the loop ends, and the two stops follow
EndLoop(p) ==
  /\ proc[p] = "signalled" /\ timer[p] = 0
  /\ proc' = [proc EXCEPT ![p] = "stops"] /\ timer' = [timer EXCEPT ![p] = StopTime]
  /\ UNCHANGED <<holder, pidFile, script, last, commands, slow, refused>>

Exit(p) ==
  /\ proc[p] = "stops" /\ timer[p] = 0
  /\ proc' = [proc EXCEPT ![p] = "gone"]
  /\ holder' = NoPid
  /\ UNCHANGED <<timer, pidFile, script, last, commands, slow, refused>>

-----------------------------------------------------------------------------
(* powercalc.sh                                                            *)

Give(s, command) ==
  /\ script[s].pc = "idle" /\ commands < MaxCommands
  /\ script' = [script EXCEPT ![s] =
       [Idle EXCEPT !.pc = IF command = "start" THEN "launch" ELSE "kill", !.command = command]]
  /\ commands' = commands + 1
  /\ UNCHANGED <<proc, timer, holder, pidFile, last, slow, refused>>

\* a process that has its handler ends after its pass, one that has not at once
Signal(p) ==
  \/ /\ proc[p] = "runs"
     /\ proc' = [proc EXCEPT ![p] = "signalled"]
     /\ \E pass \in Passes : /\ timer' = [timer EXCEPT ![p] = pass]
                            /\ slow' = (slow \/ pass + StopTime >= RestartTime)
     /\ UNCHANGED holder
  \/ /\ proc[p] = "written"
     /\ proc' = [proc EXCEPT ![p] = "gone"] /\ holder' = NoPid
     /\ UNCHANGED <<timer, slow>>
  \/ /\ proc[p] \notin {"written", "runs"}
     /\ UNCHANGED <<proc, timer, holder, slow>>

\* kill `cat powercalc.pid`: without a pid, or of one that is gone, an error
Kill(s) ==
  /\ script[s].pc = "kill"
  /\ IF pidFile = NoPid THEN UNCHANGED <<proc, timer, holder, slow>> ELSE Signal(pidFile)
  /\ IF script[s].command = "restart"
     THEN /\ script' = [script EXCEPT ![s].pc = "sleep", ![s].timer = RestartTime, ![s].hit = pidFile]
          /\ last' = last
     ELSE script' = [script EXCEPT ![s].pc = "idle"] /\ last' = "signalled"
  /\ UNCHANGED <<pidFile, commands, refused>>

\* (mutant of Wake) the new daemon is started without a pause
WakeAtOnce(s) ==
  /\ script[s].pc = "sleep"
  /\ script' = [script EXCEPT ![s].pc = "launch", ![s].timer = 0]
  /\ UNCHANGED <<proc, timer, holder, pidFile, last, commands, slow, refused>>

Wake(s) ==
  /\ script[s].pc = "sleep" /\ script[s].timer = 0
  /\ script' = [script EXCEPT ![s].pc = "launch"]
  /\ UNCHANGED <<proc, timer, holder, pidFile, last, commands, slow, refused>>

\* the parent returns at once, and with it the script
Launch(s, p) ==
  /\ script[s].pc = "launch" /\ proc[p] = "new"
  /\ proc' = [proc EXCEPT ![p] = "open"]
  /\ script' = [script EXCEPT ![s].pc = "idle", ![s].pid = p]
  /\ last' = "launched"
  /\ UNCHANGED <<timer, holder, pidFile, commands, slow, refused>>

-----------------------------------------------------------------------------
(* A half second passes. A process whose pause is over goes on within it,  *)
(* a shell may be late.                                                    *)

OneLess(n) == IF n > 0 THEN n - 1 ELSE 0

Tick ==
  /\ (\E p \in Pids : Ending(p)) \/ (\E s \in Scripts : script[s].pc = "sleep" /\ script[s].timer > 0)
  /\ \A p \in Pids : Ending(p) => timer[p] > 0
  /\ timer' = [p \in Pids |-> OneLess(timer[p])]
  /\ script' = [s \in Scripts |-> [script[s] EXCEPT !.timer = OneLess(@)]]
  /\ UNCHANGED <<proc, holder, pidFile, last, commands, slow, refused>>

LfNext ==
  \/ \E p \in Pids : LockFile(p) \/ WritePid(p) \/ Handle(p) \/ EndLoop(p) \/ Exit(p)
  \/ \E s \in Scripts : \/ \E command \in Commands : Give(s, command)
                        \/ Kill(s) \/ Wake(s)
                        \/ \E p \in Pids : Launch(s, p)
  \/ Tick

LfSpec == LfInit /\ [][LfNext]_lfVars

-----------------------------------------------------------------------------
(* Properties                                                              *)

\* "there is already instance running": two processes never have the daemon's
\* threads and databases at once, though one that ends keeps the lock for as
\* long as its threads run.
OneDaemon == \A p, q \in Pids : Holding(p) /\ Holding(q) => p = q

Settled ==
  /\ \A s \in Scripts : script[s].pc = "idle"
  /\ \A p \in Pids : proc[p] \in {"new", "runs", "gone"}

\* The pause of a restart is long enough: its process is refused by the one
\* it has signalled only when that one's pass went on for longer than the
\* pause leaves. And where none was refused by one that ends, a daemon runs
\* when the last thing done was a launch, whatever else was started, stopped
\* and restarted in between.
Restarted ==
  /\ "own" \in refused => slow
  /\ Settled /\ last = "launched" /\ refused = {} => \E p \in Pids : proc[p] = "runs"

=============================================================================
