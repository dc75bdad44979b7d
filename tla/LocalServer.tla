---------------------------- MODULE LocalServer ----------------------------
(***************************************************************************)
(* The local spelunk-server daemon and the commands that manage it:        *)
(* `spelunk server start`, `spelunk server stop`, and the autostart of     *)
(* `init` and of memory writes (ensure_server_running).  What they know of *)
(* each other is a lock only the starting commands take and three state    *)
(* files: server.pid, server.port and server.db-path.                      *)
(*                                                                         *)
(* Unix only: elsewhere the lock is a no-op.  An error a command returns   *)
(* early with, other than those modelled, is a kill of that command.       *)
(***************************************************************************)
EXTENDS Naturals, FiniteSets, FiniteSetsExt

CONSTANTS
    Cmds,          \* terminals that run one command at a time
    Pids,          \* process ids the system hands out, a set of numbers
    Ports,         \* ports the autostart may try, a set of numbers
    Dbs,           \* databases a server may be started against
    DefaultDb,
    MaxStops,      \* bound: stop commands
    MaxFaults,     \* bound: kills, crashes, hangs, reused pids, slow starts
    NoCmd, NoPid, NoPort, NoDb,
    Free           \* no process has this id

ASSUME LocalAssumption ==
    /\ Ports \subseteq Nat /\ Ports # {} /\ NoPort \notin Ports
    /\ DefaultDb \in Dbs /\ NoDb \notin Dbs
    /\ NoCmd \notin Cmds /\ Pids \subseteq Nat /\ NoPid \notin Pids
    /\ MaxStops \in Nat /\ MaxFaults \in Nat

\* What may run behind a pid.
Processes == [kind : {"server", "other"}, port : Ports \cup {NoPort}, db : Dbs \cup {NoDb},
              state : {"boot", "up", "hung", "dying"}]

ASSUME FreeAssumption == Free \notin Processes

VARIABLES
    proc,        \* the process behind each pid
    pidFile, portFile, dbFile,
    lock,        \* holder of server.lock
    cmd,         \* what each terminal is doing
    lost,        \* history: servers the state files ceased to name while they ran
    adrift,      \* history: the files may not describe one and the same server
    stops, faults

fileVars == <<pidFile, portFile, dbFile>>
pastVars == <<lost, adrift>>
boundVars == <<stops, faults>>
vars == <<proc, fileVars, lock, cmd, pastVars, boundVars>>

DefaultPort == Min(Ports)

Idle == [pc |-> "idle", kind |-> "none", db |-> NoDb, pid |-> NoPid, port |-> NoPort]

Server(port, db) == [kind |-> "server", port |-> port, db |-> db, state |-> "boot"]
Other == [kind |-> "other", port |-> NoPort, db |-> NoDb, state |-> "up"]

Init ==
    /\ proc = [p \in Pids |-> Free]
    /\ pidFile = NoPid /\ portFile = NoPort /\ dbFile = NoDb
    /\ lock = NoCmd
    /\ cmd = [c \in Cmds |-> Idle]
    /\ lost = {} /\ adrift = FALSE
    /\ stops = 0 /\ faults = 0

Alive(p) == proc[p] # Free

Servers == {p \in Pids : Alive(p) /\ proc[p].kind = "server"}

\* A server owns its port from the bind to its death.
Bound(q) == \E p \in Servers : proc[p].port = q /\ proc[p].state # "boot"

\* probe_health: whoever serves the port.
Healthy(q) == \E p \in Servers : proc[p].port = q /\ proc[p].state = "up"

Fault == faults < MaxFaults /\ faults' = faults + 1 /\ UNCHANGED stops

----------------------------------------------------------------------------
(***************************************************************************)
(* Commands                                                                *)
(***************************************************************************)

\* Mutant: the start lock is not taken.
LockFree_Always == TRUE

\* acquire_start_lock fails at once when another start holds the lock.
LockFree == lock = NoCmd

Goes(c, pc) == cmd' = [cmd EXCEPT ![c].pc = pc]

Unlocked(c) == lock' = IF lock = c THEN NoCmd ELSE lock

Ends(c) == cmd' = [cmd EXCEPT ![c] = Idle] /\ Unlocked(c)

Begin(c, kind, db) ==
    /\ cmd[c].pc = "idle" /\ LockFree
    /\ lock' = c
    /\ cmd' = [cmd EXCEPT ![c] = [Idle EXCEPT !.pc = "look", !.kind = kind, !.db = db]]
    /\ UNCHANGED <<proc, fileVars, pastVars, boundVars>>

Start(c, db) == Begin(c, "start", db)

Ensure(c) == Begin(c, "ensure", DefaultDb)

\* Stop takes no lock.
Stop(c) ==
    /\ cmd[c].pc = "idle" /\ stops < MaxStops
    /\ stops' = stops + 1
    /\ cmd' = [cmd EXCEPT ![c] = [Idle EXCEPT !.pc = "look", !.kind = "stop"]]
    /\ UNCHANGED <<proc, fileVars, lock, pastVars, faults>>

\* Is a live process recorded?  Without one a start goes on, clearing what a
\* dead one left (the autostart leaves it), and a stop is over.
Look(c) ==
    /\ cmd[c].pc = "look"
    /\ \/ /\ pidFile = NoPid
          /\ IF cmd[c].kind = "stop" THEN Ends(c) ELSE Goes(c, "port") /\ UNCHANGED lock
       \/ /\ pidFile # NoPid /\ ~Alive(pidFile)
          /\ Goes(c, IF cmd[c].kind = "ensure" THEN "port" ELSE "sweep")
          /\ UNCHANGED lock
       \/ /\ pidFile # NoPid /\ Alive(pidFile)
          /\ cmd' = [cmd EXCEPT ![c].pc = "classify", ![c].pid = pidFile]
          /\ UNCHANGED lock
    /\ UNCHANGED <<proc, fileVars, pastVars, boundVars>>

\* Mutant: the recorded pid is trusted.
Matches_Anything(p) == TRUE

\* process_matches_server: the command line of the process.
Matches(p) == p \in Servers

Answers == portFile # NoPort /\ Healthy(portFile)

\* Mutant: a server is reused whatever it serves.
SameDb_Always(c) == TRUE

SameDb(c) == dbFile = NoDb \/ dbFile = cmd[c].db

\* classify_running_server, healthy: the start has nothing to do.
AlreadyRunning(c) ==
    /\ cmd[c].pc = "classify" /\ cmd[c].kind # "stop" /\ Answers
    /\ cmd[c].kind = "start" => SameDb(c)
    /\ Ends(c)
    /\ UNCHANGED <<proc, fileVars, pastVars, boundVars>>

RefusesDb(c) ==
    /\ cmd[c].pc = "classify" /\ cmd[c].kind = "start" /\ Answers /\ ~SameDb(c)
    /\ Ends(c)
    /\ UNCHANGED <<proc, fileVars, pastVars, boundVars>>

\* A stop ends whatever serves; a start reclaims a server that is hung.
Reclaims(c) ==
    \/ cmd[c].kind = "stop" /\ Answers
    \/ ~Answers /\ Matches(cmd[c].pid)

\* terminate_process.
Signal(c) ==
    LET p == cmd[c].pid IN
    /\ cmd[c].pc = "classify" /\ Reclaims(c)
    /\ proc' = IF Alive(p) THEN [proc EXCEPT ![p].state = "dying"] ELSE proc
    /\ Goes(c, "wait")
    /\ UNCHANGED <<fileVars, lock, pastVars, boundVars>>

\* The pid is somebody else's: a stop refuses, a start forgets it.
Foreign(c) ==
    /\ cmd[c].pc = "classify" /\ ~Answers /\ ~Matches(cmd[c].pid)
    /\ IF cmd[c].kind = "stop" THEN Ends(c) ELSE Goes(c, "sweep") /\ UNCHANGED lock
    /\ UNCHANGED <<proc, fileVars, pastVars, boundVars>>

\* wait_for_exit sees the process gone.
Gone(c) ==
    /\ cmd[c].pc = "wait" /\ ~Alive(cmd[c].pid)
    /\ Goes(c, "sweep")
    /\ UNCHANGED <<proc, fileVars, lock, pastVars, boundVars>>

\* It survives SIGTERM and SIGKILL: only the autostart goes on regardless.
GivesUp(c) ==
    /\ cmd[c].pc = "wait" /\ Alive(cmd[c].pid)
    /\ Fault
    /\ IF cmd[c].kind = "ensure" THEN Goes(c, "sweep") /\ UNCHANGED lock ELSE Ends(c)
    /\ UNCHANGED <<proc, fileVars, pastVars>>

\* cleanup_state_files: whatever the files say by now.
Sweep(c) ==
    LET dropped == {pidFile} \cap Servers IN
    /\ cmd[c].pc = "sweep"
    /\ pidFile' = NoPid /\ portFile' = NoPort /\ dbFile' = NoDb
    /\ lost' = lost \cup dropped /\ adrift' = (lost' # {})
    /\ IF cmd[c].kind = "stop" THEN Ends(c) ELSE Goes(c, "port") /\ UNCHANGED lock
    /\ UNCHANGED <<proc, boundVars>>

----------------------------------------------------------------------------
(***************************************************************************)
(* Spawning                                                                *)
(***************************************************************************)

\* Mutant: no other port is tried.
Candidates_Fixed(c) == {q \in {DefaultPort} : ~Bound(q)}

\* A start insists on its port, the autostart takes the first free one.
Candidates(c) ==
    {q \in (IF cmd[c].kind = "start" THEN {DefaultPort} ELSE Ports) : ~Bound(q)}

PickPort(c) ==
    /\ cmd[c].pc = "port" /\ Candidates(c) # {}
    /\ cmd' = [cmd EXCEPT ![c].pc = "spawn", ![c].port = Min(Candidates(c))]
    /\ UNCHANGED <<proc, fileVars, lock, pastVars, boundVars>>

PortTaken(c) ==
    /\ cmd[c].pc = "port" /\ Candidates(c) = {}
    /\ Ends(c)
    /\ UNCHANGED <<proc, fileVars, pastVars, boundVars>>

\* Assumed: no pid is handed out again while a command that has read it still
\* runs and polls it five times a second.
Available == {p \in Pids : ~Alive(p) /\ \A c \in Cmds : cmd[c].pid # p}

\* Pids the files do not name are all alike.
NewPids ==
    LET fresh == Available \ {pidFile}
    IN  (Available \cap {pidFile}) \cup (IF fresh = {} THEN {} ELSE {Min(fresh)})

Spawn(c) ==
    /\ cmd[c].pc = "spawn"
    /\ \E p \in NewPids :
          /\ proc' = [proc EXCEPT ![p] = Server(cmd[c].port, cmd[c].db)]
          /\ cmd' = [cmd EXCEPT ![c].pc = "pid", ![c].pid = p]
    /\ adrift' = (adrift \/ pidFile # NoPid)
    /\ UNCHANGED <<fileVars, lock, lost, boundVars>>

WritePid(c) ==
    /\ cmd[c].pc = "pid"
    /\ pidFile' = cmd[c].pid
    /\ Goes(c, "portfile")
    /\ UNCHANGED <<proc, portFile, dbFile, lock, pastVars, boundVars>>

WritePort(c) ==
    /\ cmd[c].pc = "portfile"
    /\ portFile' = cmd[c].port
    /\ Goes(c, "dbfile")
    /\ UNCHANGED <<proc, pidFile, dbFile, lock, pastVars, boundVars>>

WriteDb(c) ==
    /\ cmd[c].pc = "dbfile"
    /\ dbFile' = cmd[c].db
    /\ adrift' = (lost # {})
    /\ Goes(c, "await")
    /\ UNCHANGED <<proc, pidFile, portFile, lock, lost, boundVars>>

\* wait_for_health: the port answers, or the child is gone.
Awaited(c) ==
    /\ cmd[c].pc = "await" /\ (Healthy(cmd[c].port) \/ ~Alive(cmd[c].pid))
    /\ Ends(c)
    /\ UNCHANGED <<proc, fileVars, pastVars, boundVars>>

\* 30 s pass: the child hangs, or is slow to bind.
TimedOut(c) ==
    /\ cmd[c].pc = "await" /\ ~Healthy(cmd[c].port) /\ Alive(cmd[c].pid)
    /\ IF proc[cmd[c].pid].state = "boot" THEN Fault ELSE UNCHANGED boundVars
    /\ Ends(c)
    /\ UNCHANGED <<proc, fileVars, pastVars>>

\* The command is killed, or fails.
Killed(c) ==
    /\ cmd[c].pc # "idle"
    /\ Fault
    /\ lost' = IF cmd[c].pc = "pid" THEN lost \cup ({cmd[c].pid} \cap Servers) ELSE lost
    /\ adrift' = (adrift \/ cmd[c].pc \in {"pid", "portfile", "dbfile"})
    /\ Ends(c)
    /\ UNCHANGED <<proc, fileVars>>

----------------------------------------------------------------------------
(***************************************************************************)
(* Processes                                                               *)
(***************************************************************************)

Exits(p) ==
    /\ proc' = [proc EXCEPT ![p] = Free]
    /\ lost' = lost \ {p}
    /\ UNCHANGED <<fileVars, lock, cmd, adrift>>

\* The server binds its port, or fails to and exits.
Binds(p) ==
    /\ p \in Servers /\ proc[p].state = "boot"
    /\ IF Bound(proc[p].port)
       THEN Exits(p)
       ELSE /\ proc' = [proc EXCEPT ![p].state = "up"]
            /\ UNCHANGED <<fileVars, lock, cmd, pastVars>>
    /\ UNCHANGED boundVars

Dies(p) ==
    /\ Alive(p) /\ proc[p].state = "dying"
    /\ Exits(p)
    /\ UNCHANGED boundVars

Hangs(p) ==
    /\ p \in Servers /\ proc[p].state = "up"
    /\ Fault
    /\ proc' = [proc EXCEPT ![p].state = "hung"]
    /\ UNCHANGED <<fileVars, lock, cmd, pastVars>>

Crashes(p) ==
    /\ p \in Servers
    /\ Fault
    /\ Exits(p)

\* Another program gets the pid the files name.
Reused(p) ==
    /\ p \in Available \cap {pidFile}
    /\ Fault
    /\ proc' = [proc EXCEPT ![p] = Other]
    /\ UNCHANGED <<fileVars, lock, cmd, pastVars>>

OtherExits(p) ==
    /\ Alive(p) /\ proc[p].kind = "other"
    /\ Exits(p)
    /\ UNCHANGED boundVars

Step(c) ==
    \/ Look(c) \/ AlreadyRunning(c) \/ RefusesDb(c) \/ Signal(c) \/ Foreign(c)
    \/ Gone(c) \/ Sweep(c) \/ PickPort(c) \/ PortTaken(c) \/ Spawn(c)
    \/ WritePid(c) \/ WritePort(c) \/ WriteDb(c) \/ Awaited(c) \/ TimedOut(c)

ProcessStep(p) == Binds(p) \/ Dies(p)

Next ==
    \/ \E c \in Cmds, db \in Dbs : Start(c, db)
    \/ \E c \in Cmds : Ensure(c) \/ Stop(c) \/ Step(c) \/ GivesUp(c) \/ Killed(c)
    \/ \E p \in Pids : ProcessStep(p) \/ Hangs(p) \/ Crashes(p) \/ Reused(p) \/ OtherExits(p)

Spec == Init /\ [][Next]_vars

\* Fairness: commands and servers run, and the autostart is tried again and
\* again, as every interactive memory write does.
FairSpec ==
    /\ Spec
    /\ \A c \in Cmds : WF_vars(Step(c))
    /\ \A p \in Pids : WF_vars(ProcessStep(p))
    /\ SF_vars(\E c \in Cmds : Ensure(c))

----------------------------------------------------------------------------
(***************************************************************************)
(* Properties                                                              *)
(***************************************************************************)

\* At most one server runs that the commands have not lost: starts that race
\* each other, a hung server, a dead or a reused pid never make a second one.
\* Lost are a server whose start is killed before it writes server.pid, one
\* whose files a stop that began earlier removes, and one the autostart could
\* not kill.
OneServer == Cardinality(Servers \ lost) <= 1

\* No process but a server is ever signalled, whatever pids are reused, as
\* long as the files describe one server and still say what the command read.
\* They do not while a lost server runs, after a start killed between its
\* writes, and while the autostart, which leaves the record of a dead server,
\* has not written its own: the port may then answer for somebody else's pid.
NeverSignalsOthers ==
    [][\A c \in Cmds : LET p == cmd[c].pid IN
          Signal(c) /\ Alive(p) /\ proc[p].kind = "other" => adrift \/ pidFile # p]_vars

\* "Already running" is said only of a server on the database that was asked
\* for, under the same proviso (the check of server.db-path in cmd_start).
ServesRequested ==
    [][\A c \in Cmds : AlreadyRunning(c) /\ cmd[c].kind = "start" /\ ~adrift
          => \A p \in Servers : proc[p].port = portFile => proc[p].db = cmd[c].db]_vars

Reachable == portFile # NoPort /\ Healthy(portFile)

\* In the end the port in server.port is served, whatever was killed, hung or
\* lost on the way, and stays so.
ComesUp == <>[]Reachable
============================================================================
