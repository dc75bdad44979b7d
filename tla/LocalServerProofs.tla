--------------------------- MODULE LocalServerProofs ---------------------------
(***************************************************************************)
(* Theorems about LocalServer, for any number of terminals, pids, ports,   *)
(* databases, stops and faults: one server at most that the commands have  *)
(* not lost, no foreign process signalled, no server reused for the wrong  *)
(* database.                                                               *)
(*                                                                         *)
(* The argument.  Only the holder of the start lock spawns and writes the  *)
(* files (Locks), and it does so when server.pid names no live server, so  *)
(* a server is known by server.pid or by the command about to write it     *)
(* there (Known).  A stop takes no lock and can remove the files at any    *)
(* moment; what it forgets while it runs is lost.  While nothing is adrift *)
(* no server is lost, one is only spawned next to empty files (Straight),  *)
(* and server.db-path is its database (Own, Described).                    *)
(***************************************************************************)
EXTENDS LocalServer, NatSets, FiniteSetTheorems, TLAPS

Spawning == {"port", "spawn", "pid", "portfile", "dbfile", "await"}
Places == Spawning \cup {"idle", "look", "classify", "wait", "sweep"}

Commands == [pc : Places, kind : {"none", "start", "ensure", "stop"}, db : Dbs \cup {NoDb},
             pid : Pids \cup {NoPid}, port : Ports \cup {NoPort}]

\* What runs is a server of some database or another program; the files and
\* the commands name pids; a lost server runs.
Types ==
  /\ proc \in [Pids -> Processes \cup {Free}]
  /\ \A p \in Servers : proc[p].db \in Dbs
  /\ cmd \in [Cmds -> Commands]
  /\ pidFile \in Pids \cup {NoPid}
  /\ lost \subseteq Servers

\* A command that is to start a server holds the lock from its first look on;
\* a stop starts none.
StartsOne(r) == r.pc # "idle" /\ (r.kind # "stop" \/ r.pc \in Spawning)

Locks == \A c \in Cmds : StartsOne(cmd[c]) => lock = c /\ cmd[c].db \in Dbs

\* A server the commands know is the one in server.pid, or one whose command
\* is about to write it there; and until then server.pid names no other.
Known ==
  /\ \A p \in Servers \ lost : p = pidFile \/ \E c \in Cmds : cmd[c].pc = "pid" /\ cmd[c].pid = p
  /\ \A c \in Cmds :
       /\ cmd[c].pc \in {"port", "spawn"} => pidFile \notin Servers
       /\ cmd[c].pc = "pid" => pidFile \notin Servers \ {cmd[c].pid}

\* While the files are those of one server, no server is lost, and one was
\* spawned when they named nobody.
Straight ==
  /\ adrift \/ lost = {}
  /\ \A c \in Cmds : cmd[c].pc = "pid" => adrift \/ pidFile = NoPid

\* The files are written for the server just spawned; what a command looks at
\* closer or waits for is a process.
Own ==
  \A c \in Cmds :
    /\ cmd[c].pc \in {"portfile", "dbfile"} => pidFile \in {NoPid, cmd[c].pid}
    /\ cmd[c].pc \in {"classify", "wait", "pid", "portfile", "dbfile"} => cmd[c].pid \in Pids
    /\ cmd[c].pc \in {"pid", "portfile", "dbfile"} /\ cmd[c].pid \in Servers
         => proc[cmd[c].pid].db = cmd[c].db

\* server.db-path is the database of the server in server.pid, once written.
Described ==
  ~adrift /\ pidFile \in Servers =>
     \/ \E c \in Cmds : cmd[c].pc \in {"portfile", "dbfile"}
     \/ dbFile = proc[pidFile].db

IInv == Types /\ Locks /\ Known /\ Straight /\ Own /\ Described

-----------------------------------------------------------------------------
(* Commands and processes one step changes *)

\* The places a command goes through, and those of a spawn.
LEMMA PlaceNames ==
  /\ \A pc \in Spawning : pc \in Places
  /\ "port" \in Spawning /\ "spawn" \in Spawning /\ "pid" \in Spawning
  /\ "portfile" \in Spawning /\ "dbfile" \in Spawning /\ "await" \in Spawning
  /\ "idle" \in Places /\ "look" \in Places /\ "classify" \in Places
  /\ "wait" \in Places /\ "sweep" \in Places
  /\ "idle" \notin Spawning /\ "look" \notin Spawning /\ "classify" \notin Spawning
  /\ "wait" \notin Spawning /\ "sweep" \notin Spawning
  BY DEF Places, Spawning

\* A command that goes elsewhere is one.
LEMMA CommandTypes ==
  ASSUME NEW r \in Commands, NEW pc \in Places, NEW pid \in Pids \cup {NoPid},
         NEW port \in Ports \cup {NoPort}
  PROVE  /\ [r EXCEPT !.pc = pc] \in Commands
         /\ [r EXCEPT !.pc = pc, !.pid = pid] \in Commands
         /\ [r EXCEPT !.pc = pc, !.port = port] \in Commands
  BY DEF Commands

\* A command that begins is one.
LEMMA BeginTypes ==
  ASSUME NEW kind \in {"start", "ensure", "stop"}, NEW db \in Dbs
  PROVE  /\ Idle \in Commands
         /\ [Idle EXCEPT !.pc = "look", !.kind = kind] \in Commands
         /\ [Idle EXCEPT !.pc = "look", !.kind = kind, !.db = db] \in Commands
  BY DEF Idle, Commands, Places

\* One command goes on.
Alone(c) == \A q \in Cmds \ {c} : cmd'[q] = cmd[q]

\* A step of one command leaves the others alone.
LEMMA CommandSet ==
  ASSUME Types, NEW c \in Cmds, NEW new \in Commands, cmd' = [cmd EXCEPT ![c] = new]
  PROVE  cmd' \in [Cmds -> Commands] /\ cmd'[c] = new /\ Alone(c)
  BY DEF Types, Alone

\* A command that goes on keeps what it holds.
LEMMA Going ==
  ASSUME Types, NEW c \in Cmds, NEW pc \in Places, Goes(c, pc)
  PROVE  /\ cmd' \in [Cmds -> Commands] /\ Alone(c)
         /\ cmd'[c].pc = pc /\ cmd'[c].kind = cmd[c].kind /\ cmd'[c].db = cmd[c].db
         /\ cmd'[c].pid = cmd[c].pid /\ cmd'[c].port = cmd[c].port
  <1>1. cmd[c] \in Commands
    BY DEF Types
  <1>2. [cmd[c] EXCEPT !.pc = pc] \in Commands
    BY <1>1 DEF Commands
  <1>3. cmd'[c] = [cmd[c] EXCEPT !.pc = pc]
    BY DEF Goes, Types
  <1>4. cmd' = [cmd EXCEPT ![c] = [cmd[c] EXCEPT !.pc = pc]]
    BY DEF Goes
  <1> QED
    BY <1>1, <1>2, <1>3, <1>4, CommandSet DEF Commands

\* A command that ends holds nothing, the lock included.
LEMMA Ending ==
  ASSUME Types, NEW c \in Cmds, Ends(c)
  PROVE  /\ cmd' \in [Cmds -> Commands] /\ Alone(c) /\ cmd'[c].pc = "idle"
         /\ Unlocked(c)
  <1>1. Idle \in Commands /\ Idle.pc = "idle"
    BY LocalAssumption, BeginTypes DEF Idle
  <1> QED
    BY <1>1, CommandSet DEF Ends

\* The lock passes from nobody to the command, or stays, or is given back.
LEMMA LocksKept ==
  ASSUME Locks, NEW c \in Cmds, Alone(c),
         lock' = lock \/ Unlocked(c) \/ (LockFree /\ lock' = c),
         StartsOne(cmd'[c]) => lock' = c /\ cmd'[c].db \in Dbs
  PROVE  Locks'
  <1>1. ASSUME NEW q \in Cmds \ {c}, StartsOne(cmd'[q])
        PROVE  lock' = q /\ cmd'[q].db \in Dbs
    <2>1. lock = q /\ cmd[q].db \in Dbs /\ cmd'[q] = cmd[q]
      BY <1>1 DEF Locks, Alone
    <2> QED
      BY <2>1, LocalAssumption DEF Unlocked, LockFree
  <1>2. Locks' <=> \A q \in Cmds : StartsOne(cmd'[q]) => lock' = q /\ cmd'[q].db \in Dbs
    BY DEF Locks, StartsOne
  <1> QED
    BY <1>1, <1>2

\* Two commands that are to start a server are the same command.
LEMMA OneStarts ==
  ASSUME Locks, NEW c \in Cmds, NEW q \in Cmds, StartsOne(cmd[c]), StartsOne(cmd[q])
  PROVE  c = q
  BY DEF Locks

\* A change behind one pid leaves the others alone.
LEMMA ProcessSet ==
  ASSUME Types, NEW p \in Pids, NEW new \in Processes \cup {Free}, proc' = [proc EXCEPT ![p] = new]
  PROVE  /\ proc' \in [Pids -> Processes \cup {Free}]
         /\ proc'[p] = new /\ \A q \in Pids \ {p} : proc'[q] = proc[q]
         /\ \A q \in Pids \ {p} : q \in Servers' <=> q \in Servers
         /\ p \in Servers' <=> new # Free /\ new.kind = "server"
  <1>1. /\ proc' \in [Pids -> Processes \cup {Free}]
        /\ proc'[p] = new /\ \A q \in Pids \ {p} : proc'[q] = proc[q]
    BY DEF Types
  <1> QED
    BY <1>1 DEF Servers, Alive

-----------------------------------------------------------------------------
(* Steps that write nothing: servers may end, and commands go on that       *)
(* neither write nor are about to.                                          *)

Writing == {"pid", "portfile", "dbfile"}

Fades ==
  /\ Servers' \subseteq Servers /\ lost' = lost \cap Servers'
  /\ \A p \in Servers' : proc'[p].db = proc[p].db
  /\ UNCHANGED <<fileVars, adrift>>

Quiet(c) ==
  /\ cmd[c].pc \notin Writing /\ cmd'[c].pc \notin Writing
  /\ cmd'[c].pc \in {"port", "spawn"} => cmd[c].pc \in {"port", "spawn"} \/ pidFile \notin Servers
  /\ cmd'[c].pc \in {"classify", "wait"} => cmd'[c].pid \in Pids

\* Processes that end, or stop being servers, keep the parts about the state files.
LEMMA FadingKeeps ==
  ASSUME IInv, Fades, \A c \in Cmds : cmd'[c] = cmd[c] \/ Quiet(c)
  PROVE  Known' /\ Straight' /\ Own' /\ Described'
  <1>0. /\ Types /\ Known /\ Straight /\ Own /\ Described
        /\ UNCHANGED <<pidFile, portFile, dbFile, adrift>>
        /\ Servers' \subseteq Servers /\ lost' = lost \cap Servers'
    BY DEF IInv, Fades, fileVars
  <1>1. ASSUME NEW c \in Cmds, cmd[c].pc \in Writing \/ cmd'[c].pc \in Writing
        PROVE  cmd'[c] = cmd[c]
    BY <1>1 DEF Quiet
  <1>2. Known'
    <2>1. ASSUME NEW p \in Servers', p \notin lost'
          PROVE  p = pidFile' \/ \E c \in Cmds : cmd'[c].pc = "pid" /\ cmd'[c].pid = p
      <3>1. p \in Servers \ lost
        BY <1>0, <2>1
      <3>2. CASE p = pidFile
        BY <1>0, <3>2
      <3>3. ASSUME NEW c \in Cmds, cmd[c].pc = "pid" /\ cmd[c].pid = p
            PROVE  cmd'[c].pc = "pid" /\ cmd'[c].pid = p
        BY <1>1, <3>3 DEF Writing
      <3> QED
        BY <1>0, <3>1, <3>2, <3>3 DEF Known
    <2>2. ASSUME NEW c \in Cmds
          PROVE  /\ cmd'[c].pc \in {"port", "spawn"} => pidFile' \notin Servers'
                 /\ cmd'[c].pc = "pid" => pidFile' \notin Servers' \ {cmd'[c].pid}
      <3>1. CASE cmd'[c] = cmd[c]
        BY <1>0, <3>1 DEF Known
      <3>2. CASE Quiet(c)
        BY <1>0, <3>2 DEF Known, Quiet, Writing
      <3> QED
        BY <3>1, <3>2
    <2> QED
      BY <2>1, <2>2 DEF Known
  <1>3. Straight'
    BY <1>0, <1>1 DEF Straight, Writing
  <1>4. Own'
    <2>1. ASSUME NEW c \in Cmds, cmd'[c].pc \in Writing
          PROVE  /\ cmd'[c].pc \in {"portfile", "dbfile"} => pidFile' \in {NoPid, cmd'[c].pid}
                 /\ cmd'[c].pid \in Pids
                 /\ cmd'[c].pid \in Servers' => proc'[cmd'[c].pid].db = cmd'[c].db
      <3>1. cmd'[c] = cmd[c]
        BY <1>1, <2>1
      <3> QED
        BY <1>0, <2>1, <3>1 DEF Own, Fades, Writing
    <2>2. ASSUME NEW c \in Cmds, cmd'[c].pc \in {"classify", "wait"}
          PROVE  cmd'[c].pid \in Pids
      BY <1>0, <2>2 DEF Own, Quiet
    <2> QED
      BY <2>1, <2>2 DEF Own, Writing
  <1>5. Described'
    <2>1. ASSUME ~adrift', pidFile' \in Servers'
          PROVE  \/ \E c \in Cmds : cmd'[c].pc \in {"portfile", "dbfile"}
                 \/ dbFile' = proc'[pidFile'].db
      <3>1. CASE dbFile = proc[pidFile].db
        BY <1>0, <2>1, <3>1 DEF Fades
      <3>2. ASSUME NEW c \in Cmds, cmd[c].pc \in {"portfile", "dbfile"}
            PROVE  cmd'[c].pc \in {"portfile", "dbfile"}
        BY <1>1, <3>2 DEF Writing
      <3> QED
        BY <1>0, <2>1, <3>1, <3>2 DEF Described
    <2> QED
      BY <2>1 DEF Described
  <1> QED
    BY <1>2, <1>3, <1>4, <1>5

\* A command goes on, nothing else changes but the lock.
LEMMA QuietCommand ==
  ASSUME IInv, NEW c \in Cmds, UNCHANGED <<proc, fileVars, pastVars>>,
         cmd' \in [Cmds -> Commands], Alone(c), Quiet(c), Locks'
  PROVE  IInv'
  <1>1. Types' /\ Fades
    BY DEF IInv, Types, Fades, Servers, Alive, fileVars, pastVars
  <1>2. \A q \in Cmds : cmd'[q] = cmd[q] \/ Quiet(q)
    BY DEF Alone
  <1> QED
    BY <1>1, <1>2, FadingKeeps DEF IInv

\* A command that begins keeps the invariant.
LEMMA BeginKeeps ==
  ASSUME IInv, NEW c \in Cmds, (\E db \in Dbs : Start(c, db)) \/ Ensure(c) \/ Stop(c)
  PROVE  IInv'
  <1>0. Types /\ Locks
    BY DEF IInv
  <1>1. ASSUME NEW kind \in {"start", "ensure"}, NEW db \in Dbs, Begin(c, kind, db)
        PROVE  IInv'
    <2> DEFINE new == [Idle EXCEPT !.pc = "look", !.kind = kind, !.db = db]
    <2>1. new \in Commands /\ new.pc = "look" /\ new.kind = kind /\ new.db = db
      BY BeginTypes DEF Idle
    <2>2. cmd' = [cmd EXCEPT ![c] = new] /\ cmd[c].pc = "idle" /\ LockFree /\ lock' = c
      BY <1>1 DEF Begin
    <2> HIDE DEF new
    <2>3. cmd' \in [Cmds -> Commands] /\ cmd'[c] = new /\ Alone(c)
      BY <1>0, <2>1, <2>2, CommandSet
    <2>4. Locks'
      BY <1>0, <2>1, <2>2, <2>3, LocksKept
    <2>5. Quiet(c)
      BY <2>1, <2>2, <2>3 DEF Quiet, Writing
    <2> QED
      BY <1>1, <2>3, <2>4, <2>5, QuietCommand DEF Begin
  <1>2. CASE Stop(c)
    <2> DEFINE new == [Idle EXCEPT !.pc = "look", !.kind = "stop"]
    <2>1. new \in Commands /\ new.pc = "look" /\ new.kind = "stop"
      BY BeginTypes, LocalAssumption DEF Idle
    <2>2. cmd' = [cmd EXCEPT ![c] = new] /\ cmd[c].pc = "idle" /\ UNCHANGED lock
      BY <1>2 DEF Stop
    <2> HIDE DEF new
    <2>3. cmd' \in [Cmds -> Commands] /\ cmd'[c] = new /\ Alone(c)
      BY <1>0, <2>1, <2>2, CommandSet
    <2>4. Locks'
      BY <1>0, <2>1, <2>2, <2>3, LocksKept, PlaceNames DEF StartsOne
    <2>5. Quiet(c)
      BY <2>1, <2>2, <2>3 DEF Quiet, Writing
    <2> QED
      BY <1>2, <2>3, <2>4, <2>5, QuietCommand DEF Stop, pastVars
  <1> QED
    BY <1>1, <1>2, LocalAssumption DEF Start, Ensure

\* The command ends.
LEMMA EndKeeps ==
  ASSUME IInv, NEW c \in Cmds, UNCHANGED <<proc, fileVars, pastVars>>, Ends(c), cmd[c].pc \notin Writing
  PROVE  IInv'
  <1>1. cmd' \in [Cmds -> Commands] /\ Alone(c) /\ cmd'[c].pc = "idle" /\ Unlocked(c)
    BY Ending DEF IInv
  <1>2. Locks'
    BY <1>1, LocksKept DEF IInv, StartsOne, Spawning
  <1>3. Quiet(c)
    BY <1>1 DEF Quiet, Writing
  <1> QED
    BY <1>1, <1>2, <1>3, QuietCommand

\* The command goes to another place that is not one of writing.
LEMMA GoKeeps ==
  ASSUME IInv, NEW c \in Cmds, NEW pc \in Places, UNCHANGED <<proc, fileVars, pastVars, lock>>,
         Goes(c, pc), cmd[c].pc \notin Writing \cup {"idle"}, pc \notin Writing,
         pc \notin {"classify", "wait"}, pc \in Spawning => cmd[c].kind # "stop" \/ cmd[c].pc \in Spawning,
         pc \in {"port", "spawn"} => pidFile \notin Servers \/ cmd[c].pc \in {"port", "spawn"}
  PROVE  IInv'
  <1>1. /\ cmd' \in [Cmds -> Commands] /\ Alone(c) /\ cmd'[c].pc = pc
        /\ cmd'[c].kind = cmd[c].kind /\ cmd'[c].db = cmd[c].db
    BY Going DEF IInv
  <1>2. Locks'
    <2>1. StartsOne(cmd'[c]) => StartsOne(cmd[c])
      BY <1>1 DEF StartsOne
    <2> QED
      BY <1>1, <2>1, LocksKept DEF IInv, Locks
  <1>3. Quiet(c)
    BY <1>1 DEF Quiet
  <1> QED
    BY <1>1, <1>2, <1>3, QuietCommand

\* So does its look at the state files.
LEMMA LookKeeps ==
  ASSUME IInv, NEW c \in Cmds, Look(c)
  PROVE  IInv'
  <1>0. Types /\ Locks /\ cmd[c] \in Commands
    BY DEF IInv, Types
  <1>1. cmd[c].pc = "look" /\ UNCHANGED <<proc, fileVars, pastVars>> /\ cmd[c].pc \notin Writing \cup {"idle"}
    BY DEF Look, Writing
  <1>2. CASE Ends(c)
    BY <1>1, <1>2, EndKeeps
  <1>3. CASE pidFile \notin Servers /\ Goes(c, "port") /\ cmd[c].kind # "stop" /\ UNCHANGED lock
    BY <1>1, <1>3, GoKeeps, PlaceNames DEF Writing
  <1>4. CASE Goes(c, "sweep") /\ UNCHANGED lock
    BY <1>1, <1>4, GoKeeps, PlaceNames DEF Writing
  <1>5. CASE cmd' = [cmd EXCEPT ![c].pc = "classify", ![c].pid = pidFile] /\ UNCHANGED lock /\ pidFile # NoPid
    <2> DEFINE new == [cmd[c] EXCEPT !.pc = "classify", !.pid = pidFile]
    <2>1. new \in Commands
      BY <1>0, CommandTypes, PlaceNames, LocalAssumption DEF Types
    <2>2. new.pc = "classify" /\ new.kind = cmd[c].kind /\ new.db = cmd[c].db /\ new.pid = pidFile
      BY <1>0 DEF Commands
    <2>3. cmd' = [cmd EXCEPT ![c] = new]
      BY <1>5
    <2> HIDE DEF new
    <2>4. cmd' \in [Cmds -> Commands] /\ cmd'[c] = new /\ Alone(c)
      BY <1>0, <2>1, <2>3, CommandSet
    <2>5. Locks'
      <3>1. StartsOne(new) => StartsOne(cmd[c])
        BY <1>1, <2>2, PlaceNames DEF StartsOne
      <3> QED
        BY <1>0, <1>5, <2>2, <2>4, <3>1, LocksKept DEF Locks
    <2>6. Quiet(c)
      BY <1>0, <1>1, <1>5, <2>2, <2>4 DEF Quiet, Writing, Types
    <2> QED
      BY <1>1, <2>4, <2>5, <2>6, QuietCommand
  <1>6. CASE pidFile = NoPid
    <2>1. pidFile \notin Servers
      BY <1>6, LocalAssumption DEF Servers
    <2> QED
      BY <1>2, <1>3, <1>6, <2>1 DEF Look
  <1>7. CASE pidFile # NoPid /\ ~Alive(pidFile)
    <2>1. pidFile \notin Servers
      BY <1>7 DEF Servers
    <2>2. Goes(c, IF cmd[c].kind = "ensure" THEN "port" ELSE "sweep") /\ UNCHANGED lock
      BY <1>7 DEF Look
    <2> QED
      BY <1>3, <1>4, <2>1, <2>2
  <1> QED
    BY <1>5, <1>6, <1>7 DEF Look

\* So does the choice of a port.
LEMMA PickPortKeeps ==
  ASSUME IInv, NEW c \in Cmds, PickPort(c)
  PROVE  IInv'
  <1>0. Types /\ Locks /\ cmd[c] \in Commands
    BY DEF IInv, Types
  <1> DEFINE port == Min(Candidates(c))
             new == [cmd[c] EXCEPT !.pc = "spawn", !.port = port]
  <1>1. port \in Ports
    <2>1. DefaultPort \in Ports
      BY LocalAssumption, MinProperties DEF DefaultPort
    <2>2. Candidates(c) \subseteq Ports /\ Candidates(c) # {}
      BY <2>1 DEF Candidates, PickPort
    <2> QED
      BY <2>2, LocalAssumption, MinProperties
  <1>2. cmd' = [cmd EXCEPT ![c] = new] /\ cmd[c].pc = "port" /\ UNCHANGED <<proc, fileVars, lock, pastVars>>
    BY DEF PickPort
  <1> HIDE DEF port
  <1>3. new \in Commands
    BY <1>0, <1>1, CommandTypes, PlaceNames, LocalAssumption
  <1>4. new.pc = "spawn" /\ new.kind = cmd[c].kind /\ new.db = cmd[c].db
    BY <1>0 DEF Commands
  <1> HIDE DEF new
  <1>5. cmd' \in [Cmds -> Commands] /\ cmd'[c] = new /\ Alone(c)
    BY <1>0, <1>2, <1>3, CommandSet
  <1>6. Locks'
    <2>1. StartsOne(cmd[c])
      BY <1>2, PlaceNames DEF StartsOne
    <2> QED
      BY <1>0, <1>2, <1>4, <1>5, <2>1, LocksKept DEF Locks
  <1>7. Quiet(c)
    BY <1>2, <1>4, <1>5 DEF Quiet, Writing
  <1> QED
    BY <1>2, <1>5, <1>6, <1>7, QuietCommand

\* So does a signal.
LEMMA SignalKeeps ==
  ASSUME IInv, NEW c \in Cmds, Signal(c)
  PROVE  IInv'
  <1>0. Types /\ Locks /\ lost \subseteq Servers
    BY DEF IInv, Types
  <1>1. /\ cmd' \in [Cmds -> Commands] /\ Alone(c) /\ cmd'[c].pc = "wait" /\ cmd[c].pc = "classify"
        /\ cmd'[c].kind = cmd[c].kind /\ cmd'[c].db = cmd[c].db /\ cmd'[c].pid = cmd[c].pid
        /\ UNCHANGED <<fileVars, lock, pastVars>>
    BY <1>0, Going, PlaceNames DEF Signal
  <1>2. Locks'
    <2>1. StartsOne(cmd'[c]) => StartsOne(cmd[c])
      BY <1>1, PlaceNames DEF StartsOne
    <2> QED
      BY <1>0, <1>1, <2>1, LocksKept DEF Locks
  <1>3. /\ proc' \in [Pids -> Processes \cup {Free}] /\ Servers' = Servers
        /\ \A p \in Servers : proc'[p].db = proc[p].db
    <2>1. CASE UNCHANGED proc
      BY <1>0, <2>1 DEF Types, Servers, Alive
    <2>2. CASE cmd[c].pid \notin Pids
      BY <1>0, <2>2 DEF Signal, Types, Servers, Alive
    <2>3. ASSUME NEW p \in Pids, p = cmd[c].pid, Alive(p), proc' = [proc EXCEPT ![p].state = "dying"]
          PROVE  /\ proc' \in [Pids -> Processes \cup {Free}] /\ Servers' = Servers
                 /\ \A q \in Servers : proc'[q].db = proc[q].db
      <3> DEFINE new == [proc[p] EXCEPT !.state = "dying"]
      <3>1. proc[p] \in Processes
        BY <1>0, <2>3 DEF Types, Alive
      <3>2. new \in Processes /\ new.kind = proc[p].kind /\ new.db = proc[p].db
        BY <3>1 DEF Processes
      <3>3. proc' = [proc EXCEPT ![p] = new] /\ new # Free
        BY <2>3, <3>2, FreeAssumption
      <3> HIDE DEF new
      <3>4. /\ proc' \in [Pids -> Processes \cup {Free}] /\ proc'[p] = new
            /\ \A q \in Pids \ {p} : proc'[q] = proc[q] /\ (q \in Servers' <=> q \in Servers)
            /\ p \in Servers' <=> new.kind = "server"
        BY <1>0, <3>2, <3>3, ProcessSet
      <3>5. p \in Servers <=> new.kind = "server"
        BY <2>3, <3>2 DEF Servers
      <3>6. Servers' \subseteq Pids /\ Servers \subseteq Pids
        BY DEF Servers
      <3> QED
        BY <3>2, <3>4, <3>5, <3>6
    <2> QED
      BY <2>1, <2>2, <2>3 DEF Signal
  <1>4. Types' /\ Fades
    BY <1>0, <1>1, <1>3 DEF Types, Fades, fileVars, pastVars
  <1>5. \A q \in Cmds : cmd'[q] = cmd[q] \/ Quiet(q)
    BY <1>1 DEF Alone, Quiet, Writing, IInv, Own
  <1> QED
    BY <1>2, <1>4, <1>5, FadingKeeps DEF IInv

\* Servers bind, hang and die, pids are reused.
LEMMA ProcessKeeps ==
  ASSUME IInv, NEW p \in Pids,
         ProcessStep(p) \/ Hangs(p) \/ Crashes(p) \/ Reused(p) \/ OtherExits(p)
  PROVE  IInv'
  <1>0. Types /\ Locks /\ lost \subseteq Servers
    BY DEF IInv, Types
  <1>1. UNCHANGED <<fileVars, lock, cmd, adrift>>
    BY DEF ProcessStep, Binds, Dies, Hangs, Crashes, Reused, OtherExits, Exits, pastVars
  <1>2. CASE Exits(p)
    <2>1. /\ proc' \in [Pids -> Processes \cup {Free}]
          /\ \A q \in Pids \ {p} : proc'[q] = proc[q] /\ (q \in Servers' <=> q \in Servers)
          /\ p \notin Servers' /\ lost' = lost \ {p}
      BY <1>0, <1>2, ProcessSet DEF Exits
    <2>2. Servers' \subseteq Pids /\ Servers \subseteq Pids
      BY DEF Servers
    <2>3. /\ Servers' \subseteq Servers /\ lost' = lost \cap Servers'
          /\ \A q \in Servers' : proc'[q].db = proc[q].db
      BY <1>0, <2>1, <2>2
    <2> QED
      BY <1>0, <1>1, <2>1, <2>3, FadingKeeps DEF IInv, Types, Locks, Fades, fileVars
  <1>3. ASSUME p \in Servers, NEW state \in {"up", "hung"}, proc' = [proc EXCEPT ![p].state = state],
               UNCHANGED lost
        PROVE  IInv'
    <2> DEFINE new == [proc[p] EXCEPT !.state = state]
    <2>1. proc[p] \in Processes /\ proc[p].kind = "server"
      BY <1>0, <1>3 DEF Types, Servers, Alive
    <2>2. new \in Processes /\ new.kind = "server" /\ new.db = proc[p].db
      BY <2>1 DEF Processes
    <2>3. proc' = [proc EXCEPT ![p] = new] /\ new # Free
      BY <1>3, <2>2, FreeAssumption
    <2> HIDE DEF new
    <2>4. /\ proc' \in [Pids -> Processes \cup {Free}] /\ proc'[p] = new
          /\ \A q \in Pids \ {p} : proc'[q] = proc[q] /\ (q \in Servers' <=> q \in Servers)
          /\ p \in Servers'
      BY <1>0, <2>2, <2>3, ProcessSet
    <2>5. Servers' \subseteq Pids /\ Servers \subseteq Pids
      BY DEF Servers
    <2>6. /\ Servers' \subseteq Servers /\ lost' = lost \cap Servers'
          /\ \A q \in Servers' : proc'[q].db = proc[q].db
      BY <1>0, <1>3, <2>2, <2>4, <2>5
    <2> QED
      BY <1>0, <1>1, <2>4, <2>6, FadingKeeps DEF IInv, Types, Locks, Fades, fileVars
  <1>4. CASE Reused(p)
    <2>1. Other \in Processes /\ Other.kind = "other"
      BY DEF Other, Processes
    <2>2. proc' = [proc EXCEPT ![p] = Other] /\ p \notin Servers /\ UNCHANGED lost
      BY <1>4 DEF Reused, Available, Servers, pastVars
    <2>3. /\ proc' \in [Pids -> Processes \cup {Free}] /\ proc'[p] = Other
          /\ \A q \in Pids \ {p} : proc'[q] = proc[q] /\ (q \in Servers' <=> q \in Servers)
          /\ p \notin Servers'
      BY <1>0, <2>1, <2>2, ProcessSet
    <2>4. Servers' \subseteq Pids /\ Servers \subseteq Pids
      BY DEF Servers
    <2>5. /\ Servers' \subseteq Servers /\ lost' = lost \cap Servers'
          /\ \A q \in Servers' : proc'[q].db = proc[q].db
      BY <1>0, <2>2, <2>3, <2>4
    <2> QED
      BY <1>0, <1>1, <2>3, <2>5, FadingKeeps DEF IInv, Types, Locks, Fades, fileVars
  <1> QED
    BY <1>2, <1>3, <1>4 DEF ProcessStep, Binds, Dies, Hangs, Crashes, OtherExits, pastVars

-----------------------------------------------------------------------------
(* Steps that write                                                        *)

\* So does the removal of the state files.
LEMMA SweepKeeps ==
  ASSUME IInv, NEW c \in Cmds, Sweep(c)
  PROVE  IInv'
  <1>0. /\ Types /\ Locks /\ Known /\ Straight /\ Own /\ cmd[c].pc = "sweep" /\ UNCHANGED proc
        /\ pidFile' = NoPid /\ NoPid \notin Servers
        /\ lost' = lost \cup ({pidFile} \cap Servers) /\ adrift' = (lost' # {})
    BY LocalAssumption DEF IInv, Sweep, Servers
  <1>1. /\ cmd' \in [Cmds -> Commands] /\ Alone(c) /\ cmd'[c].pc \in {"idle", "port"} /\ Locks'
    <2>1. CASE Ends(c) /\ cmd[c].kind = "stop"
      <3>1. cmd' \in [Cmds -> Commands] /\ Alone(c) /\ cmd'[c].pc = "idle" /\ Unlocked(c)
        BY <1>0, <2>1, Ending
      <3> QED
        BY <1>0, <3>1, LocksKept DEF StartsOne, Spawning
    <2>2. CASE Goes(c, "port") /\ cmd[c].kind # "stop" /\ UNCHANGED lock
      <3>1. /\ cmd' \in [Cmds -> Commands] /\ Alone(c) /\ cmd'[c].pc = "port"
            /\ cmd'[c].kind = cmd[c].kind /\ cmd'[c].db = cmd[c].db
        BY <1>0, <2>2, Going, PlaceNames
      <3>2. StartsOne(cmd[c])
        BY <1>0, <2>2 DEF StartsOne
      <3> QED
        BY <1>0, <2>2, <3>1, <3>2, LocksKept DEF Locks
    <2> QED
      BY <2>1, <2>2 DEF Sweep
  <1>2. Servers' = Servers
    BY <1>0 DEF Servers, Alive
  <1>3. Types'
    BY <1>0, <1>1, <1>2 DEF Types
  <1>4. Known'
    <2>1. ASSUME NEW p \in Servers', p \notin lost'
          PROVE  \E q \in Cmds : cmd'[q].pc = "pid" /\ cmd'[q].pid = p
      <3>1. p \in Servers \ lost /\ p # pidFile
        BY <1>0, <1>2, <2>1
      <3>2. PICK q \in Cmds : cmd[q].pc = "pid" /\ cmd[q].pid = p
        BY <1>0, <3>1 DEF Known
      <3>3. cmd'[q] = cmd[q]
        BY <1>0, <1>1, <3>2 DEF Alone
      <3> QED
        BY <3>2, <3>3
    <2> QED
      BY <1>0, <1>2, <2>1 DEF Known
  <1>5. Straight'
    BY <1>0 DEF Straight
  <1>6. Own'
    <2>1. ASSUME NEW q \in Cmds, cmd'[q].pc \in Writing
          PROVE  /\ cmd'[q].pid \in Pids
                 /\ cmd'[q].pid \in Servers' => proc'[cmd'[q].pid].db = cmd'[q].db
      <3>1. cmd'[q] = cmd[q]
        BY <1>1, <2>1 DEF Alone, Writing
      <3> QED
        BY <1>0, <1>2, <2>1, <3>1 DEF Own, Writing
    <2>2. ASSUME NEW q \in Cmds, cmd'[q].pc \in {"classify", "wait"}
          PROVE  cmd'[q].pid \in Pids
      BY <1>0, <1>1, <2>2 DEF Own, Alone
    <2> QED
      BY <1>0, <2>1, <2>2 DEF Own, Writing
  <1>7. Described'
    BY <1>0, <1>2 DEF Described
  <1> QED
    BY <1>1, <1>3, <1>4, <1>5, <1>6, <1>7 DEF IInv

\* So does a spawn.
LEMMA SpawnKeeps ==
  ASSUME IInv, NEW c \in Cmds, Spawn(c)
  PROVE  IInv'
  <1>0. /\ Types /\ Locks /\ Known /\ Straight /\ Own /\ cmd[c] \in Commands
        /\ cmd[c].pc = "spawn" /\ UNCHANGED <<pidFile, portFile, dbFile, lock, lost>>
        /\ adrift' = (adrift \/ pidFile # NoPid)
    BY DEF IInv, Spawn, fileVars, Types
  <1>1. PICK p \in NewPids :
          /\ proc' = [proc EXCEPT ![p] = Server(cmd[c].port, cmd[c].db)]
          /\ cmd' = [cmd EXCEPT ![c].pc = "pid", ![c].pid = p]
    BY DEF Spawn
  <1>2. p \in Pids /\ p \notin Servers
    <2>1. Available \subseteq Pids
      BY DEF Available
    <2>2. p \in Available
      <3>1. Available \ {pidFile} # {} => Min(Available \ {pidFile}) \in Available
        BY <2>1, LocalAssumption, MinProperties
      <3> QED
        BY <3>1 DEF NewPids
    <2> QED
      BY <2>1, <2>2 DEF Available, Servers
  <1>3. StartsOne(cmd[c]) /\ cmd[c].db \in Dbs
    BY <1>0 DEF Locks, StartsOne, Spawning
  <1>4. \A q \in Cmds \ {c} : cmd[q].pc \notin Spawning
    BY <1>0, <1>3, OneStarts DEF StartsOne, Spawning
  <1>5. /\ cmd' \in [Cmds -> Commands] /\ Alone(c)
        /\ cmd'[c].pc = "pid" /\ cmd'[c].pid = p /\ cmd'[c].kind = cmd[c].kind /\ cmd'[c].db = cmd[c].db
    <2> DEFINE new == [cmd[c] EXCEPT !.pc = "pid", !.pid = p]
    <2>1. new \in Commands
      BY <1>0, <1>2, CommandTypes, PlaceNames, LocalAssumption
    <2>2. /\ new.pc = "pid" /\ new.pid = p /\ new.kind = cmd[c].kind /\ new.db = cmd[c].db
      BY <1>0 DEF Commands
    <2>3. cmd' = [cmd EXCEPT ![c] = new]
      BY <1>1
    <2> HIDE DEF new
    <2> QED
      BY <1>0, <2>1, <2>2, <2>3, CommandSet
  <1>6. Locks'
    BY <1>0, <1>3, <1>5, LocksKept DEF Locks
  <1>7. /\ proc' \in [Pids -> Processes \cup {Free}] /\ proc'[p].db = cmd[c].db
        /\ \A q \in Pids \ {p} : proc'[q] = proc[q] /\ (q \in Servers' <=> q \in Servers)
        /\ p \in Servers'
    <2> DEFINE new == Server(cmd[c].port, cmd[c].db)
    <2>1. new \in Processes /\ new.kind = "server" /\ new.db = cmd[c].db
      BY <1>0 DEF Server, Processes, Commands
    <2>2. new # Free
      BY <2>1, FreeAssumption
    <2>3. proc' = [proc EXCEPT ![p] = new]
      BY <1>1
    <2> HIDE DEF new
    <2> QED
      BY <1>0, <1>2, <2>1, <2>2, <2>3, ProcessSet
  <1>8. Servers' = Servers \cup {p} /\ Servers \subseteq Pids
    <2>1. Servers' \subseteq Pids /\ Servers \subseteq Pids
      BY DEF Servers
    <2> QED
      BY <1>2, <1>7, <2>1
  <1>9. Types'
    BY <1>0, <1>2, <1>3, <1>5, <1>7, <1>8 DEF Types
  <1>10. Known'
    <2>1. ASSUME NEW q \in Servers', q \notin lost'
          PROVE  q = pidFile' \/ \E d \in Cmds : cmd'[d].pc = "pid" /\ cmd'[d].pid = q
      <3>1. CASE q = p
        BY <1>5, <3>1
      <3>2. CASE q = pidFile
        BY <1>0, <3>2
      <3>3. ASSUME NEW d \in Cmds, cmd[d].pc = "pid" /\ cmd[d].pid = q
            PROVE  cmd'[d].pc = "pid" /\ cmd'[d].pid = q
        BY <1>0, <1>5, <3>3 DEF Alone
      <3> QED
        BY <1>0, <1>8, <2>1, <3>1, <3>2, <3>3 DEF Known
    <2>2. ASSUME NEW d \in Cmds, cmd'[d].pc \in Spawning
          PROVE  d = c
      BY <1>4, <1>5, <2>2 DEF Alone
    <2>3. pidFile' \notin Servers' \ {p}
      BY <1>0, <1>8 DEF Known
    <2> QED
      BY <1>5, <2>1, <2>2, <2>3 DEF Known, Spawning
  <1>11. Straight' /\ Own' /\ Described'
    <2>1. ASSUME NEW d \in Cmds, cmd'[d].pc \in Spawning
          PROVE  d = c
      BY <1>4, <1>5, <2>1 DEF Alone
    <2>2. Straight'
      BY <1>0, <2>1 DEF Straight, Spawning
    <2>3. Own'
      <3>1. ASSUME NEW d \in Cmds, cmd'[d].pc \in {"classify", "wait"}
            PROVE  cmd'[d].pid \in Pids
        BY <1>0, <1>5, <3>1 DEF Own, Alone
      <3> QED
        BY <1>2, <1>5, <1>7, <2>1, <3>1 DEF Own, Spawning
    <2>4. NoPid \notin Servers'
      BY <1>2, <1>8, LocalAssumption
    <2> QED
      BY <1>0, <2>2, <2>3, <2>4 DEF Described
  <1> QED
    BY <1>6, <1>9, <1>10, <1>11 DEF IInv

\* The three files, one after another.
LEMMA WriteKeeps ==
  ASSUME IInv, NEW c \in Cmds, WritePid(c) \/ WritePort(c) \/ WriteDb(c)
  PROVE  IInv'
  <1>0. /\ Types /\ Locks /\ Known /\ Straight /\ Own
        /\ cmd[c].pc \in Writing /\ UNCHANGED <<proc, lock, lost>>
    BY DEF IInv, WritePid, WritePort, WriteDb, pastVars, Writing
  <1>1. StartsOne(cmd[c]) /\ \A q \in Cmds \ {c} : cmd[q].pc \notin Spawning
    BY <1>0, OneStarts DEF StartsOne, Spawning, Writing
  <1>2. /\ cmd' \in [Cmds -> Commands] /\ Alone(c)
        /\ cmd'[c].kind = cmd[c].kind /\ cmd'[c].db = cmd[c].db /\ cmd'[c].pid = cmd[c].pid
        /\ \/ cmd[c].pc = "pid" /\ cmd'[c].pc = "portfile"
           \/ cmd[c].pc = "portfile" /\ cmd'[c].pc = "dbfile"
           \/ cmd[c].pc = "dbfile" /\ cmd'[c].pc = "await"
    BY <1>0, Going, PlaceNames DEF WritePid, WritePort, WriteDb
  <1>3. Locks'
    BY <1>0, <1>1, <1>2, LocksKept DEF Locks
  <1>4. Servers' = Servers /\ cmd[c].pid \in Pids /\ NoPid \notin Servers
    BY <1>0, LocalAssumption DEF Servers, Alive, Own, Writing
  <1>5. ASSUME NEW d \in Cmds, cmd'[d].pc \in Spawning
        PROVE  d = c
    BY <1>1, <1>2, <1>5 DEF Alone
  <1>6. ASSUME NEW d \in Cmds, cmd'[d].pc \in {"classify", "wait"}
        PROVE  cmd'[d].pid \in Pids
    BY <1>0, <1>2, <1>6 DEF Own, Alone
  <1>7. CASE WritePid(c)
    <2>1. pidFile' = cmd[c].pid /\ UNCHANGED adrift /\ cmd[c].pc = "pid" /\ cmd'[c].pc = "portfile"
      BY <1>2, <1>7 DEF WritePid, pastVars
    <2>2. Types'
      BY <1>0, <1>2, <1>4, <2>1 DEF Types
    <2>3. Known'
      <3>1. ASSUME NEW p \in Servers \ lost
            PROVE  p = cmd[c].pid
        <4>1. CASE p = pidFile
          BY <1>0, <2>1, <4>1 DEF Known
        <4>2. ASSUME NEW q \in Cmds, cmd[q].pc = "pid", cmd[q].pid = p
              PROVE  p = cmd[c].pid
          BY <1>1, <4>2 DEF Spawning
        <4> QED
          BY <1>0, <4>1, <4>2 DEF Known
      <3> QED
        BY <1>0, <1>4, <1>5, <2>1, <3>1 DEF Known, Spawning
    <2>4. Straight' /\ Described'
      BY <1>0, <1>2, <1>4, <1>5, <2>1 DEF Straight, Described, Spawning
    <2>5. Own'
      BY <1>0, <1>2, <1>4, <1>5, <1>6, <2>1 DEF Own, Spawning
    <2> QED
      BY <1>3, <2>2, <2>3, <2>4, <2>5 DEF IInv
  <1>8. CASE WritePort(c) \/ WriteDb(c)
    <2>1. /\ pidFile' = pidFile /\ cmd[c].pc \in {"portfile", "dbfile"}
          /\ cmd'[c].pc \in {"dbfile", "await"} /\ pidFile \in {NoPid, cmd[c].pid}
          /\ cmd[c].pid \in Servers => proc[cmd[c].pid].db = cmd[c].db
      BY <1>0, <1>2, <1>8 DEF WritePort, WriteDb, Own
    <2>2. Types'
      BY <1>0, <1>2, <1>4, <2>1 DEF Types
    <2>3. Known'
      <3>1. \A p \in Servers \ lost : p = pidFile
        BY <1>0, <1>1, <2>1 DEF Known, Spawning
      <3> QED
        BY <1>0, <1>4, <1>5, <2>1, <3>1 DEF Known, Spawning
    <2>4. Own'
      BY <1>0, <1>2, <1>4, <1>5, <1>6, <2>1 DEF Own, Spawning
    <2>5. CASE WritePort(c)
      <3>1. UNCHANGED adrift /\ cmd'[c].pc = "dbfile"
        BY <1>2, <2>5 DEF WritePort, pastVars
      <3> QED
        BY <1>0, <1>3, <1>5, <2>1, <2>2, <2>3, <2>4, <3>1 DEF IInv, Straight, Described, Spawning
    <2>6. CASE WriteDb(c)
      <3>1. adrift' = (lost # {}) /\ dbFile' = cmd[c].db /\ cmd'[c].pc = "await"
        BY <1>2, <2>6 DEF WriteDb
      <3>2. Straight'
        BY <1>0, <1>5, <2>1, <3>1 DEF Straight, Spawning
      <3>3. Described'
        BY <1>0, <1>4, <2>1, <3>1 DEF Described
      <3> QED
        BY <1>3, <2>2, <2>3, <2>4, <3>2, <3>3 DEF IInv
    <2> QED
      BY <1>8, <2>5, <2>6
  <1> QED
    BY <1>7, <1>8

\* So does a command that is killed, with its lock.
LEMMA KilledKeeps ==
  ASSUME IInv, NEW c \in Cmds, Killed(c)
  PROVE  IInv'
  <1>0. /\ Types /\ Locks /\ Known /\ Straight /\ Own /\ Described
        /\ UNCHANGED <<proc, pidFile, portFile, dbFile>>
        /\ lost' = IF cmd[c].pc = "pid" THEN lost \cup ({cmd[c].pid} \cap Servers) ELSE lost
        /\ adrift' = (adrift \/ cmd[c].pc \in Writing)
    BY DEF IInv, Killed, fileVars, Writing
  <1>1. cmd' \in [Cmds -> Commands] /\ Alone(c) /\ cmd'[c].pc = "idle" /\ Unlocked(c)
    BY <1>0, Ending DEF Killed
  <1>2. Locks'
    BY <1>0, <1>1, LocksKept DEF StartsOne, Spawning
  <1>3. Servers' = Servers
    BY <1>0 DEF Servers, Alive
  <1>4. Types'
    BY <1>0, <1>1, <1>3 DEF Types
  <1>5. ASSUME NEW d \in Cmds, cmd'[d].pc # "idle"
        PROVE  d # c /\ cmd'[d] = cmd[d]
    BY <1>1, <1>5 DEF Alone
  <1>6. Known'
    <2>1. ASSUME NEW p \in Servers', p \notin lost', p # pidFile'
          PROVE  \E d \in Cmds : cmd'[d].pc = "pid" /\ cmd'[d].pid = p
      <3>1. PICK d \in Cmds : cmd[d].pc = "pid" /\ cmd[d].pid = p
        BY <1>0, <1>3, <2>1 DEF Known
      <3>2. d # c
        BY <1>0, <1>3, <2>1, <3>1
      <3> QED
        BY <1>1, <3>1, <3>2 DEF Alone
    <2> QED
      BY <1>0, <1>3, <1>5, <2>1 DEF Known
  <1>7. Straight' /\ Own'
    BY <1>0, <1>3, <1>5 DEF Straight, Own, Writing
  <1>8. Described'
    <2>1. ASSUME ~adrift', NEW d \in Cmds, cmd[d].pc \in {"portfile", "dbfile"}
          PROVE  cmd'[d].pc \in {"portfile", "dbfile"}
      BY <1>0, <1>1, <2>1 DEF Alone, Writing
    <2> QED
      BY <1>0, <1>3, <2>1 DEF Described
  <1> QED
    BY <1>2, <1>4, <1>6, <1>7, <1>8 DEF IInv

-----------------------------------------------------------------------------
(* The invariant *)

\* The invariant holds at first.
LEMMA InitInvariant ==
  Init => IInv
  <1> SUFFICES ASSUME Init
               PROVE  IInv
    OBVIOUS
  <1>1. Idle \in Commands /\ Idle.pc = "idle"
    BY LocalAssumption, BeginTypes DEF Idle
  <1>2. \A c \in Cmds : cmd[c] \in Commands /\ cmd[c].pc = "idle"
    BY <1>1 DEF Init
  <1>3. Servers = {}
    BY DEF Init, Servers, Alive
  <1>4. Types
    BY <1>1, <1>3 DEF Init, Types
  <1> QED
    BY <1>2, <1>3, <1>4 DEF Init, IInv, Locks, StartsOne, Spawning, Known, Straight, Own, Described

\* Every step keeps the invariant.
LEMMA StepInvariant ==
  IInv /\ [Next]_vars => IInv'
  <1> SUFFICES ASSUME IInv, [Next]_vars
               PROVE  IInv'
    OBVIOUS
  <1>1. ASSUME NEW c \in Cmds, Step(c) \/ GivesUp(c)
        PROVE  IInv'
    <2>1. CASE AlreadyRunning(c) \/ RefusesDb(c) \/ PortTaken(c) \/ Awaited(c) \/ TimedOut(c)
      BY <2>1, EndKeeps DEF AlreadyRunning, RefusesDb, PortTaken, Awaited, TimedOut, Writing
    <2>2. CASE Foreign(c) \/ Gone(c) \/ GivesUp(c)
      <3>1. /\ Ends(c) \/ (Goes(c, "sweep") /\ UNCHANGED lock)
            /\ UNCHANGED <<proc, fileVars, pastVars>> /\ cmd[c].pc \in {"classify", "wait"}
        BY <2>2 DEF Foreign, Gone, GivesUp
      <3> QED
        BY <3>1, EndKeeps, GoKeeps, PlaceNames DEF Writing
    <2> QED
      BY <1>1, <2>1, <2>2, LookKeeps, SignalKeeps, SweepKeeps, PickPortKeeps, SpawnKeeps, WriteKeeps DEF Step
  <1>2. CASE UNCHANGED vars
    BY <1>2 DEF IInv, Types, Servers, Alive, Locks, StartsOne, Known, Straight, Own, Described, vars, fileVars, pastVars
  <1> QED
    BY <1>1, <1>2, BeginKeeps, KilledKeeps, ProcessKeeps DEF Next

\* The invariant holds in every state.
LEMMA Invariance == Spec => []IInv
  BY InitInvariant, StepInvariant, PTL DEF Spec

-----------------------------------------------------------------------------
(* Theorems *)

\* One server at most runs that the commands have not lost.
THEOREM AtMostOneServer == Spec => []OneServer
  <1>1. ASSUME IInv
        PROVE  OneServer
    <2>1. ASSUME NEW p \in Servers \ lost, NEW q \in Servers \ lost
          PROVE  p = q
      <3>1. ASSUME NEW r \in Servers \ lost
            PROVE  r = pidFile \/ \E c \in Cmds : cmd[c].pc = "pid" /\ cmd[c].pid = r /\ StartsOne(cmd[c])
        BY <1>1 DEF IInv, Known, StartsOne, Spawning
      <3>2. ASSUME NEW c \in Cmds, cmd[c].pc = "pid", StartsOne(cmd[c]), NEW r \in Servers \ lost
            PROVE  r = cmd[c].pid
        <4>1. r = pidFile => r = cmd[c].pid
          BY <1>1, <3>2 DEF IInv, Known
        <4> QED
          BY <1>1, <3>1, <3>2, <4>1, OneStarts DEF IInv
      <3> QED
        BY <3>1, <3>2
    <2>2. CASE Servers \ lost = {}
      <3>1. Cardinality(Servers \ lost) = 0
        BY <2>2, FS_EmptySet
      <3> QED
        BY <3>1 DEF OneServer
    <2>3. CASE Servers \ lost # {}
      <3>1. PICK p : Servers \ lost = {p}
        BY <2>1, <2>3
      <3>2. Cardinality(Servers \ lost) = 1
        BY <3>1, FS_Singleton
      <3> QED
        BY <3>2 DEF OneServer
    <2> QED
      BY <2>2, <2>3
  <1> QED
    BY <1>1, Invariance, PTL

\* While the files describe one server, a pid that has become another
\* program's is never signalled.
THEOREM ForeignNeverSignalled == Spec => NeverSignalsOthers
  <1>1. ASSUME IInv, NEW c \in Cmds, Signal(c), Alive(cmd[c].pid), proc[cmd[c].pid].kind = "other",
               ~adrift, pidFile = cmd[c].pid
        PROVE  FALSE
    <2>1. pidFile \notin Servers
      BY <1>1 DEF Servers
    <2>2. Answers
      BY <1>1, <2>1 DEF Signal, Reclaims, Matches
    <2>3. PICK p \in Servers : proc[p].port = portFile
      BY <2>2 DEF Answers, Healthy
    <2>4. PICK d \in Cmds : cmd[d].pc = "pid"
      BY <1>1, <2>1, <2>3 DEF IInv, Known, Straight
    <2>5. pidFile = NoPid
      BY <1>1, <2>4 DEF IInv, Straight
    <2>6. NoPid \in Pids
      BY <1>1, <2>5 DEF IInv, Own, Signal
    <2> QED
      BY <2>6, LocalAssumption
  <1>2. IInv /\ [Next]_vars =>
          [\A c \in Cmds : LET p == cmd[c].pid IN
             Signal(c) /\ Alive(p) /\ proc[p].kind = "other" => adrift \/ pidFile # p]_vars
    BY <1>1
  <1> QED
    BY <1>2, Invariance, PTL DEF Spec, NeverSignalsOthers

\* "Already running" is said only of a server on the database asked for.
THEOREM RequestedIsServed == Spec => ServesRequested
  <1>1. ASSUME IInv, NEW c \in Cmds, AlreadyRunning(c), cmd[c].kind = "start", ~adrift,
               NEW p \in Servers, proc[p].port = portFile
        PROVE  proc[p].db = cmd[c].db
    <2>0. Types /\ Locks /\ Known /\ Straight /\ Described
      BY <1>1 DEF IInv
    <2>1. StartsOne(cmd[c]) /\ cmd[c].pc = "classify"
      BY <1>1 DEF AlreadyRunning, StartsOne
    <2>2. \A d \in Cmds : cmd[d].pc \notin Writing
      BY <2>0, <2>1, OneStarts DEF StartsOne, Spawning, Writing
    <2>3. p = pidFile
      BY <1>1, <2>0, <2>2 DEF Known, Straight, Writing
    <2>4. dbFile = proc[p].db
      BY <1>1, <2>0, <2>2, <2>3 DEF Described, Writing
    <2>5. dbFile # NoDb
      BY <2>0, <2>4, LocalAssumption DEF Types
    <2> QED
      BY <1>1, <2>4, <2>5 DEF AlreadyRunning, SameDb
  <1>2. IInv /\ [Next]_vars =>
          [\A c \in Cmds : AlreadyRunning(c) /\ cmd[c].kind = "start" /\ ~adrift
             => \A p \in Servers : proc[p].port = portFile => proc[p].db = cmd[c].db]_vars
    BY <1>1
  <1> QED
    BY <1>2, Invariance, PTL DEF Spec, ServesRequested
=============================================================================
