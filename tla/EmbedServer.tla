---------------------------- MODULE EmbedServer ----------------------------
(***************************************************************************)
(* The server's side of an embedding request: `index_embed` and the two    *)
(* query handlers, the admission gate in front of them, and the native     *)
(* embedder, whose forward passes run in detached blocking tasks that take *)
(* turns on one mutex.                                                     *)
(*                                                                         *)
(* A handler and the task it awaits are two things.  Dropping the handler  *)
(* (the router's timeout, a client that hung up) returns its permit at     *)
(* once, but the task stays where it is: parked on the mutex or computing. *)
(* An index batch carries a cancel flag the drop sets and the task polls;  *)
(* a query calls the plain `embed` and has none.                           *)
(***************************************************************************)
EXTENDS Naturals, FiniteSets, Sequences

CONSTANTS
    Callers,     \* clients that send embedding requests
    Searchers,   \* the callers whose requests are queries
    Texts,       \* the texts they ask vectors for
    Capacity,    \* EMBED_QUEUE_CAPACITY
    MaxBatch,    \* MAX_EMBED_BATCH
    SubBatch,    \* EMBED_BATCH_SIZE: texts per forward pass
    Slots,       \* bound: tasks of one caller that exist at once
    NoTask

ASSUME ServerAssumption ==
    /\ Searchers \subseteq Callers
    /\ Capacity \in Nat \ {0} /\ MaxBatch \in Nat \ {0} /\ SubBatch \in Nat \ {0}
    /\ Slots \subseteq Nat \ {0}
    /\ NoTask \notin Callers \X Slots

VARIABLES
    task,      \* blocking task of each caller and slot, or NoTask
    running,   \* the task that holds the embedder's mutex, or NoTask
    awaited,   \* slot whose answer the caller awaits, 0 for none
    answer     \* what the caller received and has not looked at yet

serverVars == <<task, running, awaited, answer>>

Ids == Callers \X Slots

\* `open`: the handler's future is alive, so its permit is taken.
\* `gone`: the cancel flag.  `done`: texts whose vector is computed.
Tasks == [work: Seq(Texts), open: BOOLEAN, gone: BOOLEAN, done: Nat]

ASSUME NoTaskAssumption == NoTask \notin Tasks

None == [kind |-> "none", work |-> <<>>]
Plain(kind) == [kind |-> kind, work |-> <<>>]

Live == {t \in Ids : task[t] # NoTask}

\* Permits handed out: one per handler that is still running.
Admitted == {t \in Live : task[t].open}

ServerInit ==
    /\ task = [t \in Ids |-> NoTask]
    /\ running = NoTask
    /\ awaited = [c \in Callers |-> 0]
    /\ answer = [c \in Callers |-> None]

----------------------------------------------------------------------------
(***************************************************************************)
(* Requests                                                                *)
(***************************************************************************)

Free(c) == {k \in Slots : task[<<c, k>>] = NoTask}

\* The gate never waits: a full queue is shed at once.
Full == Cardinality(Admitted) >= Capacity

Start(c, k, work) ==
    /\ task' = [task EXCEPT ![<<c, k>>] =
                    [work |-> work, open |-> TRUE, gone |-> FALSE, done |-> 0]]
    /\ awaited' = [awaited EXCEPT ![c] = k]
    /\ UNCHANGED <<running, answer>>

\* Answers that involve no task.
Refuse(c, kind) ==
    /\ answer' = [answer EXCEPT ![c] = Plain(kind)]
    /\ UNCHANGED <<task, running, awaited>>

\* 413 for a batch that is too large, 503 while the model loads, 500 when the
\* embedder fails, a transport error once connected.
Rejected(c) == Refuse(c, "error")

\* A request of an acceptable size reaches its handler.
Request(c, work) ==
    /\ Len(work) <= MaxBatch
    /\ \/ Full /\ Refuse(c, "busy")
       \/ ~Full /\ \E k \in Free(c) : Start(c, k, work)

----------------------------------------------------------------------------
(***************************************************************************)
(* The embedder                                                            *)
(***************************************************************************)

Ends(t) == task' = [task EXCEPT ![t] = NoTask]

\* Mutant: the flag is not read again once the mutex is taken.
TakeMutex_NoCheck(t) ==
    /\ running = NoTask /\ t \in Live
    /\ running' = t
    /\ UNCHANGED <<task, awaited, answer>>

\* A task gets the mutex; one abandoned while it was parked leaves at once.
TakeMutex(t) ==
    /\ running = NoTask /\ t \in Live
    /\ IF task[t].gone
       THEN Ends(t) /\ UNCHANGED running
       ELSE running' = t /\ UNCHANGED task
    /\ UNCHANGED <<awaited, answer>>

\* One forward pass, unless the flag is seen set before it.
ForwardPass(t) ==
    /\ running = t /\ task[t].done < Len(task[t].work)
    /\ IF task[t].gone
       THEN Ends(t) /\ running' = NoTask
       ELSE /\ task' = [task EXCEPT ![t].done = @ + SubBatch]
            /\ UNCHANGED running
    /\ UNCHANGED <<awaited, answer>>

\* Mutant: whatever vectors arrive first are the answer.
Receives_AnyTask(t) == awaited[t[1]] # 0

\* The vectors go back through the handler that asked for them, if it lives.
Receives(t) == task[t].open /\ awaited[t[1]] = t[2]

EmbedEnds(t) ==
    /\ running = t /\ task[t].done >= Len(task[t].work)
    /\ running' = NoTask
    /\ IF Receives(t)
       THEN /\ answer' = [answer EXCEPT ![t[1]] = [kind |-> "ok", work |-> task[t].work]]
            /\ awaited' = [awaited EXCEPT ![t[1]] = 0]
       ELSE UNCHANGED <<answer, awaited>>
    /\ Ends(t)

----------------------------------------------------------------------------
(***************************************************************************)
(* Abandoned requests                                                      *)
(***************************************************************************)

\* The handler's future is dropped: EmbedAbandonGuard sets the flag of an
\* index batch, the permit returns.
Drop(t) ==
    task' = [task EXCEPT ![t].open = FALSE, ![t].gone = t[1] \notin Searchers]

\* TimeoutLayer: 408.
ServerTimeout(t) ==
    /\ t \in Admitted
    /\ Drop(t)
    /\ IF awaited[t[1]] = t[2]
       THEN /\ answer' = [answer EXCEPT ![t[1]] = Plain("late")]
            /\ awaited' = [awaited EXCEPT ![t[1]] = 0]
       ELSE UNCHANGED <<answer, awaited>>
    /\ UNCHANGED running

\* The caller's own deadline passes first: it hangs up...
ClientTimeout(c) ==
    /\ awaited[c] # 0
    /\ answer' = [answer EXCEPT ![c] = Plain("late")]
    /\ awaited' = [awaited EXCEPT ![c] = 0]
    /\ UNCHANGED <<task, running>>

\* ... and the server notices some time later.
Disconnected(t) ==
    /\ t \in Admitted /\ awaited[t[1]] # t[2]
    /\ Drop(t)
    /\ UNCHANGED <<running, awaited, answer>>

EmbedderNext ==
    \E t \in Ids : \/ TakeMutex(t) \/ ForwardPass(t) \/ EmbedEnds(t)
                   \/ ServerTimeout(t) \/ Disconnected(t)

----------------------------------------------------------------------------
(***************************************************************************)
(* Properties                                                              *)
(***************************************************************************)

ServerTypeOK ==
    /\ task \in [Ids -> Tasks \cup {NoTask}]
    /\ running \in Ids \cup {NoTask}
    /\ awaited \in [Callers -> Slots \cup {0}]
    /\ \A c \in Callers :
          /\ answer[c].kind \in {"none", "ok", "busy", "late", "error"}
          /\ awaited[c] # 0 => answer[c] = None

\* An abandoned index batch computes nothing more, wherever it stood: parked
\* on the mutex it leaves without a pass, computing it stops at the next one
\* (the checks of `cancel` in embed_with_cancel).
AbandonedStopsComputing ==
    [][\A t \in Live : task[t].gone /\ task'[t] # NoTask
            => task'[t].done = task[t].done /\ (running' = t => running = t)]_serverVars
============================================================================
