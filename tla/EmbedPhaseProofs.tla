--------------------------- MODULE EmbedPhaseProofs ---------------------------
(***************************************************************************)
(* Theorems about EmbedPhase, for any queue, any number of callers, task   *)
(* slots and retries: type correctness, every chunk saved with its own     *)
(* vector, no computing for a batch nobody waits for, and the refinement   *)
(* of EmbedJob.                                                            *)
(*                                                                         *)
(* The argument.  A slot a caller awaits holds a task whose handler is     *)
(* alive (Awaiting), so tasks given up earlier can send no answer.  The    *)
(* client awaits a slot, or has an answer, only while it is in "await",    *)
(* and then task and answer are for the batch at its cursor (Exchange):    *)
(* size and cursor change only with the answer taken.  What Commit appends *)
(* is therefore the next stretch of the queue.                             *)
(***************************************************************************)
EXTENDS EmbedPhase, NatSets, SequenceTheorems, TLAPS

\* The full types of the server's variables; whoever holds the mutex is a task.
ServerTypes ==
  /\ task \in [Ids -> Tasks \cup {NoTask}]
  /\ running \in Live \cup {NoTask}
  /\ awaited \in [Callers -> Slots \cup {0}]
  /\ answer \in [Callers -> [kind : {"none", "ok", "busy", "late", "error"}, work : Seq(Texts)]]

\* The full types of run_embed_phase's locals.
ClientTypes ==
  /\ pc \in {"pick", "send", "await", "done"}
  /\ total \in Totals /\ cursor \in 0 .. total /\ ceiling \in Nat /\ previous \in Nat
  /\ size \in Nat \ {0} /\ batches \in 0 .. 3
  /\ connects \in 0 .. MaxConnects /\ saturated \in 0 .. MaxSaturation

\* A caller that awaits a slot has no answer, and the handler of that slot lives.
Awaiting ==
  \A c \in Callers : awaited[c] # 0 =>
    /\ answer[c] = None
    /\ task[<<c, awaited[c]>>] # NoTask
    /\ task[<<c, awaited[c]>>].open /\ ~task[<<c, awaited[c]>>].gone

\* The client's request and its answer are for the batch at the cursor.
Exchange ==
  /\ pc \in {"send", "await"} => size <= Left
  /\ awaited[Indexer] # 0 =>
       pc = "await" /\ task[<<Indexer, awaited[Indexer]>>].work = Batch
  /\ answer[Indexer] # None =>
       pc = "await" /\ (answer[Indexer].kind = "ok" => answer[Indexer].work = Batch)

\* Only the first batch is picked without a measured rate.
Measured == pc = "pick" /\ batches > 0 => rated

IInv == ServerTypes /\ ClientTypes /\ Awaiting /\ Exchange /\ Measured /\ SavedInOrder

-----------------------------------------------------------------------------
(* Arithmetic of the batch sizes *)

\* total, cursor and the entries left are positions in the queue.
LEMMA Positions ==
  ASSUME ClientTypes
  PROVE  /\ total \in 1 .. Len(Queue) /\ cursor \in Nat /\ Left \in Nat
         /\ cursor + Left = total /\ DOMAIN Queue = 1 .. Len(Queue) /\ Len(Queue) \in Nat
  <1>1. Queue \in Seq(Texts) /\ Totals \subseteq DOMAIN Queue
    BY PhaseAssumption
  <1>2. DOMAIN Queue = 1 .. Len(Queue) /\ Len(Queue) \in Nat
    BY <1>1, LenProperties
  <1> QED
    BY <1>1, <1>2 DEF ClientTypes, Left

\* next_batch_len always finds a length, the least being one chunk.
LEMMA NextBatchLenType ==
  ASSUME ClientTypes, NEW target
  PROVE  NextBatchLen(target) \in Nat \ {0}
  <1> DEFINE k == Least(GrowthCap, Left)
             S == {1} \cup {n \in 1 .. k : TokensOf(n) <= target}
  <1>1. k \in Nat
    BY Positions, PhaseAssumption DEF ClientTypes, GrowthCap, Least, Most
  <1>2. k + 1 \in Nat /\ S \in SUBSET (0 .. k + 1) /\ S # {} /\ 0 \notin S /\ S \subseteq Nat
    BY <1>1
  <1>3. Max(S) \in S
    <2> HIDE DEF S, k
    <2> QED
      BY <1>2, MaxProperties
  <1> QED
    BY <1>1, <1>2, <1>3 DEF NextBatchLen

\* Whatever the calibration says, the batch has a chunk and fits what is left.
LEMMA ClampedSize ==
  ASSUME ClientTypes, Left > 0, NEW target
  PROVE  Clamp(Calibrated(target)) \in 1 .. Left
  <1>1. Calibrated(target) \in Nat \ {0}
    BY NextBatchLenType, PhaseAssumption, ServerAssumption DEF Calibrated
  <1> QED
    BY <1>1, Positions DEF Clamp, Least, Most

\* Half a batch is a batch that still fits.
LEMMA HalvedSize ==
  ASSUME ClientTypes, size > 1
  PROVE  Halved \in 1 .. size
  BY DEF ClientTypes, Halved, Most

-----------------------------------------------------------------------------
(* Batches of the queue *)

\* A batch that fits what is left is a stretch of the queue.
LEMMA BatchProperties ==
  ASSUME ClientTypes, size <= Left
  PROVE  Batch \in Seq(Texts) /\ Len(Batch) = size
  <1> DEFINE m == cursor + 1
             n == cursor + size
  <1>1. m \in Int /\ n \in Int /\ m <= n /\ n - m + 1 = size
    BY Positions DEF ClientTypes
  <1>2. \A i \in m .. n : Queue[i] \in Texts
    BY Positions, PhaseAssumption, ElementOfSeq DEF ClientTypes
  <1> HIDE DEF m, n
  <1>3. SubSeq(Queue, m, n) \in Seq(Texts) /\ Len(SubSeq(Queue, m, n)) = IF m <= n THEN n - m + 1 ELSE 0
    BY <1>1, <1>2, SubSeqProperties
  <1> QED
    BY <1>1, <1>3 DEF Batch, m, n

\* The saved prefix and the batch after it make the longer prefix.
LEMMA PrefixGrows ==
  ASSUME ClientTypes, size <= Left
  PROVE  SubSeq(Queue, 1, cursor) \o Batch = SubSeq(Queue, 1, cursor + size)
  <1>1. /\ 1 \in 1 .. Len(Queue) + 1 /\ cursor \in 1 - 1 .. Len(Queue)
        /\ cursor + size \in cursor .. Len(Queue)
    BY Positions DEF ClientTypes
  <1> QED
    BY <1>1, PhaseAssumption, ConcatAdjacentSubSeq DEF Batch

-----------------------------------------------------------------------------
(* The server *)

\* A caller that waits for nothing sends a request, ...
Asks(c, work) ==
  /\ work \in Seq(Texts) /\ awaited[c] = 0 /\ answer[c] = None
  /\ \/ \E k \in Free(c) : Start(c, k, work)
     \/ \E kind \in {"busy", "error"} : Refuse(c, kind)

\* ... looks at its answer or, killed, leaves for good.
Forgets(c) ==
  /\ answer' = [answer EXCEPT ![c] = None]
  /\ awaited' = [awaited EXCEPT ![c] = 0]
  /\ UNCHANGED <<task, running>>

\* Every step is one of six things to the server (the handlers of EmbedServer
\* and what embed_one_batch and the query handlers' clients do to it).
LEMMA ServerSteps ==
  ASSUME IInv, [Next]_vars
  PROVE  \/ UNCHANGED serverVars /\ (Pick \/ AllSent \/ ConnectFailure \/ UNCHANGED clientVars)
         \/ EmbedderNext /\ UNCHANGED clientVars
         \/ Asks(Indexer, Batch) /\ Send
         \/ Forgets(Indexer) /\ ClientNext
         \/ \E c \in Callers : ClientTimeout(c) /\ UNCHANGED clientVars
         \/ \E c \in Searchers : (Asks(c, <<Question>>) \/ Forgets(c)) /\ UNCHANGED clientVars
  <1>0. ASSUME NEW c \in Callers, answer[c] # None,
               answer' = [answer EXCEPT ![c] = None], UNCHANGED <<task, running, awaited>>
        PROVE  Forgets(c)
    <2>1. awaited[c] = 0 /\ awaited \in [Callers -> Slots \cup {0}]
      BY <1>0 DEF IInv, Awaiting, ServerTypes
    <2> QED
      BY <1>0, <2>1 DEF Forgets
  <1>1. CASE UNCHANGED vars
    BY <1>1 DEF vars
  <1>2. CASE ClientNext
    <2>1. CASE Pick \/ AllSent \/ ConnectFailure
      BY <2>1 DEF Pick, AllSent, ConnectFailure
    <2>2. CASE Send
      <3>1. awaited[Indexer] = 0 /\ answer[Indexer] = None
        BY <2>2, PhaseAssumption DEF Send, IInv, Exchange
      <3>2. Batch \in Seq(Texts)
        BY <2>2, BatchProperties DEF Send, IInv, Exchange
      <3> QED
        BY <2>2, <3>1, <3>2 DEF Send, Request, Rejected, Asks
    <2>3. CASE BudgetExceeded \/ Saturated \/ OtherError \/ Commit
      <3>1. Consumed /\ answer[Indexer] # None /\ Indexer \in Callers
        BY <2>3, PhaseAssumption
        DEF BudgetExceeded, Saturated, OtherError, Commit, Answered, Unusable, None
      <3> QED
        BY <1>0, <1>2, <3>1 DEF Consumed
    <2>4. CASE Killed
      BY <1>2, <2>4 DEF Killed, Forgets
    <2> QED
      BY <1>2, <2>1, <2>2, <2>3, <2>4 DEF ClientNext
  <1>3. ASSUME NEW c \in Searchers, Query(c)
        PROVE  Asks(c, <<Question>>) /\ UNCHANGED clientVars
    <2>1. <<Question>> \in Seq(Texts)
      BY PhaseAssumption
    <2> QED
      BY <1>3, <2>1 DEF Query, Request, Asks
  <1>4. ASSUME NEW c \in Searchers, QueryEnds(c)
        PROVE  Forgets(c) /\ UNCHANGED clientVars
    BY <1>0, <1>4, ServerAssumption DEF QueryEnds
  <1> QED
    BY <1>1, <1>2, <1>3, <1>4 DEF Next

\* A live task is a record of its type.
LEMMA LiveTask ==
  ASSUME ServerTypes, NEW t \in Live
  PROVE  /\ t \in Ids /\ task[t] \in Tasks /\ task[t] # NoTask /\ t # NoTask
         /\ t[1] \in Callers /\ t[2] \in Slots /\ t = <<t[1], t[2]>>
  BY ServerAssumption DEF ServerTypes, Ids, Live

\* Rewriting a live task with another of its type keeps the server's types.
LEMMA TaskRewritten ==
  ASSUME ServerTypes, NEW t \in Live, NEW new \in Tasks,
         task' = [task EXCEPT ![t] = new]
  PROVE  task' \in [Ids -> Tasks \cup {NoTask}] /\ Live' = Live
  BY LiveTask, NoTaskAssumption DEF ServerTypes, Live

\* A task that ends leaves the live ones.
LEMMA TaskEnded ==
  ASSUME ServerTypes, NEW t \in Live, Ends(t)
  PROVE  task' \in [Ids -> Tasks \cup {NoTask}] /\ Live' = Live \ {t}
  BY LiveTask DEF ServerTypes, Live, Ends

\* A dropped handler leaves the work of its task, and the other tasks, as they were.
LEMMA TaskDropped ==
  ASSUME ServerTypes, NEW t \in Live, Drop(t)
  PROVE  /\ task' \in [Ids -> Tasks \cup {NoTask}] /\ Live' = Live
         /\ \A u \in Live : task'[u].work = task[u].work /\ task'[u].done = task[u].done
         /\ \A u \in Live \ {t} : task'[u] = task[u]
  <1> DEFINE new == [task[t] EXCEPT !.open = FALSE, !.gone = t[1] \notin Searchers]
  <1>1. new \in Tasks /\ new.work = task[t].work /\ new.done = task[t].done
    BY LiveTask DEF Tasks
  <1>2. task' = [task EXCEPT ![t] = new]
    BY LiveTask DEF Drop, ServerTypes
  <1> HIDE DEF new
  <1>3. task' \in [Ids -> Tasks \cup {NoTask}] /\ Live' = Live
    BY <1>1, <1>2, TaskRewritten
  <1> QED
    BY <1>1, <1>2, <1>3, LiveTask DEF ServerTypes

\* A request adds a task where there was none.
LEMMA TaskStarted ==
  ASSUME ServerTypes, NEW c \in Callers, NEW k \in Free(c), NEW work \in Seq(Texts),
         Start(c, k, work)
  PROVE  /\ <<c, k>> \in Ids \ Live /\ k \in Slots /\ k # 0
         /\ task' \in [Ids -> Tasks \cup {NoTask}] /\ Live' = Live \cup {<<c, k>>}
         /\ \A u \in Live : task'[u] = task[u]
         /\ task'[<<c, k>>] = [work |-> work, open |-> TRUE, gone |-> FALSE, done |-> 0]
  <1> DEFINE new == [work |-> work, open |-> TRUE, gone |-> FALSE, done |-> 0]
  <1>1. new \in Tasks /\ new # NoTask
    <2>1. new \in Tasks
      BY DEF Tasks
    <2> QED
      BY <2>1, NoTaskAssumption
  <1>2. <<c, k>> \in Ids \ Live /\ k \in Slots /\ k # 0
    BY ServerAssumption DEF Free, Ids, Live
  <1>3. task' = [task EXCEPT ![<<c, k>>] = new]
    BY DEF Start
  <1> HIDE DEF new
  <1>4. task' \in [Ids -> Tasks \cup {NoTask}] /\ Live' = Live \cup {<<c, k>>}
    BY <1>1, <1>2, <1>3 DEF ServerTypes, Live
  <1>5. (\A u \in Live : task'[u] = task[u]) /\ task'[<<c, k>>] = new
    BY <1>2, <1>3 DEF ServerTypes, Live
  <1> QED
    BY <1>2, <1>4, <1>5 DEF new

\* A sub-batch moves only its own task's count.
LEMMA TaskAdvanced ==
  ASSUME ServerTypes, NEW t \in Live,
         task' = [task EXCEPT ![t].done = @ + SubBatch]
  PROVE  /\ task' \in [Ids -> Tasks \cup {NoTask}] /\ Live' = Live
         /\ \A u \in Live : /\ task'[u].work = task[u].work
                            /\ task'[u].open = task[u].open /\ task'[u].gone = task[u].gone
         /\ \A u \in Live \ {t} : task'[u] = task[u]
  <1> DEFINE new == [task[t] EXCEPT !.done = @ + SubBatch]
  <1>1. /\ new \in Tasks /\ new.work = task[t].work
        /\ new.open = task[t].open /\ new.gone = task[t].gone
    <2>1. task[t] \in Tasks /\ SubBatch \in Nat
      BY LiveTask, ServerAssumption
    <2>2. task[t].done + SubBatch \in Nat
      BY <2>1 DEF Tasks
    <2> QED
      BY <2>1, <2>2 DEF Tasks
  <1>2. task' = [task EXCEPT ![t] = new]
    BY LiveTask DEF ServerTypes
  <1> HIDE DEF new
  <1>3. task' \in [Ids -> Tasks \cup {NoTask}] /\ Live' = Live
    BY <1>1, <1>2, TaskRewritten
  <1> QED
    BY <1>1, <1>2, <1>3, LiveTask DEF ServerTypes

-----------------------------------------------------------------------------
\* What a step does to a caller c that neither asks nor forgets: what it awaits
\* stays as it was and is still answered, or it got an answer, and vectors only
\* from the slot it awaited.
Undisturbed(c) ==
  \/ /\ awaited'[c] = awaited[c] /\ answer'[c] = answer[c]
     /\ awaited[c] # 0 =>
          LET t == <<c, awaited[c]>> IN
          /\ t \in Live' /\ task'[t].work = task[t].work
          /\ task'[t].open = task[t].open /\ task'[t].gone = task[t].gone
  \/ /\ awaited[c] # 0 /\ awaited'[c] = 0
     /\ answer'[c].kind \in {"late", "ok"}
     /\ answer'[c].kind = "ok" => answer'[c].work = task[<<c, awaited[c]>>].work

\* Between two requests of a caller the server keeps this contract, whoever
\* else asks, hangs up or is answered.
LEMMA EmbedderStep ==
  ASSUME ServerTypes, Awaiting, EmbedderNext
  PROVE  ServerTypes' /\ \A c \in Callers : Undisturbed(c)
  <1>0. ASSUME NEW c \in Callers, awaited[c] # 0
        PROVE  <<c, awaited[c]>> \in Live
    BY <1>0 DEF ServerTypes, Awaiting, Live, Ids
  <1> SUFFICES ASSUME NEW t \in Ids,
                      \/ TakeMutex(t) \/ ForwardPass(t) \/ EmbedEnds(t)
                      \/ ServerTimeout(t) \/ Disconnected(t)
               PROVE  ServerTypes' /\ \A c \in Callers : Undisturbed(c)
    BY DEF EmbedderNext
  <1>1. ASSUME t \in Live, task[t].gone, Ends(t), UNCHANGED <<awaited, answer>>,
               running' \in {NoTask, running}, running # t \/ running' = NoTask
        PROVE  ServerTypes' /\ \A c \in Callers : Undisturbed(c)
    <2>1. ServerTypes'
      BY <1>1, TaskEnded DEF ServerTypes
    <2>2. ASSUME NEW c \in Callers
          PROVE  Undisturbed(c)
      <3>1. awaited[c] # 0 => <<c, awaited[c]>> # t
        BY <1>1 DEF Awaiting
      <3> QED
        BY <1>0, <1>1, <3>1, TaskEnded DEF Undisturbed, Ends, ServerTypes, Live
    <2> QED
      BY <2>1, <2>2
  <1>2. CASE TakeMutex(t)
    <2>1. CASE task[t].gone
      BY <1>1, <1>2, <2>1, LiveTask DEF TakeMutex
    <2>2. CASE ~task[t].gone
      BY <1>0, <1>2, <2>2 DEF TakeMutex, ServerTypes, Undisturbed, Live
    <2> QED
      BY <2>1, <2>2
  <1>3. CASE ForwardPass(t)
    <2>0. t \in Live
      BY <1>3, ServerAssumption DEF ForwardPass, ServerTypes, Ids
    <2>1. CASE task[t].gone
      BY <1>1, <1>3, <2>0, <2>1 DEF ForwardPass
    <2>2. CASE ~task[t].gone
      BY <1>0, <1>3, <2>0, <2>2, TaskAdvanced DEF ForwardPass, ServerTypes, Undisturbed
    <2> QED
      BY <2>1, <2>2
  <1>4. CASE EmbedEnds(t)
    <2>0. t \in Live /\ t = <<t[1], t[2]>> /\ t[1] \in Callers /\ task[t].work \in Seq(Texts)
      BY <1>4, ServerAssumption, LiveTask DEF EmbedEnds, ServerTypes, Ids, Tasks
    <2>1. CASE Receives(t)
      <3>1. /\ answer' = [answer EXCEPT ![t[1]] = [kind |-> "ok", work |-> task[t].work]]
            /\ awaited' = [awaited EXCEPT ![t[1]] = 0]
            /\ running' = NoTask /\ Ends(t)
        BY <1>4, <2>1 DEF EmbedEnds
      <3>2. ServerTypes'
        BY <2>0, <3>1, TaskEnded DEF ServerTypes
      <3>3. ASSUME NEW c \in Callers, c # t[1]
            PROVE  Undisturbed(c)
        <4>1. awaited[c] # 0 => <<c, awaited[c]>> # t
          BY <2>0, <3>3
        <4> QED
          BY <1>0, <2>0, <3>1, <3>3, <4>1, TaskEnded DEF Undisturbed, Ends, ServerTypes, Live
      <3>4. Undisturbed(t[1])
        <4>1. awaited[t[1]] = t[2] /\ t[2] # 0
          BY <2>0, <2>1, LiveTask, ServerAssumption DEF Receives
        <4> QED
          BY <2>0, <3>1, <4>1 DEF Undisturbed, ServerTypes
      <3> QED
        BY <3>2, <3>3, <3>4
    <2>2. CASE ~Receives(t)
      <3>1. UNCHANGED <<answer, awaited>> /\ running' = NoTask /\ Ends(t)
        BY <1>4, <2>2 DEF EmbedEnds
      <3>2. ServerTypes'
        BY <2>0, <3>1, TaskEnded DEF ServerTypes
      <3>3. ASSUME NEW c \in Callers
            PROVE  Undisturbed(c)
        <4>1. awaited[c] # 0 => <<c, awaited[c]>> # t
          BY <2>0, <2>2 DEF Receives, Awaiting
        <4> QED
          BY <1>0, <3>1, <4>1, TaskEnded DEF Undisturbed, Ends, ServerTypes, Live
      <3> QED
        BY <3>2, <3>3
    <2> QED
      BY <2>1, <2>2
  <1>5. CASE ServerTimeout(t) \/ Disconnected(t)
    <2>0. t \in Live /\ t = <<t[1], t[2]>> /\ t[1] \in Callers /\ t[2] # 0 /\ Drop(t)
      BY <1>5, LiveTask, ServerAssumption DEF ServerTimeout, Disconnected, Admitted
    <2>1. ASSUME NEW c \in Callers, awaited[c] # 0, <<c, awaited[c]>> # t
          PROVE  /\ <<c, awaited[c]>> \in Live'
                 /\ task'[<<c, awaited[c]>>] = task[<<c, awaited[c]>>]
      BY <1>0, <2>0, <2>1, TaskDropped
    <2>2. CASE awaited[t[1]] = t[2] /\ ServerTimeout(t)
      <3>1. /\ answer' = [answer EXCEPT ![t[1]] = Plain("late")]
            /\ awaited' = [awaited EXCEPT ![t[1]] = 0] /\ UNCHANGED running
        BY <2>2 DEF ServerTimeout
      <3>2. ServerTypes'
        BY <2>0, <3>1, TaskDropped DEF ServerTypes, Plain
      <3>3. ASSUME NEW c \in Callers, c # t[1]
            PROVE  Undisturbed(c)
        BY <2>0, <2>1, <3>1, <3>3 DEF Undisturbed, ServerTypes
      <3>4. Undisturbed(t[1])
        BY <2>0, <2>2, <3>1 DEF Undisturbed, ServerTypes, Plain
      <3> QED
        BY <3>2, <3>3, <3>4
    <2>3. CASE awaited[t[1]] # t[2]
      <3>1. UNCHANGED <<running, answer, awaited>>
        BY <1>5, <2>3 DEF ServerTimeout, Disconnected
      <3>2. ServerTypes'
        BY <2>0, <3>1, TaskDropped DEF ServerTypes
      <3>3. ASSUME NEW c \in Callers
            PROVE  Undisturbed(c)
        BY <2>0, <2>1, <2>3, <3>1 DEF Undisturbed
      <3> QED
        BY <3>2, <3>3
    <2> QED
      BY <1>5, <2>2, <2>3 DEF Disconnected
  <1> QED
    BY <1>2, <1>3, <1>4, <1>5

\* The slot a caller awaits holds a live task, so two callers never share one.
LEMMA AwaitedLives ==
  ASSUME ServerTypes, Awaiting, NEW c \in Callers, awaited[c] # 0
  PROVE  <<c, awaited[c]>> \in Live
  BY DEF ServerTypes, Awaiting, Live, Ids

\* A client that times out disturbs nobody.
LEMMA TimeoutStep ==
  ASSUME ServerTypes, Awaiting, NEW c \in Callers, ClientTimeout(c)
  PROVE  ServerTypes' /\ \A d \in Callers : Undisturbed(d)
  <1>1. ServerTypes'
    BY DEF ClientTimeout, ServerTypes, Plain, Live
  <1>2. Live' = Live
    BY DEF ClientTimeout, Live
  <1>3. ASSUME NEW d \in Callers
        PROVE  Undisturbed(d)
    BY <1>2, AwaitedLives DEF ClientTimeout, ServerTypes, Undisturbed, Plain
  <1> QED
    BY <1>1, <1>3

\* A request leaves its caller awaiting a task with its texts, or refused.
Asked(c, work) ==
  \/ /\ awaited'[c] # 0 /\ answer'[c] = None
     /\ LET t == <<c, awaited'[c]>> IN
        t \in Live' /\ task'[t].work = work /\ task'[t].open /\ ~task'[t].gone
  \/ awaited'[c] = 0 /\ answer'[c].kind \in {"busy", "error"}

LEMMA RequestStep ==
  ASSUME ServerTypes, Awaiting, NEW c \in Callers, NEW work, Asks(c, work)
  PROVE  ServerTypes' /\ Asked(c, work) /\ \A d \in Callers \ {c} : Undisturbed(d)
  <1>1. ASSUME NEW k \in Free(c), Start(c, k, work)
        PROVE  ServerTypes' /\ Asked(c, work) /\ \A d \in Callers \ {c} : Undisturbed(d)
    <2>1. /\ work \in Seq(Texts) /\ answer[c] = None /\ UNCHANGED <<running, answer>>
          /\ awaited' = [awaited EXCEPT ![c] = k]
      BY <1>1 DEF Asks, Start
    <2>2. ServerTypes'
      BY <1>1, <2>1, TaskStarted DEF ServerTypes
    <2>3. Asked(c, work)
      <3>1. awaited'[c] = k /\ k # 0 /\ answer'[c] = None
        BY <1>1, <2>1, TaskStarted DEF ServerTypes
      <3>2. /\ <<c, k>> \in Live'
            /\ task'[<<c, k>>] = [work |-> work, open |-> TRUE, gone |-> FALSE, done |-> 0]
        BY <1>1, <2>1, TaskStarted
      <3> QED
        BY <3>1, <3>2 DEF Asked
    <2>4. ASSUME NEW d \in Callers \ {c}
          PROVE  Undisturbed(d)
      BY <1>1, <2>1, AwaitedLives, TaskStarted DEF ServerTypes, Undisturbed
    <2> QED
      BY <2>2, <2>3, <2>4
  <1>2. ASSUME NEW kind \in {"busy", "error"}, Refuse(c, kind)
        PROVE  ServerTypes' /\ Asked(c, work) /\ \A d \in Callers \ {c} : Undisturbed(d)
    <2>1. Live' = Live
      BY <1>2 DEF Refuse, Live
    <2>2. ServerTypes'
      BY <1>2, <2>1 DEF Refuse, Plain, ServerTypes
    <2>3. Asked(c, work)
      BY <1>2 DEF Refuse, Plain, ServerTypes, Asks, Asked
    <2>4. ASSUME NEW d \in Callers \ {c}
          PROVE  Undisturbed(d)
      BY <1>2, <2>1, AwaitedLives DEF Refuse, ServerTypes, Undisturbed
    <2> QED
      BY <2>2, <2>3, <2>4
  <1> QED
    BY <1>1, <1>2 DEF Asks

\* A caller that stops waiting has no answer to read.
LEMMA ForgetStep ==
  ASSUME ServerTypes, Awaiting, NEW c \in Callers, Forgets(c)
  PROVE  /\ ServerTypes' /\ awaited'[c] = 0 /\ answer'[c] = None
         /\ \A d \in Callers \ {c} : Undisturbed(d)
  <1>1. Live' = Live
    BY DEF Forgets, Live
  <1>2. ServerTypes' /\ awaited'[c] = 0 /\ answer'[c] = None
    BY <1>1 DEF Forgets, ServerTypes, None
  <1>3. ASSUME NEW d \in Callers \ {c}
        PROVE  Undisturbed(d)
    BY <1>1, AwaitedLives DEF Forgets, ServerTypes, Undisturbed
  <1> QED
    BY <1>2, <1>3

\* Together: what a step may do to the callers.
LEMMA CallerSteps ==
  ASSUME IInv, [Next]_vars
  PROVE  /\ ServerTypes'
         /\ \/ UNCHANGED clientVars /\ Undisturbed(Indexer)
            \/ UNCHANGED serverVars /\ (Pick \/ AllSent \/ ConnectFailure \/ UNCHANGED clientVars)
            \/ Send /\ Asked(Indexer, Batch)
            \/ ClientNext /\ Forgets(Indexer)
         /\ \A c \in Callers :
               \/ Undisturbed(c)
               \/ \E work : Asked(c, work)
               \/ awaited'[c] = 0 /\ answer'[c] = None
  <1>0. ServerTypes /\ Awaiting /\ Indexer \in Callers \ Searchers /\ Searchers \subseteq Callers
    BY PhaseAssumption, ServerAssumption DEF IInv
  <1>1. CASE UNCHANGED serverVars /\ (Pick \/ AllSent \/ ConnectFailure \/ UNCHANGED clientVars)
    <2>1. Live' = Live
      BY <1>1 DEF serverVars, Live
    <2>2. ServerTypes'
      BY <1>0, <1>1, <2>1 DEF serverVars, ServerTypes
    <2>3. \A c \in Callers : Undisturbed(c)
      BY <1>0, <1>1, <2>1, AwaitedLives DEF serverVars, Undisturbed
    <2> QED
      BY <1>1, <2>2, <2>3
  <1>2. CASE EmbedderNext /\ UNCHANGED clientVars
    BY <1>0, <1>2, EmbedderStep
  <1>3. CASE Asks(Indexer, Batch) /\ Send
    BY <1>0, <1>3, RequestStep
  <1>4. CASE Forgets(Indexer) /\ ClientNext
    BY <1>0, <1>4, ForgetStep
  <1>5. CASE \E c \in Callers : ClientTimeout(c) /\ UNCHANGED clientVars
    BY <1>0, <1>5, TimeoutStep
  <1>6. CASE \E c \in Searchers : (Asks(c, <<Question>>) \/ Forgets(c)) /\ UNCHANGED clientVars
    BY <1>0, <1>6, RequestStep, ForgetStep
  <1> QED
    BY <1>1, <1>2, <1>3, <1>4, <1>5, <1>6, ServerSteps

-----------------------------------------------------------------------------
(* The inductive invariant *)

\* The invariant holds at first.
LEMMA InitIInv == Init => IInv
  <1> SUFFICES ASSUME Init PROVE IInv
    OBVIOUS
  <1>1. ServerTypes
    BY DEF Init, ServerInit, ServerTypes, None
  <1>2. ClientTypes
    <2>1. ceiling \in Nat
      BY PhaseAssumption, ServerAssumption DEF Init, ResolveBatchCeiling, Least
    <2>2. total \in Nat /\ total \in Totals
      BY PhaseAssumption, LenProperties DEF Init
    <2> QED
      BY <2>1, <2>2, PhaseAssumption DEF Init, ClientTypes
  <1>3. Awaiting /\ Exchange /\ Measured
    BY PhaseAssumption DEF Init, ServerInit, Awaiting, Exchange, Measured
  <1>4. SavedInOrder
    BY SubSeqEmpty DEF Init, SavedInOrder
  <1> QED
    BY <1>1, <1>2, <1>3, <1>4 DEF IInv

\* Only the client's own steps change its state.
LEMMA OtherSteps ==
  ASSUME [Next]_vars
  PROVE  ClientNext \/ UNCHANGED clientVars
  BY DEF Next, vars, Query, QueryEnds, clientVars

\* A step keeps the types of the client, and its rate after the first batch.
LEMMA ClientTypesStep ==
  ASSUME IInv, [Next]_vars
  PROVE  ClientTypes' /\ Measured'
  <1>0. ClientTypes /\ Measured /\ Exchange
    BY DEF IInv
  <1>1. CASE UNCHANGED clientVars
    BY <1>0, <1>1 DEF clientVars, ClientTypes, Measured
  <1>2. CASE Pick
    <2>1. size' \in 1 .. Left
      BY <1>0, <1>2, ClampedSize, Positions DEF Pick
    <2> QED
      BY <1>0, <1>2, <2>1, Positions, PhaseAssumption DEF Pick, ClientTypes, Measured, Least
  <1>3. CASE AllSent \/ Send \/ Killed
    BY <1>0, <1>3 DEF AllSent, Send, Killed, StopsHere, ClientTypes, Measured
  <1>4. CASE ConnectFailure \/ Saturated \/ OtherError
    <2>1. CASE StopsHere
      BY <1>0, <2>1 DEF StopsHere, ClientTypes, Measured
    <2>2. CASE ConnectFailure /\ ~StopsHere
      BY <1>0, <2>2, PhaseAssumption, SMTT(30) DEF ConnectFailure, ClientTypes, Measured
    <2>3. CASE Saturated /\ ~StopsHere
      BY <1>0, <2>3, PhaseAssumption, SMTT(30) DEF Saturated, ClientTypes, Measured
    <2> QED
      BY <1>4, <2>1, <2>2, <2>3 DEF OtherError
  <1>5. CASE BudgetExceeded
    <2>1. size' \in Nat \ {0}
      BY <1>0, <1>5, HalvedSize DEF BudgetExceeded, ClientTypes
    <2> QED
      BY <1>0, <1>5, <2>1 DEF BudgetExceeded, ClientTypes, Measured
  <1>6. CASE Commit
    <2>1. size <= Left
      BY <1>0, <1>6 DEF Commit, Answered, Exchange
    <2> QED
      BY <1>0, <1>6, <2>1, Positions DEF Commit, ClientTypes, Measured
  <1> QED
    BY <1>1, <1>2, <1>3, <1>4, <1>5, <1>6, OtherSteps DEF ClientNext

\* A step keeps what is awaited tied to the task that serves it.
LEMMA AwaitingStep ==
  ASSUME IInv, [Next]_vars
  PROVE  Awaiting'
  <1> SUFFICES ASSUME NEW c \in Callers, awaited'[c] # 0
               PROVE  /\ answer'[c] = None
                      /\ task'[<<c, awaited'[c]>>] # NoTask
                      /\ task'[<<c, awaited'[c]>>].open /\ ~task'[<<c, awaited'[c]>>].gone
    BY DEF Awaiting
  <1>1. CASE Undisturbed(c)
    BY <1>1 DEF IInv, Awaiting, Undisturbed, Live
  <1>2. CASE \E work : Asked(c, work)
    BY <1>2 DEF Asked, Live
  <1> QED
    BY <1>1, <1>2, CallerSteps

\* While the client's own state stands still, so does its exchange.
LEMMA ExchangeKept ==
  ASSUME IInv, UNCHANGED clientVars, Undisturbed(Indexer)
  PROVE  Exchange'
  <1>1. /\ pc' = pc /\ Left' = Left /\ size' = size /\ Batch' = Batch
    BY DEF clientVars, Left, Batch
  <1>2. Exchange /\ Awaiting /\ Indexer \in Callers
    BY PhaseAssumption DEF IInv
  <1>3. CASE awaited'[Indexer] = awaited[Indexer] /\ answer'[Indexer] = answer[Indexer]
    <2>1. awaited[Indexer] # 0 =>
            task'[<<Indexer, awaited[Indexer]>>].work = task[<<Indexer, awaited[Indexer]>>].work
      BY <1>2, <1>3 DEF Undisturbed
    <2> QED
      BY <1>1, <1>2, <1>3, <2>1 DEF Exchange
  <1>4. CASE ~(awaited'[Indexer] = awaited[Indexer] /\ answer'[Indexer] = answer[Indexer])
    <2>1. /\ awaited[Indexer] # 0 /\ awaited'[Indexer] = 0
          /\ answer'[Indexer].kind = "ok" =>
               answer'[Indexer].work = task[<<Indexer, awaited[Indexer]>>].work
      BY <1>4 DEF Undisturbed
    <2> QED
      BY <1>1, <1>2, <2>1 DEF Exchange
  <1> QED
    BY <1>3, <1>4

\* A step keeps what a request asks and its answer covers.
LEMMA ExchangeStep ==
  ASSUME IInv, [Next]_vars
  PROVE  Exchange'
  <1>0. Exchange /\ Awaiting /\ ClientTypes /\ Indexer \in Callers
    BY PhaseAssumption DEF IInv
  <1>1. CASE UNCHANGED clientVars /\ Undisturbed(Indexer)
    BY <1>1, ExchangeKept
  <1>2. CASE UNCHANGED serverVars /\ (Pick \/ AllSent \/ ConnectFailure \/ UNCHANGED clientVars)
    <2>1. CASE Pick
      <3>1. size' <= Left' /\ pc' = "send"
        BY <1>0, <2>1, ClampedSize, Positions DEF Pick, Left
      <3>2. awaited[Indexer] = 0 /\ answer[Indexer] = None
        BY <1>0, <2>1 DEF Pick, Exchange
      <3> QED
        BY <1>2, <3>1, <3>2 DEF Exchange, serverVars
    <2>2. CASE AllSent \/ ConnectFailure
      <3>1. awaited[Indexer] = 0 /\ answer[Indexer] = None
        BY <1>0, <2>2 DEF AllSent, ConnectFailure, Exchange
      <3>2. pc' \in {"send", "await"} => size' <= Left'
        BY <1>0, <2>2 DEF AllSent, ConnectFailure, StopsHere, Exchange, Left
      <3> QED
        BY <1>2, <3>1, <3>2 DEF Exchange, serverVars
    <2>3. CASE UNCHANGED clientVars
      BY <1>1, <1>2, <1>0, <2>3, AwaitedLives DEF IInv, serverVars, Undisturbed, Live
    <2> QED
      BY <1>2, <2>1, <2>2, <2>3
  <1>3. CASE Send /\ Asked(Indexer, Batch)
    <2>1. /\ pc' = "await" /\ Left' = Left /\ size' = size /\ Batch' = Batch
      BY <1>3 DEF Send, Left, Batch
    <2> QED
      BY <1>0, <1>3, <2>1 DEF Send, Exchange, Asked
  <1>4. CASE ClientNext /\ Forgets(Indexer)
    <2>1. awaited'[Indexer] = 0 /\ answer'[Indexer] = None
      BY <1>0, <1>4, ForgetStep DEF IInv
    <2>2. pc' \in {"send", "await"} => size' <= Left'
      <3>1. CASE BudgetExceeded
        <4>1. size' <= size
          BY <1>0, <3>1, HalvedSize DEF BudgetExceeded, ClientTypes
        <4>2. size <= Left /\ Left' = Left
          BY <1>0, <3>1 DEF BudgetExceeded, Answered, Exchange, Left
        <4>3. size' \in Nat /\ size \in Nat /\ Left \in Nat
          BY <1>0, <3>1, HalvedSize, Positions DEF BudgetExceeded, ClientTypes
        <4> QED
          BY <4>1, <4>2, <4>3
      <3>2. CASE Saturated
        BY <1>0, <3>2 DEF Saturated, Answered, StopsHere, Exchange, Left
      <3>3. CASE Pick
        BY <1>0, <3>3, ClampedSize, Positions DEF Pick, Left
      <3>4. CASE AllSent \/ OtherError \/ Commit \/ Killed
        BY <3>4 DEF AllSent, OtherError, Commit, Killed, StopsHere
      <3>5. CASE Send \/ ConnectFailure
        BY <1>0, <3>5 DEF Send, ConnectFailure, StopsHere, Exchange, Left
      <3> QED
        BY <1>4, <3>1, <3>2, <3>3, <3>4, <3>5 DEF ClientNext
    <2> QED
      BY <2>1, <2>2 DEF Exchange
  <1> QED
    BY <1>1, <1>2, <1>3, <1>4, CallerSteps

\* Only a commit moves the cursor, and it appends the batch the cursor is at.
LEMMA CursorSteps ==
  ASSUME IInv, [Next]_vars
  PROVE  \/ UNCHANGED <<cursor, vectors>>
         \/ Commit /\ size \in 1 .. Left /\ vectors' = vectors \o Batch /\ cursor' = cursor + size
  <1>1. CASE Commit
    <2>1. answer[Indexer].work = Batch /\ answer[Indexer] # None /\ size <= Left
      BY <1>1 DEF IInv, Exchange, Commit, Answered, None
    <2>2. size \in 1 .. Left
      BY <2>1, Positions DEF IInv, ClientTypes
    <2> QED
      BY <1>1, <2>1, <2>2 DEF Commit
  <1>2. CASE ClientNext /\ ~Commit
    BY <1>2 DEF ClientNext, Pick, AllSent, Send, ConnectFailure, BudgetExceeded, Saturated, OtherError,
                Killed, StopsHere
  <1>3. CASE UNCHANGED clientVars
    BY <1>3 DEF clientVars
  <1> QED
    BY <1>1, <1>2, <1>3, OtherSteps

\* A step keeps the saved vectors a prefix of the queue.
LEMMA SavedInOrderStep ==
  ASSUME IInv, [Next]_vars
  PROVE  SavedInOrder'
  <1>1. CASE UNCHANGED <<cursor, vectors>>
    BY <1>1 DEF IInv, SavedInOrder
  <1>2. CASE /\ size \in 1 .. Left /\ vectors' = vectors \o Batch /\ cursor' = cursor + size
    <2>1. SubSeq(Queue, 1, cursor) \o Batch = SubSeq(Queue, 1, cursor + size)
      BY <1>2, PrefixGrows, Positions, SMTT(30) DEF IInv
    <2> QED
      BY <1>2, <2>1 DEF IInv, SavedInOrder
  <1> QED
    BY <1>1, <1>2, CursorSteps

\* Every step keeps the invariant.
LEMMA StepIInv == IInv /\ [Next]_vars => IInv'
  BY CallerSteps, ClientTypesStep, AwaitingStep, ExchangeStep, SavedInOrderStep DEF IInv

\* The invariant holds in every state.
LEMMA Invariance == Spec => []IInv
  BY InitIInv, StepIInv, PTL DEF Spec

-----------------------------------------------------------------------------
(* Theorems *)

\* The locals of run_embed_phase keep their types: its slices stay within the
\* queue, and the rate it unwraps from the third batch on has been measured.
THEOREM PhaseTypeCorrect == Spec => []PhaseTypeOK
  <1>1. IInv => PhaseTypeOK
    <2> SUFFICES ASSUME IInv PROVE PhaseTypeOK
      OBVIOUS
    <2>1. ServerTypeOK
      BY DEF IInv, ServerTypes, ServerTypeOK, Awaiting, Live
    <2>2. size >= 1 /\ (pc \in {"send", "await"} => size <= Left)
      BY DEF IInv, ClientTypes, Exchange
    <2>3. batches >= 2 /\ pc = "pick" => rated
      BY DEF IInv, ClientTypes, Measured
    <2> QED
      BY <2>1, <2>2, <2>3 DEF IInv, ClientTypes, PhaseTypeOK
  <1> QED
    BY <1>1, Invariance, PTL

\* The first `cursor` chunks have the vectors of their own texts and no other
\* chunk has one, whatever is halved, retried, shed, given up or answered late.
THEOREM VectorsSavedInOrder == Spec => []SavedInOrder
  <1>1. IInv => SavedInOrder
    BY DEF IInv
  <1> QED
    BY <1>1, Invariance, PTL

\* A task whose cancel flag is set computes no further vector (the checks of
\* embed_with_cancel before the mutex and between forward passes).
THEOREM AbandonedTasksStop == Spec => AbandonedStopsComputing
  <1>1. ASSUME IInv, [Next]_vars, NEW t \in Live, task[t].gone, task'[t] # NoTask
        PROVE  task'[t].done = task[t].done /\ (running' = t => running = t)
    <2>0. ServerTypes /\ Searchers \subseteq Callers /\ Indexer \in Callers
      BY <1>1, ServerAssumption, PhaseAssumption DEF IInv
    <2>1. CASE UNCHANGED <<task, running>>
      BY <2>1
    <2>2. ASSUME NEW c \in Callers, NEW work, Asks(c, work)
          PROVE  task'[t].done = task[t].done /\ (running' = t => running = t)
      <3>1. CASE \E kind \in {"busy", "error"} : Refuse(c, kind)
        BY <2>1, <3>1 DEF Refuse
      <3>2. ASSUME NEW k \in Free(c), Start(c, k, work)
            PROVE  task'[t].done = task[t].done /\ (running' = t => running = t)
        BY <2>0, <2>2, <3>2, TaskStarted DEF Asks, Start
      <3> QED
        BY <2>2, <3>1, <3>2 DEF Asks
    <2>3. ASSUME NEW u \in Ids, TakeMutex(u) \/ ForwardPass(u) \/ EmbedEnds(u)
          PROVE  task'[t].done = task[t].done /\ (running' = t => running = t)
      BY <1>1, <2>0, <2>3, LiveTask DEF TakeMutex, ForwardPass, EmbedEnds, Ends, ServerTypes, Live
    <2>4. ASSUME NEW u \in Ids, ServerTimeout(u) \/ Disconnected(u)
          PROVE  task'[t].done = task[t].done /\ (running' = t => running = t)
      <3>1. u \in Live /\ Drop(u) /\ UNCHANGED running
        BY <2>4 DEF ServerTimeout, Disconnected, Admitted
      <3> QED
        BY <1>1, <2>0, <3>1, TaskDropped
    <2> QED
      BY <1>1, <2>0, <2>1, <2>2, <2>3, <2>4, ServerSteps
      DEF serverVars, EmbedderNext, Forgets, ClientTimeout
  <1>2. IInv /\ [Next]_vars =>
          [\A t \in Live : task[t].gone /\ task'[t] # NoTask
             => task'[t].done = task[t].done /\ (running' = t => running = t)]_serverVars
    BY <1>1
  <1> QED
    BY <1>2, Invariance, PTL DEF Spec, AbandonedStopsComputing

\* The embed phase implements EmbedJob: it saves chunks it was given, whole
\* batches, none twice, and stops once.
THEOREM PhaseImplementsJob == Spec => ImplementsJob
  <1>1. Init => Job!JobInit
    BY DEF Init, Job!JobInit
  <1>2. ASSUME IInv, [Next]_vars
        PROVE  [Job!JobNext]_(Job!jobVars)
    <2>1. CASE Commit /\ size \in 1 .. Left /\ cursor' = cursor + size
      <3> DEFINE batch == cursor + 1 .. cursor + size
      <3>1. batch \in SUBSET (DOMAIN Queue) /\ batch # {} /\ batch \cap (1 .. cursor) = {}
        <4>1. /\ cursor \in Nat /\ size \in 1 .. Left /\ Left \in Nat /\ cursor + Left <= Len(Queue)
              /\ Len(Queue) \in Nat /\ DOMAIN Queue = 1 .. Len(Queue)
          BY <1>2, <2>1, Positions DEF IInv
        <4>2. cursor + 1 \in batch /\ batch \subseteq 1 .. Len(Queue) /\ batch \cap (1 .. cursor) = {}
          BY <4>1
        <4> HIDE DEF batch
        <4> QED
          BY <4>1, <4>2
      <3>2. 1 .. cursor' = (1 .. cursor) \cup batch
        BY <1>2, <2>1, Positions DEF IInv, ClientTypes
      <3>3. pc # "done" /\ pc' # "done"
        BY <2>1 DEF Commit, Answered
      <3>4. Job!Save(batch)
        BY <3>1, <3>2, <3>3 DEF Job!Save
      <3> QED
        BY <3>1, <3>4 DEF Job!JobNext
    <2>2. CASE UNCHANGED cursor
      <3>1. pc = "done" => pc' = "done"
        BY <1>2, OtherSteps DEF ClientNext, Pick, AllSent, Send, ConnectFailure, BudgetExceeded, Saturated,
                                OtherError, Commit, Killed, Answered, clientVars
      <3>2. (1 .. cursor)' = 1 .. cursor
        BY <2>2
      <3> QED
        BY <3>1, <3>2 DEF Job!JobNext, Job!Stop, Job!jobVars
    <2> QED
      BY <1>2, <2>1, <2>2, CursorSteps
  <1> QED
    BY <1>1, <1>2, Invariance, PTL DEF Spec, ImplementsJob, Job!JobSpec
=============================================================================
