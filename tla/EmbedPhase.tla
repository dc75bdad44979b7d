----------------------------- MODULE EmbedPhase -----------------------------
(***************************************************************************)
(* The embed phase of `spelunk index`: run_embed_phase sends the queue in  *)
(* batches whose size it calibrates, halves a batch that runs out of time, *)
(* retries one the server shed or could not be reached for, and commits    *)
(* each answered batch in one transaction.  It runs against EmbedServer,   *)
(* beside the queries of other callers.                                    *)
(*                                                                         *)
(* The measured rate enters only as the number of tokens a batch may hold: *)
(* any value of Targets at any time.                                       *)
(***************************************************************************)
EXTENDS EmbedServer, FiniteSetsExt

CONSTANTS
    Indexer,        \* the caller that runs the embed phase
    Queue,          \* the chunks, in the order they would be queued
    Totals,         \* how many of them a run may find to do
    Question,       \* the text of a query
    Tokens,         \* token count of each entry of Queue
    Requested,      \* values --batch-size may have, 0 when unset
    Second,         \* CALIBRATION_BATCH_2
    Growth,         \* GROWTH_FACTOR
    Targets,        \* token budgets a measured rate may give
    MaxConnects,    \* length of CONNECT_FAILURE_BACKOFFS
    MaxSaturation   \* MAX_SATURATION_RETRIES

ASSUME PhaseAssumption ==
    /\ Indexer \in Callers \ Searchers
    /\ Queue \in Seq(Texts) /\ Question \in Texts
    /\ DOMAIN Tokens = DOMAIN Queue /\ Totals \subseteq DOMAIN Queue
    /\ Second \in 1 .. MaxBatch
    /\ Growth \in Nat \ {0} /\ Requested \subseteq Nat
    /\ MaxConnects \in Nat /\ MaxSaturation \in Nat

VARIABLES
    pc,          \* "pick", "send", "await" or "done"
    total,       \* length of chunk_ids_and_texts
    ceiling,     \* most chunks a calibrated batch may have
    cursor,      \* entries of Queue already saved
    size,        \* this_batch_size
    previous,    \* previous_batch_size
    batches,     \* batch_num, 3 standing for every later one
    rated,       \* the rate estimate has a sample
    escalated, connects, saturated,   \* what the current batch has tried
    vectors      \* vectors saved, by position in Queue

clientVars == <<pc, total, ceiling, cursor, size, previous, batches, rated,
                escalated, connects, saturated, vectors>>
vars == <<serverVars, clientVars>>

Least(a, b) == IF a < b THEN a ELSE b
Most(a, b) == IF a < b THEN b ELSE a

ResolveBatchCeiling(requested) ==
    Least(IF requested = 0 THEN MaxBatch ELSE requested, MaxBatch)

Init ==
    /\ ServerInit
    /\ pc = "pick" /\ total \in Totals
    /\ \E requested \in Requested : ceiling = ResolveBatchCeiling(requested)
    /\ cursor = 0 /\ size = 1 /\ previous = 1 /\ batches = 0
    /\ rated = FALSE /\ escalated = FALSE /\ connects = 0 /\ saturated = 0
    /\ vectors = <<>>

Left == total - cursor

TokensOf(n) == MapThenSumSet(LAMBDA i : Tokens[cursor + i], 1 .. n)

GrowthCap == Least(Most(previous, 1) * Growth, Most(ceiling, 1))

\* As many chunks as the target's tokens hold, at least one.
NextBatchLen(target) ==
    Max({1} \cup {n \in 1 .. Least(GrowthCap, Left) : TokensOf(n) <= target})

Calibrated(target) ==
    CASE batches = 0 -> 1
      [] batches = 1 -> Second
      [] OTHER -> NextBatchLen(target)

Clamp(n) == Most(1, Least(n, Left))

----------------------------------------------------------------------------
Pick ==
    /\ pc = "pick" /\ Left > 0
    /\ \E target \in Targets : size' = Clamp(Calibrated(target))
    /\ pc' = "send"
    /\ batches' = Least(batches + 1, 3)
    /\ escalated' = FALSE /\ connects' = 0 /\ saturated' = 0
    /\ UNCHANGED <<total, ceiling, cursor, previous, rated, vectors, serverVars>>

AllSent ==
    /\ pc = "pick" /\ Left = 0
    /\ pc' = "done"
    /\ UNCHANGED <<total, ceiling, cursor, size, previous, batches, rated,
                   escalated, connects, saturated, vectors, serverVars>>

Batch == SubSeq(Queue, cursor + 1, cursor + size)

\* embed_one_batch: the request reaches the server, or is refused by it.
Send ==
    /\ pc = "send"
    /\ Request(Indexer, Batch) \/ Rejected(Indexer)
    /\ pc' = "await"
    /\ UNCHANGED <<total, ceiling, cursor, size, previous, batches, rated,
                   escalated, connects, saturated, vectors>>

\* report_embed_failure: what was saved stays, the rest waits for a re-run.
StopsHere ==
    /\ pc' = "done"
    /\ UNCHANGED <<total, ceiling, cursor, size, previous, batches, rated,
                   escalated, connects, saturated, vectors>>

ConnectFailure ==
    /\ pc = "send"
    /\ \/ connects >= MaxConnects /\ StopsHere
       \/ /\ connects < MaxConnects
          /\ connects' = connects + 1
          /\ UNCHANGED <<pc, total, ceiling, cursor, size, previous, batches, rated,
                         escalated, saturated, vectors>>
    /\ UNCHANGED serverVars

Answered(kind) == pc = "await" /\ answer[Indexer].kind = kind

Consumed ==
    /\ answer' = [answer EXCEPT ![Indexer] = None]
    /\ UNCHANGED <<task, running, awaited>>

\* Mutant: the batch that ran out of time is sent again as it was.
Halved_Same == size

Halved == Most(size \div 2, 1)

\* 408 or the client's own timeout.
BudgetExceeded ==
    /\ Answered("late")
    /\ Consumed
    /\ \/ /\ size = 1 /\ ~escalated /\ ~rated
          /\ escalated' = TRUE /\ pc' = "send"
          /\ UNCHANGED <<size, rated>>
       \/ /\ size = 1 /\ (escalated \/ rated)
          /\ pc' = "done"
          /\ UNCHANGED <<size, rated, escalated>>
       \/ /\ size > 1
          /\ size' = Halved /\ rated' = TRUE /\ pc' = "send"
          /\ UNCHANGED escalated
    /\ UNCHANGED <<total, ceiling, cursor, previous, batches, connects, saturated, vectors>>

Saturated ==
    /\ Answered("busy")
    /\ Consumed
    /\ \/ saturated >= MaxSaturation /\ StopsHere
       \/ /\ saturated < MaxSaturation
          /\ saturated' = saturated + 1 /\ pc' = "send"
          /\ UNCHANGED <<total, ceiling, cursor, size, previous, batches, rated,
                         escalated, connects, vectors>>

\* A refusal, or an answer of another length, of which nothing is saved.
Unusable ==
    \/ answer[Indexer].kind = "error"
    \/ answer[Indexer].kind = "ok" /\ Len(answer[Indexer].work) # size

OtherError ==
    /\ pc = "await" /\ Unusable
    /\ Consumed
    /\ StopsHere

\* The whole batch is saved in one transaction, then the cursor moves.
Commit ==
    /\ Answered("ok") /\ ~Unusable
    /\ Consumed
    /\ vectors' = vectors \o answer[Indexer].work
    /\ cursor' = cursor + size
    /\ previous' = size /\ rated' = TRUE
    /\ pc' = "pick"
    /\ UNCHANGED <<total, ceiling, size, batches, escalated, connects, saturated>>

\* Mutant: all batches are one transaction, which a kill rolls back.
Killed_OneTransaction ==
    /\ pc # "done"
    /\ pc' = "done" /\ cursor' = 0 /\ vectors' = <<>>
    /\ UNCHANGED <<total, ceiling, size, previous, batches, rated,
                   escalated, connects, saturated>>
    /\ awaited' = [awaited EXCEPT ![Indexer] = 0]
    /\ answer' = [answer EXCEPT ![Indexer] = None]
    /\ UNCHANGED <<task, running>>

\* The process is killed: its connection closes with it, and what it had
\* committed stays.
Killed ==
    /\ pc # "done"
    /\ StopsHere
    /\ awaited' = [awaited EXCEPT ![Indexer] = 0]
    /\ answer' = [answer EXCEPT ![Indexer] = None]
    /\ UNCHANGED <<task, running>>

----------------------------------------------------------------------------
\* Other callers: a query is one text, and what it is answered is dropped.
\* Bound: none is sent once the phase is over.
Query(c) ==
    /\ pc # "done"
    /\ awaited[c] = 0 /\ answer[c] = None
    /\ Request(c, <<Question>>)
    /\ UNCHANGED clientVars

QueryEnds(c) ==
    /\ answer[c] # None
    /\ answer' = [answer EXCEPT ![c] = None]
    /\ UNCHANGED <<task, running, awaited, clientVars>>

ClientNext ==
    \/ Pick \/ AllSent \/ Send \/ ConnectFailure
    \/ BudgetExceeded \/ Saturated \/ OtherError \/ Commit \/ Killed

Next ==
    \/ ClientNext
    \/ EmbedderNext /\ UNCHANGED clientVars
    \/ \E c \in Callers : ClientTimeout(c) /\ UNCHANGED clientVars
    \/ \E c \in Searchers : Query(c) \/ QueryEnds(c)

Spec == Init /\ [][Next]_vars

\* Fairness: the client's loop runs, and every request it sends carries a
\* timeout.  Nothing is asked of the server, whose mutex is not fair.
FairSpec ==
    /\ Spec
    /\ WF_vars(ClientNext)
    /\ WF_vars(ClientTimeout(Indexer) /\ UNCHANGED clientVars)

----------------------------------------------------------------------------
(***************************************************************************)
(* Properties                                                              *)
(***************************************************************************)

\* Types of run_embed_phase's locals; its slices stay within the queue and
\* the rate it unwraps from the third batch on has been measured.
PhaseTypeOK ==
    /\ ServerTypeOK
    /\ pc \in {"pick", "send", "await", "done"}
    /\ total \in Totals /\ cursor \in 0 .. total /\ ceiling \in Nat /\ previous \in Nat
    /\ size >= 1 /\ (pc \in {"send", "await"} => size <= Left)
    /\ (batches >= 2 /\ pc = "pick" => rated)
    /\ connects \in 0 .. MaxConnects /\ saturated \in 0 .. MaxSaturation

\* Vectors are saved in queue order, each computed from the text of the chunk
\* it is saved for, and none is skipped: whatever was halved, retried, shed or
\* answered late by a batch already given up, the first `cursor` chunks have
\* their own vectors and no other has one.
SavedInOrder == vectors = SubSeq(Queue, 1, cursor)

\* The phase comes to an end whatever the server does: every wait is bounded
\* by a request timeout, every retry by a counter or by halving to one chunk.
PhaseEnds == <>(pc = "done")

Job == INSTANCE EmbedJob WITH
    Given <- DOMAIN Queue,
    saved <- 1 .. cursor,
    over <- pc = "done"

\* The embed phase implements EmbedJob, which is all IndexRun knows of it.
ImplementsJob == Job!JobSpec
============================================================================
