------------------------------ MODULE EmbedJob ------------------------------
(***************************************************************************)
(* What an embedding run promises to the rest of the indexer: it saves     *)
(* vectors of chunks it was given, whole batches at a time, loses none it  *)
(* saved, and may stop early, leaving the rest for the next run's backfill.*)
(***************************************************************************)
CONSTANT Given
VARIABLES saved, over

jobVars == <<saved, over>>

JobInit == saved = {} /\ over = FALSE

Save(batch) ==
    /\ ~over /\ batch # {} /\ batch \cap saved = {}
    /\ saved' = saved \cup batch
    /\ UNCHANGED over

Stop == ~over /\ over' = TRUE /\ UNCHANGED saved

JobNext == Stop \/ \E batch \in SUBSET Given : Save(batch)

JobSpec == JobInit /\ [][JobNext]_jobVars
============================================================================
