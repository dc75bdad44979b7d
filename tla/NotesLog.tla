------------------------------ MODULE NotesLog ------------------------------
(***************************************************************************)
(* What the git-notes carrier promises (git_notes/fold.rs: "an append-only *)
(* event log"; publish.rs: "forcing could only discard a teammate's        *)
(* memory"): every clone and the shared remote hold a set of lines that    *)
(* only grows.  A clone gains a line by recording it or by learning what   *)
(* the remote holds; the remote gains exactly what a clone that already    *)
(* holds all of the remote publishes.  The promise is void from the moment *)
(* a read-modify-write runs without the lock.                              *)
(***************************************************************************)
CONSTANTS Clones, Lines

VARIABLES
  held,           \* the lines each clone holds
  shared,         \* the lines the remote holds
  broken          \* serialisation was lost; nothing is promised any more

vars == <<held, shared, broken>>

Init ==
  /\ held = [c \in Clones |-> {}]
  /\ shared = {}
  /\ broken = FALSE

Append(c) ==
  /\ ~broken /\ ~broken'
  /\ \E l \in Lines : held' = [held EXCEPT ![c] = @ \cup {l}]
  /\ UNCHANGED shared

Learn(c) ==
  /\ ~broken /\ ~broken'
  /\ \E S \in SUBSET shared : held' = [held EXCEPT ![c] = @ \cup S]
  /\ UNCHANGED shared

Publish(c) ==
  /\ ~broken /\ ~broken'
  /\ shared \subseteq held[c]
  /\ shared' = held[c]
  /\ UNCHANGED held

Break ==
  /\ broken'
  /\ held' \in [Clones -> SUBSET Lines]
  /\ shared' \in SUBSET Lines

Next == Break \/ \E c \in Clones : Append(c) \/ Learn(c) \/ Publish(c)

Spec == Init /\ [][Next]_vars
=============================================================================
