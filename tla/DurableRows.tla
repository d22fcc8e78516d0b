----------------------------- MODULE DurableRows -----------------------------
(***************************************************************************)
(* What the session and its directory promise about the rows, without a    *)
(* word on contents, calls, locks or the order of writes: every function    *)
(* has a version in memory and one on disk, 0 standing for no row.          *)
(* ConclusionStore implements this specification.                          *)
(***************************************************************************)
EXTENDS Naturals

CONSTANT Functions

VARIABLES
  memory,    \* [Functions -> Nat]: the version the session holds
  saved,     \* [Functions -> Nat]: the version of the file
  merging    \* the rows of an earlier process are still to come

rows == <<memory, saved, merging>>

Left == \E f \in Functions : saved[f] # 0

Init ==
  /\ memory = [f \in Functions |-> 0]
  /\ saved \in [Functions -> {0, 1}]
  /\ merging = Left

\* Rows are replaced by newer ones, newer than what is on disk, too; none is
\* ever taken away.
Change ==
  /\ \A f \in Functions :
       memory'[f] # memory[f] => memory'[f] > memory[f] /\ memory'[f] > saved[f]
  /\ UNCHANGED <<saved, merging>>

\* A version this process made is written.
Save(f) ==
  /\ memory[f] # 0
  /\ saved' = [saved EXCEPT ![f] = saved'[f]]
  /\ saved'[f] \in 1..memory[f]
  /\ UNCHANGED <<memory, merging>>

\* A new process starts with nothing in memory.
Restart ==
  /\ memory' = [f \in Functions |-> 0]
  /\ merging' = Left
  /\ UNCHANGED saved

\* The rows on disk come in where there is none yet.  What comes in is what is
\* on disk now, however long ago it was read.
Recover ==
  /\ merging
  /\ memory' = [f \in Functions |-> IF memory[f] = 0 THEN saved[f] ELSE memory[f]]
  /\ merging' = FALSE
  /\ UNCHANGED saved

Next == Change \/ (\E f \in Functions : Save(f)) \/ Restart \/ Recover

Spec == Init /\ [][Next]_rows
=============================================================================
