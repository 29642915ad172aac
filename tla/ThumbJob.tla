------------------------------ MODULE ThumbJob ------------------------------
(***************************************************************************)
(* What the thumbnail service promises of an album: its jobs run one at a  *)
(* time, a job saves each of its files once or gives it up for a reason,   *)
(* in batches of a bounded size, and ends when it holds no more files.     *)
(* ThumbBatch is the pool of goroutines that implements it.                *)
(***************************************************************************)
EXTENDS Naturals, FiniteSets

CONSTANTS
  Files,        \* the files of the album
  Unsupported,  \* those the service has no decoder for
  BatchSize,    \* how many thumbnails are saved at once
  MaxFaults     \* bound: how many errors and crashes a behaviour has

VARIABLES
  busy,     \* whether a job runs
  left,     \* the files it holds
  rows,     \* the files that have a row in the thumbnail table
  entries,  \* the files that have a row in the file table
  faults

vars == <<busy, left, rows, entries, faults>>

Init ==
  /\ ~busy /\ left = {}
  /\ rows = {} /\ entries = Files
  /\ faults = 0

Fault == faults < MaxFaults /\ faults' = faults + 1

Begin ==
  /\ ~busy /\ busy'
  /\ left' \in SUBSET Files
  /\ UNCHANGED <<rows, entries, faults>>

Save(S) ==
  /\ S # {} /\ S \cap rows = {} /\ Cardinality(S) <= BatchSize
  /\ rows' = rows \cup S
  /\ left' = left \ S
  /\ UNCHANGED <<busy, entries, faults>>

\* Files are given up together: one that cannot be saved takes its batch with it.
GiveUp(S) ==
  /\ S # {} /\ Cardinality(S) <= BatchSize
  /\ left' = left \ S
  /\ \/ /\ \/ S \subseteq Unsupported
           \/ S \cap rows # {}
           \/ ~ S \subseteq entries
        /\ UNCHANGED faults
     \/ Fault
  /\ UNCHANGED <<busy, rows, entries>>

End ==
  /\ busy /\ left = {}
  /\ ~busy'
  /\ UNCHANGED <<left, rows, entries, faults>>

Crash ==
  /\ Fault
  /\ ~busy' /\ left' = {}
  /\ UNCHANGED <<rows, entries>>

\* The main server removes thumbnails and files at any time.
Remove(f) ==
  /\ rows' = rows \ {f}
  /\ entries' \in {entries, entries \ {f}}
  /\ UNCHANGED <<busy, left, faults>>

Next ==
  \/ Begin \/ End \/ Crash
  \/ \E S \in SUBSET left : Save(S) \/ GiveUp(S)
  \/ \E f \in Files : Remove(f)

Spec == Init /\ [][Next]_vars
=============================================================================
