------------------------------ MODULE EpochLog ------------------------------
(***************************************************************************)
(* What the epoch store promises (packages/engine/src/epochs.js, header,   *)
(* and cli.js, header): an append-only log in which epoch N is accepted    *)
(* only when N is head + 1, computed from the continuity state the         *)
(* publication of N - 1 left, and not before the cadence allows it unless  *)
(* the operator forced it.  Nothing is ever edited.                        *)
(*                                                                         *)
(* It stands for no code: EpochStore, which does, is shown to implement it.*)
(***************************************************************************)
EXTENDS Naturals

CONSTANTS Doc,      \* the epoch records that may be published
          Gate      \* the least time between two unforced epochs

VARIABLES count,    \* number of published epochs; the head is count - 1
          epochs    \* the published records, indexed by epoch number

logVars == <<count, epochs>>

Init == count = 0 /\ epochs = [e \in {} |-> {}]

\* d may follow the record prev: its units and divisor were chained from the
\* state of the run that published prev, and the cadence has elapsed.
Follows(d, prev) ==
    /\ d.basis = prev.run
    /\ d.forced \/ d.at >= prev.at + Gate

Publish(d) ==
    /\ d.epoch = count
    /\ count > 0 => Follows(d, epochs[count - 1])
    /\ count' = count + 1
    /\ epochs' = [e \in 0..count |-> IF e = count THEN d ELSE epochs[e]]

Next == \E d \in Doc : Publish(d)

Spec == Init /\ [][Next]_logVars
=============================================================================
