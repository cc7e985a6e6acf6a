------------------------ MODULE MCPayloadTransaction ------------------------
(* Small instances of PayloadTransaction for TLC.                          *)
EXTENDS PayloadTransaction, TLC

(* Batches and transaction identifiers are interchangeable.                *)
Symmetry == Permutations(Batch) \cup Permutations(Tid)

\* At most two of these: an operation that fails, a kill or power cut, an upgrade
\* of the port.
TwoMishaps == faults + stops + recipe <= 3

\* One damaged object shows what a live path can be like: a step looks at one path.
OneDamaged == Cardinality({p \in Path : disk.live[p] # NoFile
                                        /\ disk.live[p].form # "intact"}) <= 1
=============================================================================
