------------------------------ MODULE MCDedup ------------------------------
(* An instance of Dedup for TLC: one regular sender and visitors that send *)
(* a frame or two and can push it out of the table.                        *)
EXTENDS Dedup, TLC

CONSTANTS Regular, Visitors, LastRegular, LastVisitor

Everyone == {Regular} \cup Visitors

LastFrames == [n \in Everyone |-> IF n = Regular THEN LastRegular ELSE LastVisitor]

\* Visitors are interchangeable.
Symmetry == Permutations(Visitors)
=============================================================================
