------------------------------ MODULE MCMemSim ------------------------------
(***************************************************************************)
(* Instances of MemSim.                                                    *)
(***************************************************************************)
EXTENDS MemSim

CONSTANTS p0, p1, p2, p3, p4

MCLines == Pages \X (0 .. LinesInPage - 1)

\* Two channels, interleaved line by line.
MCChannelOf == [l \in Lines |-> l[2] % 2]

\* The physical pages other than page 0 are interchangeable.
PageSymmetry == Permutations(Pages \ {Page0})
=============================================================================
