---------------------------- MODULE MCController ----------------------------
(***************************************************************************)
(* Instances of Controller: addresses over banks and rows.                 *)
(***************************************************************************)
EXTENDS Controller

CONSTANTS a1, a2, a3, b1, b2, r1, r2

\* Two addresses in different rows of one bank, a third in another bank.
TwoBanks == (a1 :> b1) @@ (a2 :> b1) @@ (a3 :> b2)
TwoRows == (a1 :> r1) @@ (a2 :> r2) @@ (a3 :> r1)

\* All addresses in one bank, two of them in the same row.
OneBank == [a \in {a1, a2, a3} |-> b1]
SharedRow == (a1 :> r1) @@ (a2 :> r1) @@ (a3 :> r2)
=============================================================================
