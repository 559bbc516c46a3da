----------------------------- MODULE MCCodeDiff -----------------------------
(* Model values for CodeDiff: four blocks, two in one function (so its     *)
(* first recorded address depends on which of them ran), one in another   *)
(* and one outside every symbol.                                           *)
EXTENDS CodeDiff

MCBlocks == {1, 2, 3, 4}

\* 0: " --- ", 1: a function with blocks 1 and 2, 2: a function with block 3.
MCSymbolOf == (1 :> 1) @@ (2 :> 1) @@ (3 :> 2) @@ (4 :> 0)

=============================================================================
