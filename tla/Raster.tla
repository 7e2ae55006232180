------------------------------- MODULE Raster -------------------------------
(***************************************************************************)
(* What a video signal promises: a beam that visits the pixels of a        *)
(* picture line by line, each once in every frame, and is dark after every *)
(* line.  Sync implements it.                                              *)
(***************************************************************************)
EXTENDS Integers

CONSTANTS Width, Height

VARIABLES lit,     \* TRUE while a pixel is shown
          x, y     \* the pixel shown, or the last one that was

Init == lit = FALSE /\ x = Width - 1 /\ y = Height - 1

Advance == /\ lit /\ x < Width - 1
           /\ x' = x + 1
           /\ UNCHANGED <<lit, y>>

NextLine == /\ ~lit
            /\ lit' = TRUE /\ x' = 0
            /\ y' = IF y = Height - 1 THEN 0 ELSE y + 1

Darken == /\ lit /\ x = Width - 1
          /\ lit' = FALSE
          /\ UNCHANGED <<x, y>>

Spec == Init /\ [][Advance \/ NextLine \/ Darken]_<<lit, x, y>>

=============================================================================
