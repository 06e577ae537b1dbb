------------------------------ MODULE MCTonemap ------------------------------
(* Tonemap with the lengths at which the number of digits changes.         *)
EXTENDS Tonemap

MCRuns ==
    [modulation : {0, 5}, length : {1, 3, 9, 10, 58}]
=============================================================================
