-------------------------------- MODULE Runs --------------------------------
(***************************************************************************)
(* What a step makes of a first value when it is taken once for each       *)
(* element of a sequence, from left to right.  The step is a function of   *)
(* the value so far and the element, so that it can be reasoned about.     *)
(***************************************************************************)
EXTENDS Naturals, Sequences

RunOver(step, first, seq) ==
    LET run[i \in 0 .. Len(seq)] == IF i = 0 THEN first ELSE step[run[i - 1]][seq[i]]
    IN  run[Len(seq)]
=============================================================================
