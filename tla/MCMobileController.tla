------------------------- MODULE MCMobileController -------------------------
(* MobileController with an empty prompt, one emoji (one character, two     *)
(* units), two letters and four, under limits of two and three.             *)
EXTENDS MobileController

Prompt(chars, units) == [chars |-> chars, units |-> units]

MCPrompts == {Prompt(0, 0), Prompt(1, 2), Prompt(2, 2), Prompt(4, 4)}
=============================================================================
