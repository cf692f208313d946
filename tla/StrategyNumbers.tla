--------------------------- MODULE StrategyNumbers ---------------------------
(***************************************************************************)
(* The numbers a generated strategy computes with, and what else an        *)
(* expression of it may be worth.  Numbers are fixed-point with one        *)
(* decimal: Scale stands for 1.0.                                          *)
(***************************************************************************)
EXTENDS Integers

CONSTANTS
    None,     \* Python's None
    Raised,   \* an exception instead of a value
    Object    \* any value that is not a number: a function, a class, a module

ASSUME NoNumberAssumption == None \notin Int /\ Raised \notin Int \cup {None}

Scale == 10

IsNumber(v) == v \notin {None, Raised, Object}

Least(values)    == CHOOSE v \in values : \A w \in values : v <= w
Greatest(values) == CHOOSE v \in values : \A w \in values : v >= w
=============================================================================
