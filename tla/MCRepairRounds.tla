--------------------------- MODULE MCRepairRounds ---------------------------
(***************************************************************************)
(* First versions for TLC: a correct one, and versions with up to three    *)
(* faults of different kinds, or four of one.                              *)
(***************************************************************************)
EXTENDS RepairRounds

Correct ==
    [fence |-> "none", parses |-> TRUE, imports |-> {"backtesting"}, forbidden |-> {},
     class |-> [bases |-> {"backtesting.Strategy"}, methods |-> {"init", "next"}],
     shifts |-> {1}, misuses |-> {}, trails |-> TRUE, breaks |-> None]

Breaks(family) == [code |-> "STRATEGY_RUNTIME_ERROR", family |-> family]

\* A fault is a field and the value it has instead.
Faults ==
    {<<"fence", "whole">>, <<"fence", "open">>, <<"parses", FALSE>>,
     <<"imports", {"os", "ta", "relative"}>>, <<"forbidden", {"open"}>>,
     <<"class", None>>, <<"class", [bases |-> {"object"}, methods |-> {"init", "next"}]>>,
     <<"shifts", {-1}>>, <<"misuses", {"long_only_exit"}>>, <<"trails", FALSE>>,
     <<"breaks", Breaks(None)>>, <<"breaks", Breaks("position_management")>>, <<"breaks", Breaks("indicator_adapter")>>}

With(faults) ==
    [field \in DOMAIN Correct |->
        IF \E f \in faults : f[1] = field THEN (CHOOSE f \in faults : f[1] = field)[2] ELSE Correct[field]]

Many == [Correct EXCEPT !.imports = {"os", "sys"}, !.forbidden = {"open", "eval"},
                        !.class = [bases |-> {}, methods |-> {}]]

MCSources ==
    {Correct, Many, With({<<"parses", FALSE>>, <<"misuses", {"long_only_exit"}>>, <<"shifts", {-1}>>}),
     With({<<"misuses", {"long_only_exit"}>>, <<"forbidden", {"open"}>>, <<"breaks", Breaks(None)>>})}
        \cup {With({f}) : f \in Faults}
        \cup {With({<<"trails", FALSE>>, f}) : f \in Faults}
MCRelapses == {With({<<"shifts", {-1}>>})}
=============================================================================
