------------------------- MODULE MCTrailingContract -------------------------
(***************************************************************************)
(* Strategies for TLC: every mix of module and class bindings with a loop  *)
(* whose factor is one of their names, and every mix of statements before, *)
(* in and after the loop. 9 stands for 0.9 and 1 for 10 %.                 *)
(***************************************************************************)
EXTENDS TrailingContract

CONSTANT ClassBindings  \* how a class body may bind a parameter

Method(name, body) == <<Function(name)>> \o body \o <<End>>

K == <<"K">>
k == <<"k">>
f == <<"f">>
SelfK == <<"self", "K">>
Stop == <<"t", "sl">>
Entry == Ref(<<"t", "entry_price">>)
High == Index(HIGH, Neg(Num(10)))

Times(a, b) == Bin("*", a, b)
Tenth == Bin("/", Num(10), Num(100))
LessTenth == Bin("-", Num(10), Tenth)

MaxStop(factor, later) ==
    Call("max", <<AnyOf(<<Ref(Stop), Times(Entry, factor)>>), Times(High, later)>>)
Swapped(factor) ==
    Call("max", <<Times(factor, High), AnyOf(<<Ref(Stop), Times(factor, Entry)>>)>>)

Loop(e) == For("t", <<Assign(Stop, e)>>)

Program(module, class, init, next, plain) ==
    [module |-> module, class |-> class, init |-> init, next |-> next, plain |-> plain,
     rest |-> <<>>]

Bind(how, n) == Binding("K", how, Num(n))

ModuleParts ==
    {<<>>, <<Bind("assign", 9)>>, <<Bind("assign", 9), Bind("assign", 5)>>}
        \cup {<<Bind("assign", 9), Bind(how, 5)>> : how \in {"nested", "def"}}
        \cup {<<Binding("P", "assign", Num(1)), Binding("K", "assign", Bin("-", Num(10), Ref(<<"P">>)))>>,
              <<Bind("assign", 9), Binding("max", "def", Num(0))>>}

ClassParts ==
    {<<>>} \cup {<<Bind("assign", 9)>> \o more : more \in {<<>>} \cup {<<Bind(how, 5)>> : how \in ClassBindings}}

InitParts == {<<>>, <<Bind("assign", 5)>>}

\* Bindings: the factor is a name of the module or of the class.
BindingPrograms ==
    {Program(m, c, i, <<Loop(e)>>, plain) :
        m \in ModuleParts, c \in ClassParts, i \in InitParts, plain \in BOOLEAN,
        e \in {MaxStop(Ref(K), Ref(K)), Swapped(Ref(SelfK)), MaxStop(Ref(SelfK), Num(9))}}

Before ==
    {<<>>, <<Doc>>, <<Assign(k, Num(9))>>, <<Assign(k, Ref(K))>>,
     <<Assign(k, Num(9)), Assign(f, Ref(k)), Assign(k, Num(5))>>,
     <<Assign(<<"t">>, Num(9))>>, <<If(<<>>)>>}

Loops ==
    {<<Assign(Stop, e)>> :
        e \in {MaxStop(LessTenth, Num(9)), Swapped(Ref(k)), MaxStop(Ref(f), Ref(f)),
               MaxStop(Num(9), Num(5)), MaxStop(Num(0), Num(0)), Times(Entry, Num(9)), Times(High, Num(9)),
               Call("max", <<Times(Entry, Num(9)), Times(High, Num(9))>>),
               Call("min", <<AnyOf(<<Ref(Stop), Times(Entry, Num(9))>>), Times(High, Num(9))>>),
               Call("max", <<AnyOf(<<Ref(Stop), Times(Entry, Num(9))>>),
                             Times(Index(HIGH, Neg(Num(20))), Num(9))>>)}}
    \cup
    {<<Assign(k, Num(n)), Assign(<<"high">>, Times(High, Ref(k))), Assign(k, Num(9)),
       Assign(Stop, Call("max", <<AnyOf(<<Ref(Stop), Times(Entry, Ref(k))>>), Ref(<<"high">>)>>))>> :
        n \in {5, 9}}
    \cup
    {<<Assign(<<"old">>, AnyOf(<<Ref(Stop), Times(Entry, Num(9))>>)),
       Assign(Stop, Call("max", <<Ref(<<"old">>), Times(High, Num(9))>>)), Assign(k, Num(5))>>,
     <<Assign(Stop, MaxStop(Num(9), Num(9))), Assign(Stop, Num(9))>>,
     <<If(<<Assign(Stop, MaxStop(Num(9), Num(9)))>>)>>,
     <<Assign(<<"t">>, Num(9))>>, <<>>}

After == {<<>>, <<If(<<>>)>>, <<For("t", <<Assign(Stop, Times(Entry, Num(5)))>>)>>,
          <<Assign(k, Num(5))>>}

\* Bodies: statements before, in and after the loop, with or without K.
BodyPrograms ==
    {Program(m, <<>>, <<>>, b \o <<For("t", l)>> \o a, TRUE) :
        m \in {<<>>, <<Bind("assign", 9)>>}, b \in Before, l \in Loops, a \in After}
    \cup {Program(<<>>, <<>>, <<>>, b, TRUE) : b \in Before}

-----------------------------------------------------------------------------
(* Strategies without a stop: one statement, or a loop over the trades with *)
(* one in it, around it or after it, an alias or an inner function.        *)

UsedPaths ==
    {<<"self">>, Position, Append(Position, "close"), Append(Position, "entry_price"), Trades,
     <<"self", "sell">>, <<"self", "orders">>, <<"self", "_broker">>, <<"self", "x">>, <<"self", "x", "sl">>,
     <<"t">>, <<"t", "sl">>, <<"t", "entry_price">>, <<"t", "close">>, <<"x">>, <<"x", "close">>}

Uses(paths) ==
    {Use(role, p) : role \in {"load", "call", "args", "del", "test"}, p \in paths}
        \cup {Set(p, <<"x">>) : p \in paths}

Around(target, iter, body) == <<Each(target, iter)>> \o body \o <<End>>
OverTrades(body) == Around(<<"t">>, Trades, body)

OfTrade == {<<"t">>, <<"t", "sl">>, <<"t", "close">>, <<"t", "entry_price">>}

Bodies1 ==
    {<<u>> : u \in Uses(UsedPaths)} \cup {OverTrades(<<u>>) : u \in Uses(UsedPaths)}
    \cup {OverTrades(<<>>) \o <<u>> : u \in Uses(OfTrade)}
    \cup {OverTrades(Method(name, <<u>>)) : u \in Uses(OfTrade), name \in {"helper", "trades"}}

Aliases ==
    {<<Set(target, value), u>> : target \in {<<"x">>, <<"self", "x">>}, value \in {<<"self">>, Position, Trades},
                                u \in {Use("call", <<"x", "close">>), Set(<<"self", "x", "sl">>, <<"y">>)}}
    \cup {OverTrades(<<Set(<<"x">>, <<"t">>)>>) \o <<Use("call", <<"x", "close">>)>>}
    \cup {Around(target, Trades, <<u>>) :
            target \in {<<"x">>, <<"self", "x">>},
            u \in {Use("call", <<"x", "close">>), Use("load", <<"x", "sl">>), Use("call", <<"self", "x", "close">>)}}
    \cup {OverTrades(Around(<<"t">>, iter, <<u>>)) : iter \in {<<"x">>, Trades}, u \in Uses({<<"t", "sl">>})}
    \cup {Around(<<"t">>, <<"x">>, <<Use("call", <<"t", "close">>)>>)}

\* The strategy by another name than self.
OtherNames ==
    {<<u>> : u \in Uses({<<"me">>, <<"super()", "sell">>, <<"me", "position">>, <<"super()", "_broker">>,
                         <<"Strategy", "closed_trades">>, <<"me", "x", "trades">>})}
    \cup {<<Set(<<"x">>, value), u>> :
             value \in {<<"super()">>, <<"me", "orders">>},
             u \in {Use("call", <<"x", "sell">>), Use("call", <<"x", "position", "close">>),
                    Use("call", <<"self", "sell">>), Set(<<"x", "data">>, <<"y">>)}}
    \cup {Around(<<"c">>, iter, <<u>>) :
             iter \in {<<"super()", "closed_trades">>, <<"me", "trades">>},
             u \in {Use("call", <<"c", "close">>), Set(<<"c", "sl">>, <<"y">>), Use("load", <<"c", "_broker">>)}}
    \cup {OverTrades(<<Use("call", <<"me", "sell">>), u>>) : u \in {Set(<<"t", "sl">>, <<"x">>), Use("call", <<"t", "close">>)}}

\* Two methods, and the class body with a statement of its own.
Classes ==
    {Method(name, b) : name \in {"next", "init"}, b \in Bodies1 \cup Aliases}
    \cup {Method("next", b) : b \in OtherNames}
    \cup {Method("next", OverTrades(<<>>)) \o Method("helper", <<u>>) : u \in Uses(OfTrade)}
    \cup {<<Set(<<name>>, <<"x">>)>> \o Method("next", OverTrades(<<u>>)) :
            name \in {"x", "next", "trades"}, u \in Uses({<<"t", "sl">>})}

ASSUME ListingsAssumption == \A class \in Classes : IsListing(class)

UsePrograms == {[Program(<<>>, <<>>, <<>>, <<>>, TRUE) EXCEPT !.rest = class] : class \in Classes}

MCPrograms == BindingPrograms \cup BodyPrograms \cup UsePrograms

Asking(percentages) == [trailing |-> TRUE, percentages |-> percentages]

MCPrompts ==
    {Asking(p) : p \in {{}, {1}, {5}, {10}, {1, 5}}} \cup {[trailing |-> FALSE, percentages |-> {}]}

-----------------------------------------------------------------------------
(* What ContractProofs asks of a proof of a stop, for the programs above.  *)

Stops == {None, 0} \cup {Below(price, p) : price \in Prices, p \in 1..(Scale - 1)}

Series == UNION {[1..n -> Prices] : n \in 1..2}

ASSUME ProvenAssumption == "nested" \notin ClassBindings => ProofsSetStops(Stops, Series)
=============================================================================
