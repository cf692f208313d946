-------------------------- MODULE TrailingContract --------------------------
(***************************************************************************)
(* The proof that a strategy implements the trailing stop its prompt asks  *)
(* for: trailing_proven of backend/app/validators/strategy_contract.py. It *)
(* reads next() statement by statement, replacing aliases by what they     *)
(* stood for when they were assigned. TrailingStop runs what passes, bar   *)
(* by bar, as StrategyLanguage says, so that what was proved can be        *)
(* compared with what happens. The limit of 20 nested expressions lies     *)
(* beyond the programs of the runs and is left out.                        *)
(***************************************************************************)
EXTENDS StrategyLanguage, TrailingStop

-----------------------------------------------------------------------------
(* Expressions under an alias environment: a function from paths to the    *)
(* expressions they stand for.                                             *)

RECURSIVE Resolve(_, _, _)
Resolve(e, env, seen) ==
    IF e.op = "path" /\ e.path \in (DOMAIN env) \ seen
    THEN Resolve(env[e.path], env, seen \cup {e.path})
    ELSE e

RECURSIVE Number(_, _)
Number(expr, env) ==
    LET e == Resolve(expr, env, {})
        ValueOf(part) == Number(part, env)
    IN CASE e.op = "num" -> e.value
         [] e.op = "neg" -> IF ValueOf(e.arg) = None THEN None ELSE -ValueOf(e.arg)
         [] e.op \in {"+", "-", "*", "/"} ->
               IF None \in {ValueOf(e.left), ValueOf(e.right)} THEN None
               ELSE LET value == Arithmetic(e.op, ValueOf(e.left), ValueOf(e.right))
                    IN IF value = Raised THEN None ELSE value
         [] OTHER -> None

IsHigh(e, env) == e.op = "index" /\ e.path = HIGH /\ Number(e.at, env) = -Scale

RECURSIVE PureAlias(_, _, _)
PureAlias(expr, env, trade) ==
    LET e == Resolve(expr, env, {})
        Pure(part) == PureAlias(part, env, trade)
    IN \/ Number(e, env) # None
       \/ trade # None /\ e.op = "path" /\ e.path \in {<<trade, "sl">>, <<trade, "entry_price">>}
       \/ IsHigh(e, env)
       \/ e.op \in {"+", "-", "*", "/"} /\ Pure(e.left) /\ Pure(e.right)
       \/ e.op = "or" /\ \A i \in DOMAIN e.args : Pure(e.args[i])
       \/ e.op = "call" /\ e.name = "max" /\ \A i \in DOMAIN e.args : Pure(e.args[i])

\* An alias inside a longer path leaves something no rule accepts.
Broken == [op |-> "broken"]

InsideAlias(path, env) == \E n \in 1..(Len(path) - 1) : SubSeq(path, 1, n) \in DOMAIN env

\* Freezes an alias at assignment time.
RECURSIVE Expand(_, _)
Expand(e, env) ==
    LET Frozen(args) == [i \in DOMAIN args |-> Expand(args[i], env)]
    IN CASE e.op = "path" /\ e.path \in DOMAIN env -> env[e.path]
         [] e.op \in {"path", "index"} /\ InsideAlias(e.path, env) -> Broken
         [] e.op = "index" /\ e.path \in DOMAIN env -> Broken
         [] e.op = "index" -> [e EXCEPT !.at = Expand(@, env)]
         [] e.op = "neg" -> [e EXCEPT !.arg = Expand(@, env)]
         [] e.op \in {"+", "-", "*", "/"} ->
               [e EXCEPT !.left = Expand(@, env), !.right = Expand(@, env)]
         [] e.op \in {"or", "call"} -> [e EXCEPT !.args = Frozen(@)]
         [] OTHER -> e

-----------------------------------------------------------------------------
(* The stop that is accepted: max(sl or entry * (1 - p), High[-1] * (1 - p)) *)
(* in either order of the operands of max and of the products.             *)

Scaled(expr, env, fraction, IsBase(_)) ==
    LET e == Resolve(expr, env, {})
    IN /\ e.op = "*"
       /\ \E sides \in {<<e.left, e.right>>, <<e.right, e.left>>} :
             /\ IsBase(Resolve(sides[1], env, {}))
             /\ Number(sides[2], env) = Scale - fraction

Baseline(expr, env, trade, fraction) ==
    LET e == Resolve(expr, env, {})
        IsEntry(b) == b = Ref(<<trade, "entry_price">>)
    IN /\ e.op = "or"
       /\ Len(e.args) = 2
       /\ Resolve(e.args[1], env, {}) = Ref(<<trade, "sl">>)
       /\ Scaled(e.args[2], env, fraction, IsEntry)

HighWater(expr, env, fraction) ==
    LET IsLastHigh(b) == IsHigh(b, env)
    IN Scaled(expr, env, fraction, IsLastHigh)

ValidStop_OneOrder(expr, trade, fraction, env) ==                    \* mutant
    LET e == Resolve(expr, env, {})
    IN /\ e.op = "call" /\ e.name = "max" /\ Len(e.args) = 2
       /\ Baseline(e.args[1], env, trade, fraction)
       /\ HighWater(e.args[2], env, fraction)

ValidStop(expr, trade, fraction, env) ==
    LET e == Resolve(expr, env, {})
    IN /\ e.op = "call" /\ e.name = "max" /\ Len(e.args) = 2
       /\ \E i \in 1..2 : /\ Baseline(e.args[i], env, trade, fraction)
                          /\ HighWater(e.args[3 - i], env, fraction)

-----------------------------------------------------------------------------
(* What is read of the rest of the program: the names and attributes that  *)
(* appear in Store context.                                                *)

\* Targets of a method's assignments and loops, at any depth.
RECURSIVE Targets(_)
Targets(body) ==
    LET TargetsOf(s) == CASE s.kind = "assign" -> <<s.target>>
                          [] s.kind = "for" -> <<<<s.target>>>> \o Targets(s.body)
                          [] s.kind = "if" -> Targets(s.body)
                          [] OTHER -> <<>>
    IN FlattenSeq([i \in DOMAIN body |-> TargetsOf(body[i])])

Count(seq, Test(_)) == Cardinality({i \in DOMAIN seq : Test(seq[i])})

\* A match or except clause binds its name without a Store.
StoresName(b, name) == b.name = name /\ b.how \in {"assign", "nested"}

NameStores(strategy, name) ==
    Count(strategy.module \o strategy.class, LAMBDA b : StoresName(b, name))
        + Count(Targets(strategy.next), LAMBDA path : path = <<name>>)

Defines(bindings, name) == \E i \in DOMAIN bindings : bindings[i].name = name /\ bindings[i].how = "def"

\* A plain assignment of a number that nothing seen rebinds.
IsConstant(strategy, scope, b, env) ==
    /\ b.how = "assign"
    /\ Number(b.value, env) # None
    /\ IF scope = "module"
       THEN /\ ~Defines(strategy.module \o strategy.class, b.name)
            /\ NameStores(strategy, b.name) = 1
       ELSE /\ ~Defines(strategy.class, b.name)
            /\ Count(strategy.class, LAMBDA a : a.name = b.name /\ a.how = "assign") = 1
            /\ Count(strategy.init, LAMBDA a : a.name = b.name) = 0

ConstantsIn(strategy, scope, bindings, known) ==
    LET Key(b) == IF scope = "module" THEN <<b.name>> ELSE <<"self", b.name>>
        Learn(env, b) == IF IsConstant(strategy, scope, b, env)
                         THEN (Key(b) :> Num(Number(b.value, env))) @@ env
                         ELSE env
    IN FoldLeft(Learn, known, bindings)

\* The environment next() is read in: module constants, then class ones.
Constants(strategy) ==
    ConstantsIn(strategy, "class", strategy.class,
                ConstantsIn(strategy, "module", strategy.module, <<>>))

\* Rebinding max, next or data makes the proof invalid.
Overridden(strategy) ==
    \/ NameStores(strategy, "max") > 0
    \/ Defines(strategy.module \o strategy.class, "max")
    \/ \E i \in DOMAIN strategy.class :
          strategy.class[i].name \in {"next", "data", "trades", "position"} /\ strategy.class[i].how = "assign"
    \/ \E i \in DOMAIN strategy.init : strategy.init[i].name \in {"data", "next"}

\* Assignments to an attribute sl anywhere.
StopWrites(strategy) == Count(Targets(strategy.next), LAMBDA path : Last(path) = "sl" /\ Len(path) > 1)

-----------------------------------------------------------------------------
(* Reading next(), one statement after another.                            *)

IsAlias(s, env, trade) ==
    /\ s.kind = "assign" /\ Len(s.target) = 1
    /\ s.target # <<trade>>
    /\ PureAlias(s.value, env, trade)

Remember(env, s) == (s.target :> Expand(s.value, env)) @@ env

\* The loop's statements: aliases, and the requested stop once.
LoopSetsStop(loop, env, fraction) ==
    LET t == loop.target
        Read(state, s) ==
            CASE IsAlias(s, state.env, t) ->
                    [state EXCEPT !.env = Remember(@, s)]
              [] /\ s.kind = "assign" /\ s.target = <<t, "sl">> /\ ~state.matched
                 /\ ValidStop(s.value, t, fraction, state.env) ->
                    [state EXCEPT !.matched = TRUE]
              [] OTHER -> [state EXCEPT !.legal = FALSE]
        end == FoldLeft(Read, [env |-> env, matched |-> FALSE, legal |-> TRUE], loop.body)
    IN end.legal /\ end.matched

\* Documentation and aliases, then the loop; what follows it is not read.
NextSetsStop(strategy, fraction) ==
    LET Read(state, s) ==
            CASE state.verdict # "reading" -> state
              [] s.kind = "doc" -> state
              [] IsAlias(s, state.env, None) -> [state EXCEPT !.env = Remember(@, s)]
              [] s.kind = "for" /\ LoopSetsStop(s, state.env, fraction) ->
                    [state EXCEPT !.verdict = "matched"]
              [] OTHER -> [state EXCEPT !.verdict = "refused"]
        start == [env |-> Constants(strategy), verdict |-> "reading"]
    IN FoldLeft(Read, start, strategy.next).verdict = "matched"

TrailingProven(strategy, fraction) ==
    /\ strategy.plain
    /\ ~Overridden(strategy)
    /\ NextSetsStop(strategy, fraction)
    /\ StopWrites(strategy) = 1

-----------------------------------------------------------------------------
(* The promise to the model: the canonical loop, with its percentage       *)
(* written in any constant way, passes.                                    *)

\* Every name is bound once, by a plain assignment, and none is "max".
Unambiguous(p) ==
    LET bindings == p.module \o p.class
        targets  == SelectSeq(Targets(p.next), LAMBDA path : Len(path) = 1)
        names    == [i \in DOMAIN bindings |-> bindings[i].name] \o [i \in DOMAIN targets |-> targets[i][1]]
    IN /\ p.plain /\ p.init = <<>> /\ Loads(p)
       /\ \A i \in DOMAIN bindings : bindings[i].how = "assign"
       /\ IsInjective(names)
       /\ {"max", "self", "data"} \cap {names[i] : i \in DOMAIN names} = {}

\* What an expression is worth after the statements before the loop.
WorthBefore(p, e) ==
    LET c == [NoContext EXCEPT !.globals = Globals(p), !.attributes = Attributes(p),
                               !.local = LocalNames(p.next)]
    IN Eval(e, Run(Front(p.next), c, FALSE, FALSE))

Products(a, b) == {Bin("*", a, b), Bin("*", b, a)}

Canonical(p, percent) ==
    /\ Unambiguous(p)
    /\ p.next # <<>> /\ Last(p.next).kind = "for"
    /\ \A i \in DOMAIN Front(p.next) :
          p.next[i].kind = "doc" \/ (p.next[i].kind = "assign" /\ IsNumber(WorthBefore(p, p.next[i].value)))
    /\ LET loop == Last(p.next)
           t    == loop.target
           stop == Head(loop.body).value
           Keeps(e) == /\ e.op = "or" /\ Len(e.args) = 2
                      /\ e.args[1] = Ref(<<t, "sl">>)
                      /\ \E f \in {e.args[2].left, e.args[2].right} :
                            /\ e.args[2] \in Products(Ref(<<t, "entry_price">>), f)
                            /\ WorthBefore(p, f) = Scale - percent
           Raise(e) == \E f \in {e.left, e.right} :
                            /\ e \in Products(Index(HIGH, Neg(Num(Scale))), f)
                            /\ WorthBefore(p, f) = Scale - percent
       IN /\ Len(loop.body) = 1
          /\ Head(loop.body).kind = "assign"
          /\ Head(loop.body).target = <<t, "sl">>
          /\ stop.op = "call" /\ stop.name = "max" /\ Len(stop.args) = 2
          /\ \E i \in 1..2 : Keeps(stop.args[i]) /\ Raise(stop.args[3 - i])

\* The canonical loop is never rejected (prompt_builder.py:35-39 and
\* repair_context.py:146 tell the model to copy it; valid_stop, pure_alias
\* and the constants of trailing_proven decide).
CanonicalAccepted ==
    phase = "rejected" /\ Percent # None => ~Canonical(program, Percent)
=============================================================================
