-------------------------- MODULE StrategyLanguage --------------------------
(***************************************************************************)
(* The part of Python in which a generated strategy writes its trailing    *)
(* stop: the syntax that backend/app/validators/strategy_contract.py reads *)
(* and what running it does under backtesting.py, with one trade open at a *)
(* time (exclusive_orders=True in backend/sandbox/worker.py and            *)
(* backend/app/backtest/engine.py).                                        *)
(* The recursion is over syntax trees, which are finite.                   *)
(***************************************************************************)
EXTENDS StrategyNumbers, Sequences, SequencesExt, TLC

-----------------------------------------------------------------------------
(* Syntax: a name or a chain of attributes is a path; of subscripts, only  *)
(* those of a path matter.                                                 *)

Num(n)          == [op |-> "num", value |-> n]
Ref(path)       == [op |-> "path", path |-> path]
Index(path, e)  == [op |-> "index", path |-> path, at |-> e]
Neg(e)          == [op |-> "neg", arg |-> e]
Bin(op, l, r)   == [op |-> op, left |-> l, right |-> r]
AnyOf(args)     == [op |-> "or", args |-> args]
Call(name, args) == [op |-> "call", name |-> name, args |-> args]

HIGH == <<"self", "data", "High">>

\* Statements of a method.
Doc             == [kind |-> "doc"]
Assign(path, e) == [kind |-> "assign", target |-> path, value |-> e]
If(body)        == [kind |-> "if", body |-> body]
For(name, body) == [kind |-> "for", target |-> name, body |-> body]

\* A name bound in the module or in the class body: by a plain assignment,
\* by one inside a compound statement (if, for, with, try), by a def, class
\* or import, or by a match or except clause.
Binding(name, how, e) == [name |-> name, how |-> how, value |-> e]

-----------------------------------------------------------------------------
(* Evaluation. A context holds the globals, the attributes of self, the    *)
(* names local to next() and those bound so far, the loop's trade and the  *)
(* highs of the completed bars.                                            *)

\* The value an environment gives a name it need not have.
At(env, name, default) == IF name \in DOMAIN env THEN env[name] ELSE default

Lookup(path, c) ==
    CASE Len(path) = 1 /\ path[1] \in c.local ->
            At(c.bound, path[1], Raised)
      [] Len(path) = 1 /\ path[1] \notin c.local ->
            At(c.globals, path[1], IF path[1] \in {"max", "min"} THEN Object ELSE Raised)
      [] Len(path) = 2 /\ path[1] = "self" -> At(c.attributes, path[2], Raised)
      [] Len(path) = 2 /\ path = <<c.trade, "sl">> -> c.sl
      [] Len(path) = 2 /\ path = <<c.trade, "entry_price">> -> c.entry
      [] OTHER -> Raised

\* self.data.High[-1] is the last completed bar's.
Element(path, i, c) ==
    LET last == Len(c.highs)
        back == (-i) \div Scale
    IN IF path = HIGH /\ IsNumber(i) /\ back \in 1..last
       THEN c.highs[last + 1 - back]
       ELSE Raised

Arithmetic(op, l, r) ==
    CASE ~(IsNumber(l) /\ IsNumber(r)) -> Raised
      [] op = "+" -> l + r
      [] op = "-" -> l - r
      [] op = "*" -> (l * r) \div Scale
      [] op = "/" -> IF r = 0 THEN Raised ELSE (l * Scale) \div r

RECURSIVE Eval(_, _)

\* The first true operand, or the last.
RECURSIVE FirstTrue(_, _)
FirstTrue(args, c) ==
    LET v == Eval(Head(args), c)
    IN IF v \in {None, 0} /\ Len(args) > 1 THEN FirstTrue(Tail(args), c) ELSE v

\* A name "max" that the program bound itself computes something else.
CallOf(name, values, c) ==
    CASE \E v \in values : ~IsNumber(v) -> Raised
      [] name = "max" /\ "max" \notin DOMAIN c.globals /\ "max" \notin c.local -> Greatest(values)
      [] OTHER -> Least(values)

Eval(e, c) ==
    CASE e.op = "num" -> e.value
      [] e.op = "path" -> Lookup(e.path, c)
      [] e.op = "index" -> Element(e.path, Eval(e.at, c), c)
      [] e.op = "neg" -> Arithmetic("-", 0, Eval(e.arg, c))
      [] e.op = "or" -> FirstTrue(e.args, c)
      [] e.op = "call" -> CallOf(e.name, {Eval(e.args[i], c) : i \in DOMAIN e.args}, c)
      [] OTHER -> Arithmetic(e.op, Eval(e.left, c), Eval(e.right, c))

-----------------------------------------------------------------------------
(* Execution. A program is the module's and the class's bindings, the      *)
(* attributes init() assigns, the body of next(), and whether it is one    *)
(* plain GeneratedStrategy with one plain next(self).                      *)

NoContext ==
    [globals |-> <<>>, attributes |-> <<>>, local |-> {}, bound |-> <<>>,
     trade |-> "", sl |-> None, entry |-> 0, highs |-> <<>>]

\* What a sequence of bindings leaves each name bound to.
RECURSIVE Bound(_, _, _)
Bound(bindings, env, globals) ==
    IF bindings = <<>> THEN env ELSE
    LET b == Head(bindings)
        scope == [NoContext EXCEPT !.globals = env @@ globals]
        value == IF b.how = "def" THEN Object ELSE Eval(b.value, scope)
    IN Bound(Tail(bindings), (b.name :> value) @@ env, globals)

Globals(program)    == Bound(program.module, <<>>, <<>>)
Attributes(program) ==
    Bound(program.init, Bound(program.class, <<>>, Globals(program)), Globals(program))

\* Names a method binds, at any depth.
RECURSIVE LocalNames(_)
LocalNames(body) ==
    UNION {CASE body[i].kind = "assign" -> IF Len(body[i].target) = 1 THEN {body[i].target[1]} ELSE {}
             [] body[i].kind = "for" -> {body[i].target} \cup LocalNames(body[i].body)
             [] body[i].kind = "if" -> LocalNames(body[i].body)
             [] OTHER -> {} : i \in DOMAIN body}

\* Runs a body; sl = Raised once an exception has left it. The conditions
\* of if statements hold or not as "taken" says; a loop over self.trades
\* runs once while a trade is open.
RECURSIVE Run(_, _, _, _)

Step(s, c, open, taken) ==
    CASE s.kind = "doc" -> c
      [] s.kind = "if" -> IF taken THEN Run(s.body, c, open, taken) ELSE c
      [] s.kind = "for" -> IF open THEN Run(s.body, [c EXCEPT !.trade = s.target], open, taken) ELSE c
      [] s.kind = "assign" ->
            LET value == Eval(s.value, c)
            IN CASE value = Raised -> [c EXCEPT !.sl = Raised]
                 [] Len(s.target) = 1 -> [c EXCEPT !.bound = (s.target[1] :> value) @@ @]
                 [] s.target = <<c.trade, "sl">> -> [c EXCEPT !.sl = value]
                 [] OTHER -> [c EXCEPT !.sl = Raised]

Run(body, c, open, taken) ==
    IF body = <<>> \/ c.sl = Raised THEN c
    ELSE Run(Tail(body), Step(Head(body), c, open, taken), open, taken)

\* trade.sl after one call of next(). A program that is not one plain
\* next(self) (a generator, a second class, another signature) does not run
\* the body that was read.
StopAfterNext(program, open, sl, entry, highs, taken) ==
    LET c == [globals |-> Globals(program), attributes |-> Attributes(program),
              local |-> LocalNames(program.next), bound |-> <<>>, trade |-> "",
              sl |-> sl, entry |-> entry, highs |-> highs]
    IN IF program.plain THEN Run(program.next, c, open, taken).sl ELSE sl

\* The module and the class body run without an exception.
Loads(program) ==
    /\ \A x \in DOMAIN Globals(program) : Globals(program)[x] # Raised
    /\ \A x \in DOMAIN Attributes(program) : Attributes(program)[x] # Raised
=============================================================================
