-------------------------- MODULE SecurityBindings --------------------------
(***************************************************************************)
(* What names of a generated program may stand for, and which of them are  *)
(* forbidden: _Bindings and SecurityVisitor of                             *)
(* backend/app/validators/security_validator.py. A walk over the tree      *)
(* collects assignments and calls; a loop (BindingLoop) unites origins     *)
(* (SecurityOrigins) until nothing changes; then what is loaded is judged. *)
(***************************************************************************)
EXTENDS BindingLoop, SequencesExt, TLC

CONSTANTS
    Programs,                   \* sequences of statements
    FORBIDDEN_ATTRIBUTE_CALLS,  \* origins such as <<"os", "system">>
    PANDAS_IO, NUMPY_IO, PATH_IO  \* members that read or write

-----------------------------------------------------------------------------
(* Syntax. Tags name functions, lambdas and classes, and their scopes.     *)

Import(name, origin)      == [kind |-> "import", name |-> name, origin |-> origin]
ImportFrom(name, origin)  == [kind |-> "from", name |-> name, origin |-> origin]
RelativeImport(name)      == [kind |-> "relative", name |-> name]
Assign(targets, e)        == [kind |-> "assign", targets |-> targets, value |-> e]
Def(tag, name, params, body) == [kind |-> "def", tag |-> tag, name |-> name, params |-> params, body |-> body]
Return(e)                 == [kind |-> "return", value |-> e]
Class(tag, name, bases, body) == [kind |-> "class", tag |-> tag, name |-> name, bases |-> bases, body |-> body]
Expr(e)                   == [kind |-> "expr", value |-> e]
Annotation(e)             == [kind |-> "annotation", value |-> e] \* of a parameter; or a class keyword

\* Loops, with, if, try, augmented assignment, decorators: what they store
\* is bound to nothing, what they read is read, what they hold is walked.
Compound(targets, values, body) == [kind |-> "compound", targets |-> targets, values |-> values, body |-> body]

-----------------------------------------------------------------------------
(* The walk. A context is the scope, class and function a node stands in;  *)
(* a place is a scope with a name in it. What is collected: places, first  *)
(* origins, facts (place, value), calls, loads, functions and the parent   *)
(* of every scope.                                                         *)

Empty == [places |-> {}, seeds |-> {}, facts |-> <<>>, calls |-> <<>>,
          loads |-> {}, functions |-> <<>>, parents |-> <<>>]

Join(a, b) ==
    [places |-> a.places \cup b.places, seeds |-> a.seeds \cup b.seeds,
     facts |-> a.facts \o b.facts, calls |-> a.calls \o b.calls,
     loads |-> a.loads \cup b.loads,
     functions |-> a.functions @@ b.functions, parents |-> a.parents @@ b.parents]

All(parts) == FoldLeft(Join, Empty, parts)

Fact(place, e, c)  ==
    [Empty EXCEPT !.places = {place}, !.facts = <<[place |-> place, value |-> e, at |-> c]>>]
Seed(place, origin) == [Empty EXCEPT !.places = {place}, !.seeds = {<<place, origin>>}]

\* bind: a name, an attribute of self inside a class, or tuples of both.
RECURSIVE Bind(_, _, _)
Bind(target, e, c) ==
    CASE target.op = "name" -> Fact(Place(c.scope, <<target.id>>), e, c)
      [] target.op = "attr" /\ IsSelf(target.of) /\ c.class # None ->
            Fact(Place(c.class, <<"self", target.attr>>), e, c)
      [] target.op = "tuple" /\ e.op = "tuple" /\ Len(target.parts) = Len(e.parts) ->
            All([i \in DOMAIN e.parts |-> Bind(target.parts[i], e.parts[i], c)])
      [] OTHER -> Empty

\* A function's scope; methods do not see the class body's names.
Enter(tag, parent, params, outer) ==
    LET inner == [outer EXCEPT !.scope = tag]
        Default(p) == [Empty EXCEPT !.facts = <<[place |-> Place(tag, <<p.name>>), value |-> p.default, at |-> outer]>>]
    IN Join([Empty EXCEPT !.places = {Place(tag, <<params[i].name>>) : i \in DOMAIN params} \cup {Place(tag, <<"$return">>)},
                          !.functions = tag :> params, !.parents = tag :> parent],
            All([i \in DOMAIN params |-> Default(params[i])]))

Returned(tag, e, c) == Fact(Place(tag, <<"$return">>), e, c)

RECURSIVE Visit(_, _)
VisitAll(exprs, c) == All([i \in DOMAIN exprs |-> Visit(exprs[i], c)])
Defaults(params, c) == VisitAll([i \in DOMAIN params |-> params[i].default], c)

Visit(e, c) ==
    CASE e.op = "name" -> [Empty EXCEPT !.loads = {[expr |-> e, at |-> c]}]
      [] e.op = "attr" -> Join([Empty EXCEPT !.loads = {[expr |-> e, at |-> c]}], Visit(e.of, c))
      [] e.op \in {"item", "starred"} -> Visit(e.of, c)
      [] e.op \in {"any", "tuple", "other"} -> VisitAll(e.parts, c)
      [] e.op = "walrus" -> Join(Bind(e.target, e.value, c), Visit(e.value, c))
      [] e.op = "call" ->
            All(<<[Empty EXCEPT !.calls = <<[call |-> e, at |-> c]>>], Visit(e.func, c), VisitAll(e.args, c),
                  VisitAll([i \in DOMAIN e.keywords |-> e.keywords[i][2]], c)>>)
      [] e.op = "lambda" ->
            LET inner == [c EXCEPT !.scope = e.tag]
            IN All(<<Defaults(e.params, c), Enter(e.tag, c.scope, e.params, c),
                     Returned(e.tag, e.body, inner), Visit(e.body, inner)>>)
      [] OTHER -> Empty

\* What a target loads: the object whose attribute is set.
RECURSIVE VisitTarget(_, _)
VisitTarget(target, c) ==
    CASE target.op = "attr" -> Visit(target.of, c)
      [] target.op = "tuple" -> All([i \in DOMAIN target.parts |-> VisitTarget(target.parts[i], c)])
      [] target.op = "starred" -> VisitTarget(target.of, c)
      [] OTHER -> Empty

ModuleContext == [scope |-> "module", class |-> None, outside |-> None, function |-> None]

RECURSIVE Walk(_, _)
WalkAll(body, c) == All([i \in DOMAIN body |-> Walk(body[i], c)])

VisitTargets(targets, c) == All([i \in DOMAIN targets |-> VisitTarget(targets[i], c)])

Walk(s, c) ==
    CASE s.kind \in {"import", "from"} -> Seed(Place(c.scope, <<s.name>>), s.origin)
      [] s.kind = "assign" ->
            All(<<All([i \in DOMAIN s.targets |-> Bind(s.targets[i], s.value, c)]),
                  VisitTargets(s.targets, c), Visit(s.value, c)>>)
      [] s.kind = "relative" -> Empty
      [] s.kind = "compound" ->
            All(<<VisitTargets(s.targets, c), VisitAll(s.values, c), WalkAll(s.body, c)>>)
      [] s.kind = "def" ->
            LET method == c.scope = c.class
                parent == IF method THEN c.outside ELSE c.scope
                inner  == [c EXCEPT !.scope = s.tag, !.function = s.tag]
                named  == Seed(Place(c.scope, <<s.name>>), <<s.tag>>)
            IN All(<<named, IF method THEN Seed(Place(c.scope, <<"self", s.name>>), <<s.tag>>) ELSE Empty,
                     Defaults(s.params, c), Enter(s.tag, parent, s.params, c), WalkAll(s.body, inner)>>)
      [] s.kind = "return" ->
            Join(IF c.function # None THEN Returned(c.function, s.value, c) ELSE Empty, Visit(s.value, c))
      [] s.kind = "class" ->
            All(<<[Empty EXCEPT !.places = {Place(c.scope, <<s.name>>)}, !.parents = s.tag :> c.scope],
                  VisitAll(s.bases, c),
                  WalkAll(s.body, [c EXCEPT !.scope = s.tag, !.class = s.tag, !.outside = c.scope])>>)
      [] s.kind = "expr" -> Visit(s.value, c)
      [] s.kind = "annotation" ->      \* _Bindings passes it over, so it has the last scope
            [Empty EXCEPT !.loads = {[expr |-> l.expr, at |-> ModuleContext] : l \in Visit(s.value, c).loads}]

\* The two walks of the tree: _Bindings collects, SecurityVisitor loads.
Collect(program) == WalkAll(program, ModuleContext)

-----------------------------------------------------------------------------
(* _forbidden_origin and SecurityVisitor.                                  *)

Forbidden(origin) ==
    \/ origin[1] = TooDeep[1]
    \/ Len(origin) = 1 /\ origin[1] \in FORBIDDEN_DIRECT_CALLS
    \/ origin \in FORBIDDEN_ATTRIBUTE_CALLS
    \/ origin[1] = "builtins" /\ Last(origin) \in FORBIDDEN_DIRECT_CALLS
    \/ origin[1] = "pandas" /\ Last(origin) \in PANDAS_IO \cup {"*"}
    \/ origin[1] = "numpy" /\ Last(origin) \in NUMPY_IO \cup {"*"}
    \/ origin[1] = "pathlib" /\ Last(origin) \in PATH_IO \cup {"Path"}

\* From-imports at any depth.
RECURSIVE FromImports(_)
FromImports(body) ==
    UNION {CASE body[i].kind = "from" -> {body[i].origin}
             [] body[i].kind \in {"def", "class", "compound"} -> FromImports(body[i].body)
             [] OTHER -> {} : i \in DOMAIN body}

\* What is reported: names, origins of what is loaded, and from-imports.
Reports(body, t, env) ==
    LET direct == {<<l.expr.id>> : l \in {m \in t.loads : m.expr.op = "name"}}
        loaded == UNION {Origins(l.expr, l.at, t, env) : l \in t.loads}
    IN {o \in direct : o[1] \in FORBIDDEN_DIRECT_CALLS} \cup {o \in loaded \cup FromImports(body) : Forbidden(o)}

-----------------------------------------------------------------------------
(* validate_security: the walk, the loop, the report.                      *)

CollectedTrees == {Collect(p) : p \in Programs}

VARIABLES
    program,   \* the strategy under validation
    errors

vars == <<program, tree, bindings, pc, at, callees, changed, errors>>

Init ==
    /\ program \in Programs
    /\ tree = Collect(program)
    /\ Begin
    /\ errors = {}

Looks ==
    /\ ApplyFact \/ FactsApplied \/ BeginCall \/ SupplyArguments \/ EndCall \/ EndRound
    /\ UNCHANGED <<program, errors>>

Report ==
    /\ Read
    /\ errors' = Reports(program, tree, bindings)
    /\ UNCHANGED program

Next == Looks \/ Report

\* validate_security is one synchronous call.
Spec == Init /\ [][Next]_vars /\ WF_vars(Next)

-----------------------------------------------------------------------------
(* The least bindings closed under every fact and every call, computed     *)
(* all at once and again, without an order.                                *)

RECURSIVE Closed(_, _)
Closed(t, env) ==
    LET Assigned(p) == UNION {Origins(f.value, f.at, t, env) : f \in {g \in Range(t.facts) : g.place = p}}
        Passed(p) ==
            UNION {UNION {UNION {
                {o \in Origins(s.call.args[i], s.at, t, env) :
                    LET positional == SelectSeq(t.functions[f[1]], LAMBDA q : q.by = "position")
                    IN i <= Len(positional) /\ p = Place(f[1], <<positional[i].name>>)} : i \in DOMAIN s.call.args}
                \cup UNION {
                {o \in Origins(k[2], s.at, t, env) :
                    p = Place(f[1], <<k[1]>>) /\ \E q \in Range(t.functions[f[1]]) : q.name = k[1] /\ q.by # "nothing"} : k \in Range(s.call.keywords)}
                : f \in {o \in Origins(s.call.func, s.at, t, env) : IsFunction(o, t)}}
                : s \in Range(t.calls)}
        grown == [p \in DOMAIN env |-> env[p] \cup Assigned(p) \cup Passed(p)]
    IN IF grown = env THEN env ELSE Closed(t, grown)

ClosedTree(t) == Closed(t, Seeded(t))

-----------------------------------------------------------------------------
(* Properties.                                                             *)

\* The analysis ends: every round that does not end it enlarges a finite
\* set (lines 80-98).
AnalysisEnds == <>(pc \in {"done", "RuntimeError"})

\* "Collect lexical facts, then union origins to a fixed point" (line 62):
\* it does so for every program.
NeverFails == pc # "RuntimeError"
=============================================================================
