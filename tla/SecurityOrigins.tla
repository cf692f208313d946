--------------------------- MODULE SecurityOrigins ---------------------------
(***************************************************************************)
(* What an expression may stand for: origins, lookup and the passing of    *)
(* arguments in _Bindings of backend/app/validators/security_validator.py. *)
(* An origin is a dotted name, here a sequence of names; the origin of a   *)
(* function is its tag.  A place is a scope with a name in it, bindings    *)
(* give each place of a tree the origins found so far.  Two methods call   *)
(* themselves on the parts of an expression: each is an operator constant  *)
(* here, and its definition for one expression takes the values of the     *)
(* parts as a parameter.  The configuration gives the constant the         *)
(* operator that evaluates parts by itself; a proof takes it as a          *)
(* hypothesis that Origins does so.                                        *)
(***************************************************************************)
EXTENDS Integers, Sequences, FiniteSets, Functions

CONSTANTS
    None,
    Identifiers,              \* what a name may be
    FORBIDDEN_DIRECT_CALLS,   \* builtins
    MaxDots,                  \* an origin grows while it has fewer dots
    Origins(_, _, _, _),      \* of an expression in a context, in a tree, under bindings
    Shared(_, _, _, _)        \* the place whose own set origins hands out, or None

ASSUME DepthAssumption == MaxDots \in Nat /\ MaxDots >= 2

ASSUME IdentifiersAssumption ==
    {"backtesting", "Data", "Array", "pandas", "DataFrame", "Series", "numpy", "ndarray", "pathlib", "Path",
     "os", "subprocess", "unresolved_capability_depth"} \cup FORBIDDEN_DIRECT_CALLS \subseteq Identifiers

ShortOrigins == {o \in Seq(Identifiers) : Len(o) \in 1..(MaxDots + 1)}

-----------------------------------------------------------------------------
(* Expressions.  Tags name functions and lambdas, and their scopes.  A     *)
(* missing default of a parameter is an expression without origins.        *)

Nil             == [op |-> "nil"]
Name(id)        == [op |-> "name", id |-> id]
Attr(e, attr)   == [op |-> "attr", of |-> e, attr |-> attr]
Item(e)         == [op |-> "item", of |-> e]
Starred(e)      == [op |-> "starred", of |-> e]
AnyOf(parts)    == [op |-> "any", parts |-> parts]
Tuple(parts)    == [op |-> "tuple", parts |-> parts]
Other(parts)    == [op |-> "other", parts |-> parts]   \* a comparison, a set or dictionary
Walrus(id, e)   == [op |-> "walrus", target |-> Name(id), value |-> e]
Call(f, args, keywords) == [op |-> "call", func |-> f, args |-> args, keywords |-> keywords]
Lambda(tag, params, e)  == [op |-> "lambda", tag |-> tag, params |-> params, body |-> e]
Param(name, default, kwonly) == [name |-> name, default |-> default, by |-> IF kwonly THEN "name" ELSE "position"]
Rest(name) == [name |-> name, default |-> Nil, by |-> "nothing"]       \* *name or **name

IsSelf(e) == e = Name("self")

Place(scope, path) == <<scope, path>>

-----------------------------------------------------------------------------
(* lookup and origins.                                                     *)

\* From a scope outwards, to the first that has the name.
Found(id, from, tree) ==
    LET parents == tree.parents
        outwards[scope \in {from} \cup DOMAIN parents \cup {parents[s] : s \in DOMAIN parents}] ==
            IF Place(scope, <<id>>) \in tree.places THEN Place(scope, <<id>>)
            ELSE IF scope \in DOMAIN parents THEN outwards[parents[scope]] ELSE None
    IN outwards[from]

Held(place, tree, env) == IF place \in tree.places THEN env[place] ELSE {}

Lookup(id, scope, tree, env) ==
    LET place == Found(id, scope, tree)
    IN IF place = None /\ id \in FORBIDDEN_DIRECT_CALLS \cup {"os", "subprocess"}
       THEN {<<id>>} ELSE Held(place, tree, env)

TooDeep == <<"unresolved_capability_depth">>
ARRAY  == <<"numpy", "ndarray">>
FRAME  == <<"pandas", "DataFrame">>
SERIES == <<"pandas", "Series">>

Member_OneDeeper(base, attr) ==                                      \* mutant
    IF Len(base) - 1 <= MaxDots THEN Append(base, attr) ELSE TooDeep

Member(base, attr) ==
    CASE base = <<"backtesting", "Data">> -> IF attr = "df" THEN FRAME ELSE <<"backtesting", "Array">>
      [] base = <<"backtesting", "Array">> ->
            IF attr = "s" THEN SERIES ELSE IF attr = "df" THEN FRAME ELSE Append(ARRAY, attr)
      [] base[1] = "pandas" /\ Len(base) > 1 /\ attr \in {"values", "array"} -> ARRAY
      [] OTHER -> IF Len(base) - 1 < MaxDots THEN Append(base, attr) ELSE TooDeep

IsFunction(origin, tree) == Len(origin) = 1 /\ origin[1] \in DOMAIN tree.functions

ResultOf(origin, tree, env) ==
    IF IsFunction(origin, tree) THEN env[Place(origin[1], <<"$return">>)]
    ELSE CASE origin[1] = "pandas" ->
                 {IF Len(origin) > 1 /\ origin[Len(origin)] = "to_numpy" THEN ARRAY
                  ELSE IF origin = SERIES THEN SERIES ELSE FRAME}
           [] origin[1] = "numpy" -> {ARRAY}
           [] origin[1] = "pathlib" -> {<<"pathlib", "Path">>}
           [] OTHER -> {}

OfSelf(e, c) == Place(c.class, <<"self", e.attr>>)

\* The parts of an expression whose origins its own are made of.
Reads(e) ==
    CASE e.op = "attr" -> IF IsSelf(e.of) THEN {} ELSE {e.of}
      [] e.op = "item" -> {e.of}
      [] e.op = "call" -> {e.func}
      [] e.op = "walrus" -> {e.value}
      [] e.op = "any" -> Range(e.parts)
      [] OTHER -> {}

OriginsOf(e, c, tree, env, part) ==
    CASE e.op = "name" -> Lookup(e.id, c.scope, tree, env)
      [] e.op = "attr" /\ IsSelf(e.of) ->
            IF e.attr = "data" THEN {<<"backtesting", "Data">>} ELSE Held(OfSelf(e, c), tree, env)
      [] e.op = "attr" /\ ~IsSelf(e.of) -> {Member(base, e.attr) : base \in part[e.of]}
      [] e.op = "lambda" -> {<<e.tag>>}
      [] e.op = "call" -> UNION {ResultOf(o, tree, env) : o \in part[e.func]}
      [] e.op \in {"item", "walrus", "any"} -> UNION {part[p] : p \in Reads(e)}
      [] OTHER -> {}

\* Where origins hands out the binding set itself and not a new one.
SharedOf(e, c, tree, env, part) ==
    CASE e.op = "name" -> Found(e.id, c.scope, tree)
      [] e.op = "attr" /\ IsSelf(e.of) /\ e.attr # "data" /\ OfSelf(e, c) \in tree.places -> OfSelf(e, c)
      [] e.op = "item" -> part[e.of]
      [] e.op = "walrus" -> part[e.value]
      [] OTHER -> None

-----------------------------------------------------------------------------
(* A call supplies a function's parameters: by position, as far as both    *)
(* go, then by name.  Positional parameters come first in a signature.     *)

Receives_PositionalOnly(params, call, i, name) ==                    \* mutant
    /\ i <= Len(call.args) /\ i \in DOMAIN params
    /\ params[i].by = "position" /\ params[i].name = name

\* Whether the parameter of that name gets the call's i-th argument.
Receives(params, call, i, name) ==
    IF i <= Len(call.args)
    THEN i \in DOMAIN params /\ params[i].by = "position" /\ params[i].name = name
    ELSE /\ call.keywords[i - Len(call.args)][1] = name
         /\ \E k \in DOMAIN params : params[k].name = name /\ params[k].by # "nothing"

Argument(call, i) ==
    IF i <= Len(call.args) THEN call.args[i] ELSE call.keywords[i - Len(call.args)][2]

Pass(site, callee, tree, env, i) ==
    [place \in tree.places |->
        IF /\ place[1] = callee[1] /\ Len(place[2]) = 1
           /\ Receives(tree.functions[callee[1]], site.call, i, place[2][1])
        THEN env[place] \cup Origins(Argument(site.call, i), site.at, tree, env)
        ELSE env[place]]

\* One argument after the other, each evaluated under what the last one left.
Supply(site, callee, tree, env) ==
    LET count == Len(site.call.args) + Len(site.call.keywords)
        passed[n \in 0..count] == IF n = 0 THEN env ELSE Pass(site, callee, tree, passed[n - 1], n)
    IN passed[count]
=============================================================================
