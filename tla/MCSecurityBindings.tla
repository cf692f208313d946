------------------------- MODULE MCSecurityBindings -------------------------
(***************************************************************************)
(* Programs for TLC: a definition or none, then up to three statements     *)
(* from a pool with cycles, shadowed names, calls by position and by name, *)
(* functions passed to functions, attributes of self, class scopes, stars, *)
(* an import that is longer than the limit on dots.                        *)
(***************************************************************************)
EXTENDS SecurityBindings

x == Name("x")
y == Name("y")
f == Name("f")
Self(attr) == Attr(Name("self"), attr)
P(name) == Param(name, Nil, FALSE)
Keyword(name, default) == Param(name, default, TRUE)

Twice == Def("f", "f", <<P("g"), P("v")>>, <<Return(Call(Name("g"), <<Name("v"), x>>, <<>>))>>)
Named == Def("f", "f", <<P("g"), Keyword("v", y)>>, <<Assign(<<x>>, Name("g")), Return(Name("v"))>>)
Method == Def("m", "m", <<P("self"), P("v")>>,
              <<Assign(<<Self("p")>>, Name("v")), Return(Self("q")), Expr(Name("q"))>>)
Nested == Class("C", "C", <<>>,
              <<Assign(<<Name("q")>>, Name("open")), Method,
                Def("n", "n", <<P("self")>>,
                    <<Assign(<<Self("q")>>, Attr(Attr(Self("data"), "df"), "values")),
                      Expr(Call(Self("m"), <<x>>, <<>>)), Assign(<<y>>, Attr(Self("p"), "a"))>>)>>)

\* What *v and **u collect is not followed; what is passed on is.
Collecting == Def("f", "f", <<P("g"), Rest("v"), Keyword("w", y), Rest("u")>>,
              <<Assign(<<Tuple(<<x, Starred(Self("p"))>>)>>, Tuple(<<Name("w"), Name("u")>>)),
                Return(Call(Name("g"), <<Starred(Attr(x, "read")), Name("w")>>, <<>>))>>)

Definitions == {<<>>, <<Twice>>, <<Named>>, <<Collecting>>, <<Nested>>}

Pool ==
    {Import("x", <<"pandas">>),
     ImportFrom("y", <<"pathlib", "Path">>),
     Import("x", <<"os", "a", "b", "c">>),   \* more dots than MaxDots
     Assign(<<x>>, Attr(x, "a")),
     Assign(<<x, y>>, Name("os")),
     Assign(<<Tuple(<<x, y>>)>>, Tuple(<<y, Attr(x, "read")>>)),
     Assign(<<y>>, AnyOf(<<x, Item(y)>>)),
     Assign(<<y>>, Call(f, <<x>>, <<<<"v", Call(x, <<>>, <<>>)>>>>)),
     Expr(Call(f, <<f, y>>, <<>>)),
     Expr(Call(f, <<Lambda("l", <<P("w")>>, Attr(Name("w"), "read")), x>>, <<>>)),
     Expr(Walrus("x", Attr(Name("self"), "data"))),
     Assign(<<y>>, Attr(Call(Attr(x, "b"), <<>>, <<>>), "to_numpy")),
     Assign(<<Attr(x, "a")>>, y)}

Cycles ==
    {Import("x", <<"pandas">>), Assign(<<x>>, Attr(x, "a")), Assign(<<x, y>>, Name("os")),
     Assign(<<Tuple(<<x, y>>)>>, Tuple(<<y, Attr(x, "read")>>)),
     Assign(<<y>>, Call(f, <<x>>, <<<<"v", Call(x, <<>>, <<>>)>>>>)), Expr(Call(f, <<f, y>>, <<>>))}

\* Statements that hold statements, with what binds nothing.
Compounds ==
    {Compound(<<x>>, <<y>>, <<Assign(<<y>>, Attr(x, "read")), ImportFrom("x", <<"numpy", "a">>)>>),
     Compound(<<Tuple(<<Self("p"), y>>)>>, <<Other(<<Walrus("y", Attr(x, "a")), Call(f, <<y>>, <<>>)>>)>>,
              <<Def("d", "x", <<Param("v", x, FALSE)>>, <<Return(Name("v"))>>)>>),
     Compound(<<>>, <<Call(f, <<Call(x, <<y>>, <<>>)>>, <<>>)>>, <<Compound(<<Attr(x, "read")>>, <<x>>, <<>>)>>),
     RelativeImport("x"),
     Def("k", "k", <<P("x")>>, <<Import("y", <<"pandas">>), Annotation(Attr(Item(y), "read")), Annotation(Attr(x, "a"))>>),
     Expr(Call(f, <<Starred(x), y>>, <<<<"w", Attr(x, "a")>>, <<"v", f>>, <<"**", x>>>>)),
     Class("D", "y", <<Attr(x, "a")>>,
           <<Compound(<<>>, <<x>>, <<Def("r", "r", <<P("self"), P("v")>>, <<Return(Self("r"))>>)>>),
             Expr(Call(Name("r"), <<x, y>>, <<>>))>>)}

Nests == {<<Compound(<<>>, <<>>, b)>> : b \in Compounds \X Cycles} \cup (Compounds \X Cycles) \cup (Cycles \X Compounds)

Bodies == UNION {[1..n -> Pool] : n \in 0..2} \cup [1..3 -> Cycles] \cup Nests

MCPrograms == {d \o body : d \in Definitions, body \in Bodies}

-----------------------------------------------------------------------------
(* origins calls itself on the parts of an expression.                     *)

RECURSIVE Evaluated(_, _, _, _)
Evaluated(e, c, t, env) == OriginsOf(e, c, t, env, [part \in Reads(e) |-> Evaluated(part, c, t, env)])
RECURSIVE Handed(_, _, _, _)
Handed(e, c, t, env) == SharedOf(e, c, t, env, [part \in Reads(e) |-> Handed(part, c, t, env)])

-----------------------------------------------------------------------------

OsSystem == {<<"os", "system">>}
Strings == STRING

-----------------------------------------------------------------------------
(* What BindingLoopProofs asks of the trees.                               *)

RECURSIVE Under(_)
Under(e) == {e} \cup UNION {Under(part) : part \in Reads(e)}

Roots(t) ==
    {fact.value : fact \in Range(t.facts)}
        \cup UNION {{site.call.func} \cup Range(site.call.args) \cup {k[2] : k \in Range(site.call.keywords)}
                       : site \in Range(t.calls)}

ASSUME SyntaxAssumption ==
    LET expressions == UNION {UNION {Under(e) : e \in Roots(t)} : t \in CollectedTrees}
    IN /\ TreesAreWhole
       /\ IsSyntax(expressions, [e \in expressions |-> Cardinality(Under(e))])
       /\ TreesAreSyntax(expressions)
=============================================================================
