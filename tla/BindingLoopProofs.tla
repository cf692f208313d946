-------------------------- MODULE BindingLoopProofs --------------------------
(***************************************************************************)
(* What the loop of _Bindings.__init__ finds, for every program: more      *)
(* bindings never mean fewer origins, so that the loop ends, and with the  *)
(* least bindings that nothing enlarges, whatever the order of its steps.  *)
(***************************************************************************)
EXTENDS BindingLoop, FiniteSetTheorems, TLAPS

-----------------------------------------------------------------------------
(* What the loop relies on, and why it may: the origins of an expression   *)
(* are made of those of its parts, and none of the ways to make them loses *)
(* one when the bindings grow.                                             *)

\* Origins are origins, and more bindings never take one away.
Grows(e, c, t, small, large) ==
    /\ Origins(e, c, t, small) \subseteq AllOrigins(t)
    /\ Below(small, large) => Origins(e, c, t, small) \subseteq Origins(e, c, t, large)

OriginsAreMonotone(expressions) ==
    \A t \in Trees : \A small, large \in Environments(t) :
        \A e \in expressions : \A c : Grows(e, c, t, small, large)

\* A call adds to bindings, and more to more.
SuppliesMore(site, callee, t, small, large) ==
    /\ Supply(site, callee, t, small) \in Environments(t)
    /\ Below(small, Supply(site, callee, t, small))
    /\ Below(small, large) => Below(Supply(site, callee, t, small), Supply(site, callee, t, large))

EvaluationIsMonotone ==
    /\ TreesAreWhole
    /\ \A t \in Trees : \A small, large \in Environments(t) :
          /\ \A f \in Range(t.facts) : Grows(f.value, f.at, t, small, large)
          /\ \A site \in Range(t.calls) :
                /\ Grows(site.call.func, site.at, t, small, large)
                /\ \A callee \in FunctionsOf(t) : SuppliesMore(site, callee, t, small, large)

\* Origins evaluates the parts of an expression by itself, as origins does
\* (lines 224-281), and what BindingLoop asks of the trees: an expression's parts are smaller than the expression.
EvaluatesSyntax(expressions, height) ==
    /\ height \in [expressions -> Nat]
    /\ IsSyntax(expressions, height) /\ TreesAreSyntax(expressions) /\ TreesAreWhole
    /\ \A e \in expressions, t \in Trees : \A env \in Environments(t) : \A c :
          Origins(e, c, t, env) = OriginsOf(e, c, t, env, [part \in Reads(e) |-> Origins(part, c, t, env)])

LEMMA LeastMember ==
  ASSUME NEW T, T \subseteq Nat, T # {}
  PROVE  \E m \in T : \A n \in T : m <= n
<1> DEFINE R == OpToRel(<, Nat)
<1>1. \E m \in T : \A n \in T : ~(<<n, m>> \in R)
  <2>1. IsWellFoundedOn(R, Nat)
    BY NatLessThanWellFounded
  <2> HIDE DEF R
  <2> QED BY <2>1, WFMin
<1>2. \A m, n \in Nat : ~(<<n, m>> \in R) => m <= n
  BY SMT DEF OpToRel
<1> HIDE DEF R
<1> QED BY <1>1, <1>2

LEMMA Origin1 ==
  ASSUME NEW a \in Identifiers
  PROVE  <<a>> \in ShortOrigins
BY DepthAssumption DEF ShortOrigins

LEMMA Origin2 ==
  ASSUME NEW a \in Identifiers, NEW b \in Identifiers
  PROVE  <<a, b>> \in ShortOrigins
BY DepthAssumption DEF ShortOrigins

LEMMA NamedOrigins ==
  /\ TooDeep \in ShortOrigins /\ ARRAY \in ShortOrigins /\ FRAME \in ShortOrigins /\ SERIES \in ShortOrigins
  /\ <<"backtesting", "Data">> \in ShortOrigins /\ <<"backtesting", "Array">> \in ShortOrigins
  /\ <<"pathlib", "Path">> \in ShortOrigins
  /\ \A id \in FORBIDDEN_DIRECT_CALLS \cup {"os", "subprocess"} : <<id>> \in ShortOrigins
<1>1. /\ "backtesting" \in Identifiers /\ "Data" \in Identifiers /\ "Array" \in Identifiers
      /\ "pandas" \in Identifiers /\ "DataFrame" \in Identifiers /\ "Series" \in Identifiers
      /\ "numpy" \in Identifiers /\ "ndarray" \in Identifiers /\ "pathlib" \in Identifiers
      /\ "Path" \in Identifiers /\ "unresolved_capability_depth" \in Identifiers
      /\ FORBIDDEN_DIRECT_CALLS \cup {"os", "subprocess"} \subseteq Identifiers
  BY IdentifiersAssumption
<1> QED BY <1>1, Origin1, Origin2 DEF TooDeep, ARRAY, FRAME, SERIES

(* Whatever an attribute is taken of, a long import included.             *)
LEMMA MemberIsShort ==
  ASSUME NEW base \in Seq(Identifiers) \ {<<>>}, NEW attr \in Identifiers
  PROVE  Member(base, attr) \in ShortOrigins
<1>1. /\ base \in Seq(Identifiers) /\ Len(base) \in Nat /\ MaxDots \in Nat /\ MaxDots >= 2
  BY DepthAssumption
<1>2. ASSUME Len(base) - 1 < MaxDots PROVE Append(base, attr) \in ShortOrigins
  <2>1. Append(base, attr) \in Seq(Identifiers) /\ Len(Append(base, attr)) = Len(base) + 1
    BY <1>1
  <2> QED BY <1>1, <1>2, <2>1 DEF ShortOrigins
<1>3. Append(ARRAY, attr) \in ShortOrigins
  <2>1. ARRAY \in Seq(Identifiers) /\ Len(ARRAY) = 2
    BY NamedOrigins DEF ShortOrigins, ARRAY
  <2>2. \A s \in Seq(Identifiers) : Append(s, attr) \in Seq(Identifiers) /\ Len(Append(s, attr)) = Len(s) + 1
    OBVIOUS
  <2>3. Append(ARRAY, attr) \in Seq(Identifiers) /\ Len(Append(ARRAY, attr)) = Len(ARRAY) + 1
    BY <2>1, <2>2, Zenon
  <2> QED BY <1>1, <2>1, <2>3 DEF ShortOrigins
<1>4. \/ Member(base, attr) \in {FRAME, SERIES, <<"backtesting", "Array">>, ARRAY, TooDeep, Append(ARRAY, attr)}
      \/ Len(base) - 1 < MaxDots /\ Member(base, attr) = Append(base, attr)
  BY DEF Member
<1> QED BY <1>2, <1>3, <1>4, NamedOrigins

LEMMA OriginsAreNames ==
  ASSUME TreesAreWhole, NEW t \in Trees
  PROVE  AllOrigins(t) \subseteq Seq(Identifiers) \ {<<>>}
<1>1. Imported(t) \subseteq Seq(Identifiers) \ {<<>>}
  BY DEF TreesAreWhole
<1>2. ShortOrigins \subseteq Seq(Identifiers) \ {<<>>}
  <2> SUFFICES ASSUME NEW o \in ShortOrigins PROVE o \in Seq(Identifiers) /\ o # <<>>
    OBVIOUS
  <2>1. o \in Seq(Identifiers) /\ Len(o) \in 1..(MaxDots + 1) /\ MaxDots \in Nat
    BY DepthAssumption DEF ShortOrigins
  <2> QED BY <2>1
<1> QED BY <1>1, <1>2 DEF AllOrigins

LEMMA ResultsGrow ==
  ASSUME NEW expressions, TreesAreSyntax(expressions), NEW t \in Trees,
         NEW small \in Environments(t), NEW large \in Environments(t), NEW o \in AllOrigins(t)
  PROVE  /\ ResultOf(o, t, small) \subseteq AllOrigins(t)
         /\ Below(small, large) => ResultOf(o, t, small) \subseteq ResultOf(o, t, large)
<1>1. CASE IsFunction(o, t)
  <2>1. Place(o[1], <<"$return">>) \in t.places
    BY <1>1 DEF IsFunction, TreesAreSyntax
  <2>2. \A env : ResultOf(o, t, env) = env[Place(o[1], <<"$return">>)]
    BY <1>1 DEF ResultOf
  <2> QED BY <2>1, <2>2 DEF Environments, Below
<1>2. CASE ~IsFunction(o, t)
  <2>1. ResultOf(o, t, small) = ResultOf(o, t, large)
    BY <1>2 DEF ResultOf
  <2>2. ResultOf(o, t, small) \subseteq {ARRAY, SERIES, FRAME, <<"pathlib", "Path">>}
    BY <1>2 DEF ResultOf
  <2> QED BY <2>1, <2>2, NamedOrigins DEF AllOrigins
<1> QED BY <1>1, <1>2

LEMMA HeldGrows ==
  ASSUME NEW t, NEW small \in Environments(t), NEW large \in Environments(t), NEW place
  PROVE  /\ Held(place, t, small) \subseteq AllOrigins(t)
         /\ Below(small, large) => Held(place, t, small) \subseteq Held(place, t, large)
BY DEF Held, Environments, Below

LEMMA LookupGrows ==
  ASSUME NEW t, NEW small \in Environments(t), NEW large \in Environments(t), NEW id, NEW scope
  PROVE  /\ Lookup(id, scope, t, small) \subseteq AllOrigins(t)
         /\ Below(small, large) => Lookup(id, scope, t, small) \subseteq Lookup(id, scope, t, large)
<1> DEFINE place == Found(id, scope, t)
<1>1. CASE place = None /\ id \in FORBIDDEN_DIRECT_CALLS \cup {"os", "subprocess"}
  BY <1>1, NamedOrigins DEF Lookup, AllOrigins
<1>2. CASE ~(place = None /\ id \in FORBIDDEN_DIRECT_CALLS \cup {"os", "subprocess"})
  <2>1. \A env : Lookup(id, scope, t, env) = Held(place, t, env)
    BY <1>2 DEF Lookup
  <2> HIDE DEF place
  <2> QED BY <2>1, HeldGrows
<1> QED BY <1>1, <1>2

(* One level: an expression grows when the parts it reads do.              *)
LEMMA OneLevelGrows ==
  ASSUME NEW expressions, NEW height, EvaluatesSyntax(expressions, height), NEW t \in Trees,
         NEW small \in Environments(t), NEW large \in Environments(t), NEW c, NEW e \in expressions,
         \A part \in Reads(e) : Grows(part, c, t, small, large)
  PROVE  Grows(e, c, t, small, large)
<1>1. \A env \in Environments(t) : Origins(e, c, t, env) = OriginsOf(e, c, t, env, [part \in Reads(e) |-> Origins(part, c, t, env)])
  BY DEF EvaluatesSyntax
<1>2. /\ e.op = "name" => e.id \in Identifiers
      /\ e.op = "attr" => e.attr \in Identifiers
      /\ e.op = "lambda" => e.tag \in Identifiers
      /\ TreesAreSyntax(expressions) /\ TreesAreWhole
  BY DEF EvaluatesSyntax, IsSyntax
<1>3. CASE e.op = "name"
  <2>1. \A env \in Environments(t) : Origins(e, c, t, env) = Lookup(e.id, c.scope, t, env)
    BY <1>1, <1>3 DEF OriginsOf
  <2> QED BY <2>1, LookupGrows DEF Grows
<1>4. CASE e.op = "attr" /\ IsSelf(e.of)
  <2>1. CASE e.attr = "data"
    <3>1. \A env \in Environments(t) : Origins(e, c, t, env) = {<<"backtesting", "Data">>}
      BY <1>1, <1>4, <2>1 DEF OriginsOf
    <3> QED BY <3>1, NamedOrigins DEF Grows, AllOrigins
  <2>2. CASE e.attr # "data"
    <3>1. \A env \in Environments(t) : Origins(e, c, t, env) = Held(OfSelf(e, c), t, env)
      BY <1>1, <1>4, <2>2 DEF OriginsOf
    <3> QED BY <3>1, HeldGrows DEF Grows
  <2> QED BY <2>1, <2>2
<1>5. CASE e.op = "attr" /\ ~IsSelf(e.of)
  <2>1. \A env \in Environments(t) :
           Origins(e, c, t, env) = {Member(base, e.attr) : base \in Origins(e.of, c, t, env)}
    BY <1>1, <1>5 DEF OriginsOf, Reads
  <2>2. Grows(e.of, c, t, small, large)
    BY <1>5 DEF Reads
  <2>3. \A base \in AllOrigins(t) : Member(base, e.attr) \in AllOrigins(t)
    BY <1>2, <1>5, OriginsAreNames, MemberIsShort DEF AllOrigins
  <2> QED BY <2>1, <2>2, <2>3 DEF Grows
<1>6. CASE e.op = "lambda"
  <2>1. \A env \in Environments(t) : Origins(e, c, t, env) = {<<e.tag>>}
    BY <1>1, <1>6 DEF OriginsOf
  <2> QED BY <2>1, <1>2, <1>6, Origin1 DEF Grows, AllOrigins
<1>7. CASE e.op = "call"
  <2>1. \A env \in Environments(t) :
           Origins(e, c, t, env) = UNION {ResultOf(o, t, env) : o \in Origins(e.func, c, t, env)}
    BY <1>1, <1>7 DEF OriginsOf, Reads
  <2>2. Grows(e.func, c, t, small, large)
    BY <1>7 DEF Reads
  <2>3. \A o \in AllOrigins(t) :
          /\ ResultOf(o, t, small) \subseteq AllOrigins(t)
          /\ Below(small, large) => ResultOf(o, t, small) \subseteq ResultOf(o, t, large)
    BY <1>2, ResultsGrow
  <2> QED BY <2>1, <2>2, <2>3 DEF Grows
<1>8. CASE e.op \in {"item", "walrus", "any"}
  <2>1. \A env \in Environments(t) :
           Origins(e, c, t, env) = UNION {Origins(part, c, t, env) : part \in Reads(e)}
    BY <1>1, <1>8 DEF OriginsOf
  <2> QED BY <2>1 DEF Grows
<1>9. CASE e.op \notin {"name", "attr", "lambda", "call", "item", "walrus", "any"}
  <2>1. \A env \in Environments(t) : Origins(e, c, t, env) = {}
    BY <1>1, <1>9 DEF OriginsOf
  <2> QED BY <2>1 DEF Grows
<1> QED BY <1>3, <1>4, <1>5, <1>6, <1>7, <1>8, <1>9

(* All levels: of the expressions that did not grow, take a lowest one.    *)
LEMMA OriginsGrow ==
  ASSUME NEW expressions, NEW height, EvaluatesSyntax(expressions, height)
  PROVE  OriginsAreMonotone(expressions)
<1> SUFFICES ASSUME NEW t \in Trees, NEW small \in Environments(t), NEW large \in Environments(t), NEW c
             PROVE  \A e \in expressions : Grows(e, c, t, small, large)
  BY DEF OriginsAreMonotone
<1> DEFINE Failing == {e \in expressions : ~Grows(e, c, t, small, large)}
           Heights == {height[e] : e \in Failing}
<1>1. SUFFICES ASSUME Failing # {} PROVE FALSE
  OBVIOUS
<1>2. Heights \subseteq Nat /\ Heights # {}
  BY <1>1 DEF EvaluatesSyntax
<1>3. PICK least \in Heights : \A n \in Heights : least <= n
  <2> HIDE DEF Heights
  <2> QED BY <1>2, LeastMember
<1>4. PICK e \in Failing : height[e] = least
  BY <1>3
<1>5. \A part \in Reads(e) : Grows(part, c, t, small, large)
  <2> SUFFICES ASSUME NEW part \in Reads(e), ~Grows(part, c, t, small, large) PROVE FALSE
    OBVIOUS
  <2>1. part \in expressions /\ height[part] < height[e]
    BY <1>4 DEF EvaluatesSyntax, IsSyntax
  <2>2. height[part] \in Nat /\ height[e] \in Nat /\ height[part] \in Heights
    BY <2>1 DEF EvaluatesSyntax
  <2>3. height[e] <= height[part]
    BY <1>3, <1>4, <2>2
  <2> QED BY <2>1, <2>2, <2>3
<1>6. Grows(e, c, t, small, large)
  <2>1. e \in expressions
    OBVIOUS
  <2> QED BY <1>5, <2>1, OneLevelGrows
<1> QED BY <1>6

-----------------------------------------------------------------------------
(* A call's arguments, one after the other.                                *)

\* What the arguments up to the n-th leave of the bindings.
IsPassed(g, site, callee, t, env, n) ==
    g = [k \in 0..n |-> IF k = 0 THEN env ELSE Pass(site, callee, t, g[k - 1], k)]

LEMMA PassedExists ==
  ASSUME NEW site, NEW callee, NEW t, NEW env, NEW count \in Nat
  PROVE  \E g : IsPassed(g, site, callee, t, env, count)
<1> DEFINE Failing == {n \in Nat : ~ \E g : IsPassed(g, site, callee, t, env, n)}
<1> SUFFICES ASSUME Failing # {} PROVE FALSE
  OBVIOUS
<1>1. PICK n \in Failing : \A m \in Failing : n <= m
  <2>1. Failing \subseteq Nat
    OBVIOUS
  <2> HIDE DEF Failing
  <2> QED BY <2>1, LeastMember
<1>2. n \in Nat /\ ~ \E g : IsPassed(g, site, callee, t, env, n)
  OBVIOUS
<1>3. CASE n = 0
  <2>1. IsPassed([k \in 0..0 |-> env], site, callee, t, env, 0)
    BY DEF IsPassed
  <2> QED BY <1>2, <1>3, <2>1
<1>4. CASE n > 0
  <2>1. n - 1 \in Nat /\ n - 1 \notin Failing
    BY <1>1, <1>2, <1>4
  <2>2. PICK h : IsPassed(h, site, callee, t, env, n - 1)
    BY <2>1
  <2> DEFINE g == [k \in 0..n |-> IF k = n THEN Pass(site, callee, t, h[n - 1], n) ELSE h[k]]
  <2>3. ASSUME NEW k \in 0..n
        PROVE  g[k] = IF k = 0 THEN env ELSE Pass(site, callee, t, g[k - 1], k)
    <3>1. CASE k = n
      <4>1. g[k] = Pass(site, callee, t, h[n - 1], n)
        BY <3>1
      <4>2. n - 1 \in 0..n /\ n - 1 # n
        BY <1>2, <1>4
      <4>3. g[n - 1] = h[n - 1]
        BY <4>2
      <4> HIDE DEF g
      <4> QED BY <1>4, <3>1, <4>1, <4>3
    <3>2. CASE k # n /\ k = 0
      <4>1. g[k] = h[k] /\ k \in 0..(n - 1)
        BY <1>2, <1>4, <3>2
      <4>2. h[k] = env
        BY <2>2, <3>2, <4>1 DEF IsPassed
      <4> QED BY <3>2, <4>1, <4>2
    <3>3. CASE k # n /\ k # 0
      <4>1. k \in 0..(n - 1) /\ k - 1 \in 0..n /\ k - 1 # n
        BY <1>2, <1>4, <3>3
      <4>2. g[k] = h[k] /\ g[k - 1] = h[k - 1]
        BY <3>3, <4>1
      <4>3. h[k] = Pass(site, callee, t, h[k - 1], k)
        BY <2>2, <3>3, <4>1 DEF IsPassed
      <4> HIDE DEF g
      <4> QED BY <3>3, <4>2, <4>3
    <3> QED BY <3>1, <3>2, <3>3
  <2>4. g = [k \in 0..n |-> g[k]]
    OBVIOUS
  <2> HIDE DEF g
  <2>5. IsPassed(g, site, callee, t, env, n)
    BY <2>3, <2>4 DEF IsPassed
  <2> QED BY <1>2, <2>5
<1> QED BY <1>2, <1>3, <1>4

\* The steps of a whole call.
IsSupplied(g, site, callee, t, env, count) ==
    IsPassed(g, site, callee, t, env, count) /\ Supply(site, callee, t, env) = g[count]

LEMMA SupplyIsPassed ==
  ASSUME NEW site, NEW callee, NEW t, NEW env, NEW count \in Nat,
         count = Len(site.call.args) + Len(site.call.keywords)
  PROVE  \E g : IsSupplied(g, site, callee, t, env, count)
<1> DEFINE passed == CHOOSE g : IsPassed(g, site, callee, t, env, count)
<1>1. IsPassed(passed, site, callee, t, env, count)
  BY PassedExists, Zenon
<1>2. Supply(site, callee, t, env) = passed[count]
  BY Zenon DEF Supply, IsPassed
<1> HIDE DEF passed
<1> QED BY <1>1, <1>2 DEF IsSupplied

LEMMA PassGrows ==
  ASSUME NEW expressions, OriginsAreMonotone(expressions), NEW t \in Trees,
         NEW small \in Environments(t), NEW large \in Environments(t),
         NEW site, NEW callee, NEW i, Argument(site.call, i) \in expressions
  PROVE  /\ Pass(site, callee, t, small, i) \in Environments(t)
         /\ Below(small, Pass(site, callee, t, small, i))
         /\ Below(small, large) => Below(Pass(site, callee, t, small, i), Pass(site, callee, t, large, i))
<1> DEFINE Found1(env) == Origins(Argument(site.call, i), site.at, t, env)
           Gets(place) == /\ place[1] = callee[1] /\ Len(place[2]) = 1
                          /\ Receives(t.functions[callee[1]], site.call, i, place[2][1])
<1>1. Grows(Argument(site.call, i), site.at, t, small, large)
  BY DEF OriginsAreMonotone
<1>2. Found1(small) \subseteq AllOrigins(t) /\ (Below(small, large) => Found1(small) \subseteq Found1(large))
  BY <1>1 DEF Grows
<1>3. \A env : Pass(site, callee, t, env, i) =
         [place \in t.places |-> IF Gets(place) THEN env[place] \cup Found1(env) ELSE env[place]]
  BY DEF Pass
<1> HIDE DEF Found1, Gets
<1> QED BY <1>2, <1>3 DEF Environments, Below

LEMMA SupplyGrowsToo ==
  ASSUME NEW expressions, OriginsAreMonotone(expressions), TreesAreSyntax(expressions), NEW t \in Trees,
         NEW small \in Environments(t), NEW large \in Environments(t),
         NEW site \in Range(t.calls), NEW callee
  PROVE  SuppliesMore(site, callee, t, small, large)
<1> DEFINE args == Len(site.call.args)
           named == Len(site.call.keywords)
           count == args + named
<1>1. /\ args \in Nat /\ named \in Nat /\ count \in Nat
      /\ \A i \in 1..args : site.call.args[i] \in expressions
      /\ \A i \in 1..named : site.call.keywords[i][2] \in expressions
  <2>1. site.call.args \in Seq(expressions) /\ site.call.keywords \in Seq(Identifiers \X expressions)
    BY DEF TreesAreSyntax
  <2>2. \A i \in 1..named : site.call.keywords[i] \in Identifiers \X expressions
    BY <2>1
  <2>3. \A pair \in Identifiers \X expressions : pair[2] \in expressions
    OBVIOUS
  <2>4. \A i \in 1..named : site.call.keywords[i][2] \in expressions
    BY <2>2, <2>3, Zenon
  <2>5. args \in Nat /\ named \in Nat /\ \A i \in 1..args : site.call.args[i] \in expressions
    BY <2>1
  <2> HIDE DEF args, named
  <2>6. args + named \in Nat
    BY <2>5
  <2> QED BY <2>4, <2>5, <2>6
<1>2. \A i \in 1..count : Argument(site.call, i) \in expressions
  <2> SUFFICES ASSUME NEW i \in 1..count PROVE Argument(site.call, i) \in expressions
    OBVIOUS
  <2>1. CASE i <= args
    BY <1>1, <2>1 DEF Argument
  <2>2. CASE ~(i <= args)
    <3>1. i - args \in 1..named
      <4> HIDE DEF args, named
      <4> QED BY <1>1, <2>2
    <3> QED BY <1>1, <2>2, <3>1 DEF Argument
  <2> QED BY <2>1, <2>2
<1> HIDE DEF count
<1>3. count \in Nat /\ count = Len(site.call.args) + Len(site.call.keywords)
  BY <1>1 DEF count
<1>4. PICK g : IsSupplied(g, site, callee, t, small, count)
  BY <1>3, SupplyIsPassed
<1>5. PICK h : IsSupplied(h, site, callee, t, large, count)
  BY <1>3, SupplyIsPassed
<1> DEFINE Holds(n) == /\ g[n] \in Environments(t) /\ h[n] \in Environments(t)
                       /\ Below(small, g[n])
                       /\ Below(small, large) => Below(g[n], h[n])
           Failing == {n \in 0..count : ~Holds(n)}
<1> HIDE DEF args, named
<1>6. g[0] = small /\ h[0] = large
  BY <1>1, <1>4, <1>5 DEF IsPassed, IsSupplied
<1>7. \A n \in 1..count : /\ g[n] = Pass(site, callee, t, g[n - 1], n)
                           /\ h[n] = Pass(site, callee, t, h[n - 1], n)
  BY <1>1, <1>4, <1>5 DEF IsPassed, IsSupplied
<1>8. Failing = {}
  <2> SUFFICES ASSUME Failing # {} PROVE FALSE
    OBVIOUS
  <2>1. PICK n \in Failing : \A m \in Failing : n <= m
    <3>1. Failing \subseteq Nat
      BY <1>1
    <3> HIDE DEF Failing
    <3> QED BY <3>1, LeastMember
  <2>2. n \in 0..count /\ ~Holds(n)
    OBVIOUS
  <2>3. CASE n = 0
    <3>1. Holds(0)
      BY <1>6 DEF Below
    <3> QED BY <2>2, <2>3, <3>1
  <2>4. CASE n # 0
    <3>1. n \in 1..count /\ n - 1 \in 0..count /\ n - 1 \notin Failing
      BY <1>1, <2>1, <2>2, <2>4
    <3>2. Holds(n - 1)
      BY <3>1
    <3>3. Argument(site.call, n) \in expressions
      BY <1>2, <3>1
    <3>4. /\ g[n] \in Environments(t) /\ Below(g[n - 1], g[n])
          /\ Below(g[n - 1], h[n - 1]) => Below(g[n], h[n])
      <4>1. /\ Pass(site, callee, t, g[n - 1], n) \in Environments(t)
            /\ Below(g[n - 1], Pass(site, callee, t, g[n - 1], n))
            /\ Below(g[n - 1], h[n - 1]) =>
                 Below(Pass(site, callee, t, g[n - 1], n), Pass(site, callee, t, h[n - 1], n))
        BY <3>2, <3>3, PassGrows
      <4> QED BY <1>7, <3>1, <4>1
    <3>5. h[n] \in Environments(t)
      <4>1. Pass(site, callee, t, h[n - 1], n) \in Environments(t)
        BY <3>2, <3>3, PassGrows
      <4> QED BY <1>7, <3>1, <4>1
    <3>6. Below(small, g[n])
      BY <3>2, <3>4 DEF Below, Environments
    <3>7. Holds(n)
      BY <3>2, <3>4, <3>5, <3>6
    <3> QED BY <2>2, <3>7
  <2> QED BY <2>3, <2>4
<1>9. count \in 0..count
  BY <1>1
<1>10. Holds(count)
  BY <1>8, <1>9
<1> QED BY <1>4, <1>5, <1>10 DEF SuppliesMore, IsSupplied

(* More bindings never mean fewer origins, whatever the program.           *)
THEOREM MoreFromMore ==
  ASSUME NEW expressions, NEW height, EvaluatesSyntax(expressions, height)
  PROVE  EvaluationIsMonotone
<1>1. TreesAreWhole /\ TreesAreSyntax(expressions) /\ OriginsAreMonotone(expressions)
  BY OriginsGrow DEF EvaluatesSyntax
<1> SUFFICES ASSUME NEW t \in Trees, NEW small \in Environments(t), NEW large \in Environments(t)
             PROVE  /\ \A f \in Range(t.facts) : Grows(f.value, f.at, t, small, large)
                    /\ \A site \in Range(t.calls) :
                          /\ Grows(site.call.func, site.at, t, small, large)
                          /\ \A callee \in FunctionsOf(t) : SuppliesMore(site, callee, t, small, large)
  BY <1>1 DEF EvaluationIsMonotone
<1>2. \A f \in Range(t.facts) : Grows(f.value, f.at, t, small, large)
  BY <1>1 DEF TreesAreSyntax, OriginsAreMonotone
<1>3. \A site \in Range(t.calls) : Grows(site.call.func, site.at, t, small, large)
  BY <1>1 DEF TreesAreSyntax, OriginsAreMonotone
<1>4. \A site \in Range(t.calls) : \A callee \in FunctionsOf(t) : SuppliesMore(site, callee, t, small, large)
  BY <1>1, SupplyGrowsToo
<1> QED BY <1>2, <1>3, <1>4

-----------------------------------------------------------------------------
(* The inductive invariant of the loop.                                    *)

Looping == {"facts", "calls", "arguments"}

\* Types, and that the position lies in the list that is read.
LoopType ==
    /\ tree \in Trees
    /\ bindings \in Environments(tree)
    /\ pc \in Looping \cup {"reporting", "done", "RuntimeError"}
    /\ at \in Nat \ {0}
    /\ pc = "facts" => at <= Len(tree.facts) + 1
    /\ pc = "calls" => at <= Len(tree.calls) + 1
    /\ pc = "arguments" => at <= Len(tree.calls)
    /\ callees \subseteq FunctionsOf(tree)
    /\ changed \in BOOLEAN

\* Nothing is found that a closed environment lacks.
NothingTooMuch ==
    /\ Below(Seeded(tree), bindings)
    /\ \A env \in Environments(tree) : IsClosed(tree, env) =>
          /\ Below(bindings, env)
          /\ pc = "arguments" => callees \subseteq Callees(tree.calls[at], tree, env)

FactHolds(i) ==
    LET fact == tree.facts[i]
    IN Origins(fact.value, fact.at, tree, bindings) \subseteq bindings[fact.place]

CalleeHolds(k, callee) == Supply(tree.calls[k], callee, tree, bindings) = bindings

CallHolds(k) == \A callee \in Callees(tree.calls[k], tree, bindings) : CalleeHolds(k, callee)

\* What a round without a change has passed holds under the bindings.
PassedHolds ==
    /\ ~changed /\ pc \in Looping =>
          \A i \in 1..Len(tree.facts) : (pc = "facts" /\ i >= at) \/ FactHolds(i)
    /\ ~changed /\ pc \in {"calls", "arguments"} => \A k \in 1..(at - 1) : CallHolds(k)
    /\ ~changed /\ pc = "arguments" =>
          \A callee \in Callees(tree.calls[at], tree, bindings) \ callees : CalleeHolds(at, callee)
    /\ pc \in {"reporting", "done"} =>
          /\ \A i \in 1..Len(tree.facts) : FactHolds(i)
          /\ \A k \in 1..Len(tree.calls) : CallHolds(k)

IInv == LoopType /\ NothingTooMuch /\ PassedHolds

-----------------------------------------------------------------------------
(* The lists of a tree, and what evaluation does to typed bindings.        *)

LEMMA TreeShape ==
  ASSUME TreesAreWhole, NEW t \in Trees
  PROVE  /\ Len(t.facts) \in Nat /\ Len(t.calls) \in Nat
         /\ Range(t.facts) = {t.facts[i] : i \in 1..Len(t.facts)}
         /\ Range(t.calls) = {t.calls[k] : k \in 1..Len(t.calls)}
         /\ \A i \in 1..Len(t.facts) : t.facts[i].place \in t.places
         /\ Seeded(t) \in Environments(t)
<1>1. t.facts \in Seq(Range(t.facts)) /\ t.calls \in Seq(Range(t.calls))
  BY DEF TreesAreWhole
<1>2. /\ Len(t.facts) \in Nat /\ DOMAIN t.facts = 1..Len(t.facts)
      /\ Len(t.calls) \in Nat /\ DOMAIN t.calls = 1..Len(t.calls)
  BY <1>1
<1>3. Seeded(t) \in Environments(t)
  BY DEF Seeded, Environments, AllOrigins, Imported
<1> QED BY <1>2, <1>3 DEF TreesAreWhole, Range

LEMMA FactGrows ==
  ASSUME EvaluationIsMonotone, NEW t \in Trees, NEW i \in 1..Len(t.facts),
         NEW small \in Environments(t), NEW large \in Environments(t)
  PROVE  LET fact == t.facts[i]
         IN /\ Origins(fact.value, fact.at, t, small) \subseteq AllOrigins(t)
            /\ Below(small, large) =>
                  Origins(fact.value, fact.at, t, small) \subseteq Origins(fact.value, fact.at, t, large)
<1>1. t.facts[i] \in Range(t.facts)
  BY TreeShape DEF EvaluationIsMonotone
<1> QED BY <1>1 DEF EvaluationIsMonotone, Grows

LEMMA CalleesGrow ==
  ASSUME EvaluationIsMonotone, NEW t \in Trees, NEW k \in 1..Len(t.calls),
         NEW small \in Environments(t), NEW large \in Environments(t)
  PROVE  /\ Callees(t.calls[k], t, small) \subseteq FunctionsOf(t)
         /\ Below(small, large) => Callees(t.calls[k], t, small) \subseteq Callees(t.calls[k], t, large)
<1>1. t.calls[k] \in Range(t.calls)
  BY TreeShape DEF EvaluationIsMonotone
<1>2. LET site == t.calls[k]
      IN /\ Origins(site.call.func, site.at, t, small) \subseteq AllOrigins(t)
         /\ Below(small, large) =>
               Origins(site.call.func, site.at, t, small) \subseteq Origins(site.call.func, site.at, t, large)
  <2>1. Grows(t.calls[k].call.func, t.calls[k].at, t, small, large)
    BY <1>1 DEF EvaluationIsMonotone
  <2> QED BY <2>1 DEF Grows
<1> QED BY <1>2 DEF Callees, FunctionsOf

LEMMA SupplyGrows ==
  ASSUME EvaluationIsMonotone, NEW t \in Trees, NEW k \in 1..Len(t.calls), NEW callee \in FunctionsOf(t),
         NEW small \in Environments(t), NEW large \in Environments(t)
  PROVE  /\ Supply(t.calls[k], callee, t, small) \in Environments(t)
         /\ Below(small, Supply(t.calls[k], callee, t, small))
         /\ Below(small, large) =>
               Below(Supply(t.calls[k], callee, t, small), Supply(t.calls[k], callee, t, large))
<1>1. t.calls[k] \in Range(t.calls)
  BY TreeShape DEF EvaluationIsMonotone
<1> QED BY <1>1 DEF EvaluationIsMonotone, SuppliesMore

LEMMA ClosedAt ==
  ASSUME TreesAreWhole, NEW t \in Trees, NEW env
  PROVE  IsClosed(t, env) <=>
           /\ Below(Seeded(t), env)
           /\ \A i \in 1..Len(t.facts) :
                Origins(t.facts[i].value, t.facts[i].at, t, env) \subseteq env[t.facts[i].place]
           /\ \A k \in 1..Len(t.calls) : \A callee \in Callees(t.calls[k], t, env) :
                Supply(t.calls[k], callee, t, env) = env
<1>1. /\ Range(t.facts) = {t.facts[i] : i \in 1..Len(t.facts)}
      /\ Range(t.calls) = {t.calls[k] : k \in 1..Len(t.calls)}
  BY TreeShape
<1> QED BY <1>1, Zenon DEF IsClosed

-----------------------------------------------------------------------------
(* The steps.                                                              *)

LEMMA InitIInv == ASSUME EvaluationIsMonotone, LoopInit PROVE IInv
<1>1. TreesAreWhole /\ tree \in Trees
  BY DEF EvaluationIsMonotone, LoopInit
<1>2. /\ Len(tree.facts) \in Nat
      /\ Seeded(tree) \in Environments(tree)
  BY <1>1, TreeShape
<1>3. LoopType
  <2>1. /\ bindings = Seeded(tree) /\ pc = "facts" /\ at = 1 /\ callees = {} /\ changed = FALSE
    BY DEF LoopInit, Begin
  <2>2. at \in Nat \ {0} /\ at <= Len(tree.facts) + 1
    BY <1>2, <2>1
  <2>3. pc \in Looping /\ pc # "calls" /\ pc # "arguments"
    BY <2>1 DEF Looping
  <2>4. bindings \in Environments(tree)
    BY <1>2, <2>1
  <2> QED BY <1>1, <2>1, <2>2, <2>3, <2>4 DEF LoopType
<1>4. NothingTooMuch
  BY DEF LoopInit, Begin, NothingTooMuch, Below, IsClosed
<1>5. PassedHolds
  BY <1>2 DEF LoopInit, Begin, PassedHolds, Looping
<1> QED BY <1>3, <1>4, <1>5 DEF IInv

(* What a step that moves on without touching the bindings keeps.          *)
LEMMA Kept ==
  ASSUME UNCHANGED <<tree, bindings>>
  PROVE  /\ \A i : FactHolds(i)' <=> FactHolds(i)
         /\ \A k, callee : CalleeHolds(k, callee)' <=> CalleeHolds(k, callee)
         /\ \A k : CallHolds(k)' <=> CallHolds(k)
BY DEF FactHolds, CallHolds, CalleeHolds

LEMMA ApplyFactKeeps == ASSUME EvaluationIsMonotone, IInv, ApplyFact PROVE IInv'
<1> DEFINE fact  == tree.facts[at]
           found == Origins(fact.value, fact.at, tree, bindings)
<1>1. /\ tree \in Trees /\ bindings \in Environments(tree) /\ at \in 1..Len(tree.facts)
      /\ Len(tree.facts) \in Nat /\ fact.place \in tree.places
  BY TreeShape DEF IInv, LoopType, ApplyFact, EvaluationIsMonotone
<1>2. found \subseteq AllOrigins(tree)
  BY <1>1, FactGrows
<1>3. bindings' = [bindings EXCEPT ![fact.place] = bindings[fact.place] \cup found]
  BY DEF ApplyFact
<1>4. bindings' \in Environments(tree) /\ Below(bindings, bindings')
  BY <1>1, <1>2, <1>3 DEF Environments, Below
<1>5. LoopType'
  BY <1>1, <1>4 DEF IInv, LoopType, ApplyFact, Looping
<1>6. NothingTooMuch'
  <2>1. Below(Seeded(tree), bindings')
    BY <1>1, <1>4 DEF IInv, NothingTooMuch, Below, Seeded, Environments
  <2>2. ASSUME NEW env \in Environments(tree), IsClosed(tree, env)
        PROVE  Below(bindings', env)
    <3>1. Below(bindings, env)
      BY <2>2 DEF IInv, NothingTooMuch
    <3>2. found \subseteq env[fact.place]
      <4>1. found \subseteq Origins(fact.value, fact.at, tree, env)
        BY <1>1, <3>1, FactGrows
      <4>2. Origins(fact.value, fact.at, tree, env) \subseteq env[fact.place]
        BY <1>1, <2>2, ClosedAt DEF EvaluationIsMonotone
      <4> QED BY <4>1, <4>2
    <3> QED BY <1>1, <1>3, <3>1, <3>2 DEF Environments, Below
  <2>3. tree' = tree /\ pc' # "arguments"
    BY DEF ApplyFact
  <2> QED BY <2>1, <2>2, <2>3 DEF NothingTooMuch
<1>7. PassedHolds'
  <2>1. pc' = "facts" /\ at' = at + 1 /\ tree' = tree /\ changed' = (changed \/ bindings' # bindings)
    BY DEF ApplyFact
  <2>2. ASSUME ~changed', NEW i \in 1..Len(tree.facts), i < at + 1
        PROVE  FactHolds(i)'
    <3>1. ~changed /\ bindings' = bindings
      BY <2>1, <2>2
    <3>2. FactHolds(i)
      <4>1. CASE i < at
        BY <3>1, <4>1, <1>1 DEF IInv, PassedHolds, ApplyFact, Looping
      <4>2. CASE i = at
        <5>1. bindings[fact.place] = bindings[fact.place] \cup found
          BY <1>1, <1>3, <3>1 DEF Environments
        <5> QED BY <4>2, <5>1 DEF FactHolds
      <4> QED BY <2>2, <1>1, <4>1, <4>2
    <3> QED BY <2>1, <3>1, <3>2, Kept
  <2> QED BY <1>1, <2>1, <2>2 DEF PassedHolds, Looping
<1> QED BY <1>5, <1>6, <1>7 DEF IInv

LEMMA FactsAppliedKeeps == ASSUME EvaluationIsMonotone, IInv, FactsApplied PROVE IInv'
<1>1. /\ tree \in Trees /\ Len(tree.facts) \in Nat /\ Len(tree.calls) \in Nat
      /\ pc = "facts" /\ pc' = "calls" /\ at > Len(tree.facts) /\ at \in Nat /\ at' = 1
      /\ UNCHANGED <<tree, bindings, callees, changed>>
  BY TreeShape DEF IInv, LoopType, FactsApplied, EvaluationIsMonotone
<1>2. LoopType'
  BY <1>1 DEF IInv, LoopType, Looping
<1>3. NothingTooMuch'
  BY <1>1 DEF IInv, NothingTooMuch
<1>4. PassedHolds'
  BY <1>1, Kept DEF IInv, PassedHolds, Looping
<1> QED BY <1>2, <1>3, <1>4 DEF IInv

LEMMA BeginCallKeeps == ASSUME EvaluationIsMonotone, IInv, BeginCall PROVE IInv'
<1>1. /\ tree \in Trees /\ bindings \in Environments(tree) /\ Len(tree.calls) \in Nat
      /\ pc = "calls" /\ pc' = "arguments" /\ at \in 1..Len(tree.calls)
      /\ callees' = Callees(tree.calls[at], tree, bindings)
      /\ UNCHANGED <<tree, bindings, at, changed>>
  BY TreeShape DEF IInv, LoopType, BeginCall, EvaluationIsMonotone
<1>2. callees' \subseteq FunctionsOf(tree)
  BY <1>1, CalleesGrow
<1>3. LoopType'
  BY <1>1, <1>2 DEF IInv, LoopType, Looping
<1>4. NothingTooMuch'
  <2>1. ASSUME NEW env \in Environments(tree), IsClosed(tree, env)
        PROVE  Below(bindings, env) /\ callees' \subseteq Callees(tree.calls[at], tree, env)
    <3>1. Below(bindings, env)
      BY <2>1 DEF IInv, NothingTooMuch
    <3> QED BY <1>1, <3>1, CalleesGrow
  <2> QED BY <1>1, <2>1 DEF IInv, NothingTooMuch
<1>5. PassedHolds'
  BY <1>1, Kept DEF IInv, PassedHolds, Looping
<1> QED BY <1>3, <1>4, <1>5 DEF IInv

LEMMA SupplyArgumentsKeeps == ASSUME EvaluationIsMonotone, IInv, SupplyArguments PROVE IInv'
<1>1. PICK callee \in callees :
        /\ bindings' = Supply(tree.calls[at], callee, tree, bindings)
        /\ callees' = callees \ {callee}
        /\ pc' = "RuntimeError" \/ pc' = "arguments"
  BY DEF SupplyArguments
<1>2. /\ pc = "arguments" /\ UNCHANGED <<tree, at>>
      /\ changed' = (changed \/ bindings' # bindings)
      /\ tree \in Trees /\ bindings \in Environments(tree) /\ callee \in FunctionsOf(tree)
      /\ at \in 1..Len(tree.calls)
  BY <1>1, TreeShape DEF SupplyArguments, IInv, LoopType, EvaluationIsMonotone
<1>3. bindings' \in Environments(tree) /\ Below(bindings, bindings')
  BY <1>1, <1>2, SupplyGrows
<1>4. LoopType'
  BY <1>1, <1>2, <1>3 DEF IInv, LoopType, Looping
<1>5. NothingTooMuch'
  <2>1. Below(Seeded(tree), bindings')
    BY <1>2, <1>3 DEF IInv, NothingTooMuch, Below, Seeded, Environments
  <2>2. ASSUME NEW env \in Environments(tree), IsClosed(tree, env)
        PROVE  Below(bindings', env) /\ callees \subseteq Callees(tree.calls[at], tree, env)
    <3>1. Below(bindings, env) /\ callees \subseteq Callees(tree.calls[at], tree, env)
      BY <1>2, <2>2 DEF IInv, NothingTooMuch
    <3>2. Below(bindings', Supply(tree.calls[at], callee, tree, env))
      BY <1>1, <1>2, <3>1, SupplyGrows
    <3>3. Supply(tree.calls[at], callee, tree, env) = env
      BY <1>2, <2>2, <3>1, ClosedAt DEF EvaluationIsMonotone
    <3> QED BY <3>1, <3>2, <3>3
  <2> QED BY <1>1, <1>2, <2>1, <2>2 DEF NothingTooMuch
<1>6. PassedHolds'
  <2>1. CASE changed' \/ pc' = "RuntimeError"
    BY <1>1, <2>1 DEF PassedHolds, Looping
  <2>2. CASE ~changed' /\ pc' = "arguments"
    <3>1. ~changed /\ bindings' = bindings
      BY <1>2, <2>2
    <3>2. CalleeHolds(at, callee)
      BY <1>1, <3>1 DEF CalleeHolds
    <3>3. \A i \in 1..Len(tree.facts) : FactHolds(i)
      BY <1>2, <3>1 DEF IInv, PassedHolds, Looping
    <3>4. \A k \in 1..(at - 1) : CallHolds(k)
      BY <1>2, <3>1 DEF IInv, PassedHolds
    <3>5. \A c \in Callees(tree.calls[at], tree, bindings) \ callees' : CalleeHolds(at, c)
      BY <1>1, <1>2, <3>1, <3>2 DEF IInv, PassedHolds
    <3> QED BY <1>2, <2>2, <3>1, <3>3, <3>4, <3>5, Kept DEF PassedHolds
  <2> QED BY <1>1, <2>1, <2>2
<1> QED BY <1>4, <1>5, <1>6 DEF IInv

LEMMA EndCallKeeps == ASSUME EvaluationIsMonotone, IInv, EndCall PROVE IInv'
<1>1. /\ tree \in Trees /\ Len(tree.calls) \in Nat
      /\ pc = "arguments" /\ pc' = "calls" /\ callees = {} /\ at \in 1..Len(tree.calls) /\ at' = at + 1
      /\ UNCHANGED <<tree, bindings, callees, changed>>
  BY TreeShape DEF IInv, LoopType, EndCall, EvaluationIsMonotone
<1>2. LoopType'
  BY <1>1 DEF IInv, LoopType, Looping
<1>3. NothingTooMuch'
  BY <1>1 DEF IInv, NothingTooMuch
<1>4. PassedHolds'
  <2>1. ASSUME ~changed PROVE \A k \in 1..at : CallHolds(k)
    <3>1. CallHolds(at)
      BY <1>1, <2>1 DEF IInv, PassedHolds, CallHolds
    <3>2. \A k \in 1..(at - 1) : CallHolds(k)
      BY <1>1, <2>1 DEF IInv, PassedHolds
    <3> QED BY <1>1, <3>1, <3>2
  <2>2. ASSUME ~changed PROVE \A i \in 1..Len(tree.facts) : FactHolds(i)
    BY <1>1, <2>2 DEF IInv, PassedHolds, Looping
  <2> QED BY <1>1, <2>1, <2>2, Kept DEF PassedHolds, Looping
<1> QED BY <1>2, <1>3, <1>4 DEF IInv

LEMMA EndRoundKeeps == ASSUME EvaluationIsMonotone, IInv, EndRound PROVE IInv'
<1>1. /\ tree \in Trees /\ Len(tree.calls) \in Nat /\ Len(tree.facts) \in Nat
      /\ pc = "calls" /\ at > Len(tree.calls) /\ at \in Nat /\ at' = 1 /\ changed' = FALSE
      /\ pc' = (IF changed THEN "facts" ELSE "reporting") /\ changed \in BOOLEAN
      /\ UNCHANGED <<tree, bindings, callees>>
  BY TreeShape DEF IInv, LoopType, EndRound, EvaluationIsMonotone
<1>2. LoopType'
  <2>1. at' \in Nat \ {0} /\ at' <= Len(tree'.facts) + 1
    BY <1>1
  <2>2. pc' \in Looping \cup {"reporting"} /\ pc' # "calls" /\ pc' # "arguments"
    BY <1>1 DEF Looping
  <2>3. /\ tree' \in Trees /\ bindings' \in Environments(tree')
        /\ callees' \subseteq FunctionsOf(tree') /\ changed' \in BOOLEAN
    BY <1>1 DEF IInv, LoopType
  <2> QED BY <2>1, <2>2, <2>3 DEF LoopType
<1>3. NothingTooMuch'
  BY <1>1 DEF IInv, NothingTooMuch
<1>4. PassedHolds'
  <2>1. ASSUME ~changed
        PROVE  /\ \A k \in 1..Len(tree.calls) : CallHolds(k)
               /\ \A i \in 1..Len(tree.facts) : FactHolds(i)
    BY <1>1, <2>1 DEF IInv, PassedHolds, Looping
  <2> QED BY <1>1, <2>1, Kept DEF PassedHolds, Looping
<1> QED BY <1>2, <1>3, <1>4 DEF IInv

LEMMA ReadKeeps == ASSUME IInv, Read PROVE IInv'
<1>1. pc = "reporting" /\ pc' = "done" /\ UNCHANGED <<tree, bindings, at, callees, changed>>
  BY DEF Read
<1>2. LoopType'
  BY <1>1 DEF IInv, LoopType, Looping
<1>3. NothingTooMuch'
  BY <1>1 DEF IInv, NothingTooMuch
<1>4. PassedHolds'
  BY <1>1, Kept DEF IInv, PassedHolds, Looping
<1> QED BY <1>2, <1>3, <1>4 DEF IInv

LEMMA NextIInv == ASSUME EvaluationIsMonotone PROVE IInv /\ [LoopNext]_loopVars => IInv'
<1>1. ASSUME IInv, UNCHANGED loopVars PROVE IInv'
  BY <1>1, Kept DEF loopVars, IInv, LoopType, NothingTooMuch, PassedHolds
<1> QED BY <1>1, ApplyFactKeeps, FactsAppliedKeeps, BeginCallKeeps, SupplyArgumentsKeeps,
           EndCallKeeps, EndRoundKeeps, ReadKeeps DEF LoopNext

LEMMA Inductive == ASSUME EvaluationIsMonotone PROVE LoopSpec => []IInv
BY InitIInv, NextIInv, PTL DEF LoopSpec

-----------------------------------------------------------------------------
(* However names are assigned, an origin with more dots than the limit is  *)
(* one that was imported so: no assignment cycle makes one longer.         *)
(* "Origins have bounded depth to terminate cycles" (lines 64-67).         *)
THEOREM OriginsStayShort ==
  ASSUME NEW expressions, NEW height, EvaluatesSyntax(expressions, height)
  PROVE  LoopSpec => []TypeOK
<1>1. IInv => TypeOK
  <2> SUFFICES ASSUME IInv PROVE TypeOK
    OBVIOUS
  <2>1. bindings \in Environments(tree)
    BY DEF IInv, LoopType
  <2>2. \A p \in tree.places : \A o \in bindings[p] : o \in ShortOrigins \/ o \in Imported(tree)
    BY <2>1 DEF Environments, AllOrigins
  <2>3. \A o \in ShortOrigins : ~(Len(o) > MaxDots + 1)
    BY DepthAssumption DEF ShortOrigins
  <2>4. pc \in {"facts", "calls", "arguments", "reporting", "done", "RuntimeError"}
    BY DEF IInv, LoopType, Looping
  <2> QED BY <2>1, <2>2, <2>3, <2>4 DEF TypeOK
<1>2. LoopSpec => []IInv
  BY MoreFromMore, Inductive
<1> QED BY <1>1, <1>2, PTL

\* At the end of the loop nothing can be added, and nothing is too much.
LeastReported == pc \in {"reporting", "done"} => IsLeastClosed(tree, bindings)

LEMMA EndsLeast == ASSUME EvaluationIsMonotone PROVE IInv => LeastReported
<1> SUFFICES ASSUME IInv, pc \in {"reporting", "done"} PROVE IsLeastClosed(tree, bindings)
  BY DEF LeastReported
<1>1. tree \in Trees /\ bindings \in Environments(tree) /\ TreesAreWhole
  BY DEF IInv, LoopType, EvaluationIsMonotone
<1>2. IsClosed(tree, bindings)
  BY <1>1, ClosedAt DEF IInv, NothingTooMuch, PassedHolds, FactHolds, CallHolds, CalleeHolds
<1> QED BY <1>1, <1>2 DEF IsLeastClosed, IInv, NothingTooMuch

(* What is reported on does not depend on the order of statements, of      *)
(* calls or of a set's elements: it is the least environment that has the  *)
(* imports and definitions and that no assignment and no call enlarges.    *)
(* (lines 79-98; "union origins to a fixed point", line 62)                *)
THEOREM LeastBindingsReported ==
  ASSUME NEW expressions, NEW height, EvaluatesSyntax(expressions, height)
  PROVE  LoopSpec => []LeastReported
<1>1. EvaluationIsMonotone
  BY MoreFromMore
<1>2. (IInv => LeastReported) /\ (LoopSpec => []IInv)
  BY <1>1, EndsLeast, Inductive
<1> QED BY <1>2, PTL

(* There is one such environment at most: two analyses of a tree agree.    *)
THEOREM LeastIsUnique ==
  ASSUME NEW t, NEW one, NEW two, IsLeastClosed(t, one), IsLeastClosed(t, two)
  PROVE  one = two
<1>1. one \in Environments(t) /\ two \in Environments(t) /\ Below(one, two) /\ Below(two, one)
  BY DEF IsLeastClosed
<1>2. DOMAIN one = t.places /\ DOMAIN two = t.places
  BY <1>1 DEF Environments
<1>3. \A p \in t.places : one[p] = two[p]
  BY <1>1, <1>2 DEF Below
<1> QED BY <1>1, <1>3 DEF Environments

(* And there is one, whatever the program: what all closed environments    *)
(* have in common. Nothing enlarges it, since it would enlarge them too.   *)
THEOREM LeastExists ==
  ASSUME NEW expressions, NEW height, EvaluatesSyntax(expressions, height), NEW t \in Trees
  PROVE  \E env : IsLeastClosed(t, env)
<1> DEFINE ClosedOnes == {env \in Environments(t) : IsClosed(t, env)}
           top    == [p \in t.places |-> AllOrigins(t)]
           common == [p \in t.places |-> {o \in AllOrigins(t) : \A env \in ClosedOnes : o \in env[p]}]
<1>1. EvaluationIsMonotone /\ TreesAreWhole /\ Seeded(t) \in Environments(t)
  BY MoreFromMore, TreeShape DEF EvaluatesSyntax
<1>2. top \in Environments(t) /\ common \in Environments(t)
  BY DEF Environments
<1>3. \A env \in Environments(t) : Below(top, env) => env = top
  BY DEF Environments, Below
<1>4. IsClosed(t, top)
  <2>1. Below(Seeded(t), top)
    BY <1>1 DEF Below, Environments
  <2>2. ASSUME NEW i \in 1..Len(t.facts)
        PROVE  Origins(t.facts[i].value, t.facts[i].at, t, top) \subseteq top[t.facts[i].place]
    <3>1. Origins(t.facts[i].value, t.facts[i].at, t, top) \subseteq AllOrigins(t)
      BY <1>1, <1>2, FactGrows
    <3>2. top[t.facts[i].place] = AllOrigins(t)
      BY <1>1, TreeShape
    <3> HIDE DEF top
    <3> QED BY <3>1, <3>2
  <2> HIDE DEF top
  <2>3. ASSUME NEW k \in 1..Len(t.calls), NEW callee \in Callees(t.calls[k], t, top)
        PROVE  Supply(t.calls[k], callee, t, top) = top
    <3>1. callee \in FunctionsOf(t)
      BY <1>1, <1>2, CalleesGrow
    <3>2. /\ Supply(t.calls[k], callee, t, top) \in Environments(t)
          /\ Below(top, Supply(t.calls[k], callee, t, top))
      BY <1>1, <1>2, <3>1, SupplyGrows
    <3> QED BY <1>3, <3>2
  <2> QED BY <1>1, <2>1, <2>2, <2>3, ClosedAt
<1>5. \A env \in ClosedOnes : Below(common, env)
  BY DEF Below
<1>6. \A p \in t.places, o \in AllOrigins(t) :
         (\A env \in ClosedOnes : o \in env[p]) => o \in common[p]
  OBVIOUS
<1>7. \A env \in ClosedOnes : env \in Environments(t) /\ IsClosed(t, env)
  OBVIOUS
<1>8. \A env \in Environments(t) : IsClosed(t, env) => env \in ClosedOnes
  OBVIOUS
<1>9. top \in ClosedOnes
  BY <1>2, <1>4, <1>8
<1> HIDE DEF ClosedOnes, common, top
<1>10. Below(Seeded(t), common)
  <2> SUFFICES ASSUME NEW p \in t.places PROVE Seeded(t)[p] \subseteq common[p]
    BY <1>1 DEF Below, Environments
  <2>1. Seeded(t)[p] \subseteq AllOrigins(t)
    BY <1>1 DEF Environments
  <2>2. \A env \in ClosedOnes : Seeded(t)[p] \subseteq env[p]
    BY <1>1, <1>7 DEF IsClosed, Below, Environments
  <2> QED BY <1>6, <2>1, <2>2
<1>11. ASSUME NEW i \in 1..Len(t.facts)
       PROVE  Origins(t.facts[i].value, t.facts[i].at, t, common) \subseteq common[t.facts[i].place]
  <2> DEFINE found(env) == Origins(t.facts[i].value, t.facts[i].at, t, env)
  <2>1. t.facts[i].place \in t.places
    BY <1>1, TreeShape
  <2>2. found(common) \subseteq AllOrigins(t)
    BY <1>1, <1>2, FactGrows
  <2>3. ASSUME NEW env \in ClosedOnes PROVE found(common) \subseteq env[t.facts[i].place]
    <3>1. found(common) \subseteq found(env)
      BY <1>1, <1>2, <1>5, <1>7, FactGrows
    <3>2. found(env) \subseteq env[t.facts[i].place]
      BY <1>1, <1>7, ClosedAt
    <3> QED BY <3>1, <3>2
  <2> HIDE DEF found
  <2>4. found(common) \subseteq common[t.facts[i].place]
    BY <1>6, <2>1, <2>2, <2>3
  <2> QED BY <2>4 DEF found
<1>12. ASSUME NEW k \in 1..Len(t.calls), NEW callee \in Callees(t.calls[k], t, common)
       PROVE  Supply(t.calls[k], callee, t, common) = common
  <2> DEFINE supplied == Supply(t.calls[k], callee, t, common)
  <2>1. callee \in FunctionsOf(t)
    BY <1>1, <1>2, CalleesGrow
  <2>2. supplied \in Environments(t) /\ Below(common, supplied)
    BY <1>1, <1>2, <2>1, SupplyGrows
  <2>3. ASSUME NEW env \in ClosedOnes PROVE Below(supplied, env)
    <3>1. callee \in Callees(t.calls[k], t, env)
      BY <1>1, <1>2, <1>5, <1>7, CalleesGrow
    <3>2. Supply(t.calls[k], callee, t, env) = env
      BY <1>1, <1>7, <3>1, ClosedAt
    <3>3. Below(supplied, Supply(t.calls[k], callee, t, env))
      BY <1>1, <1>2, <1>5, <1>7, <2>1, SupplyGrows
    <3> QED BY <3>2, <3>3
  <2> HIDE DEF supplied
  <2>4. \A p \in t.places : supplied[p] \subseteq common[p]
    BY <1>6, <2>2, <2>3 DEF Below, Environments
  <2>5. \A p \in t.places : supplied[p] = common[p]
    BY <1>2, <2>2, <2>4 DEF Below, Environments
  <2>6. supplied = common
    BY <1>2, <2>2, <2>5 DEF Environments
  <2> QED BY <2>6 DEF supplied
<1>13. IsClosed(t, common)
  BY <1>1, <1>10, <1>11, <1>12, ClosedAt
<1> QED BY <1>2, <1>5, <1>8, <1>13 DEF IsLeastClosed

(* Whatever computes the least closed environment of a tree computes what  *)
(* the loop ends with (lines 79-98).                                       *)
THEOREM FixedPointIsReached ==
  ASSUME NEW expressions, NEW height, EvaluatesSyntax(expressions, height),
         \A t \in Trees : IsLeastClosed(t, Solution(t))
  PROVE  LoopSpec => []FixedPointReached
<1>1. EvaluationIsMonotone
  BY MoreFromMore
<1>2. IInv => FixedPointReached
  <2> SUFFICES ASSUME IInv, pc \in {"reporting", "done"} PROVE bindings = Solution(tree)
    BY DEF FixedPointReached
  <2>1. IsLeastClosed(tree, bindings) /\ tree \in Trees
    BY <1>1, EndsLeast DEF LeastReported, IInv, LoopType
  <2>2. IsLeastClosed(tree, Solution(tree))
    BY <2>1
  <2> QED BY <2>1, <2>2, LeastIsUnique
<1>3. LoopSpec => []IInv
  BY <1>1, Inductive
<1> QED BY <1>2, <1>3, PTL

(* An analysis that fails has found nothing that is not there: bindings    *)
(* never hold an origin which the least environment lacks.                 *)
THEOREM NothingIsInvented ==
  ASSUME NEW expressions, NEW height, EvaluatesSyntax(expressions, height)
  PROVE  LoopSpec => [](\A env \in Environments(tree) : IsClosed(tree, env) => Below(bindings, env))
<1>1. IInv => \A env \in Environments(tree) : IsClosed(tree, env) => Below(bindings, env)
  BY DEF IInv, NothingTooMuch
<1>2. LoopSpec => []IInv
  BY MoreFromMore, Inductive
<1> QED BY <1>1, <1>2, PTL

-----------------------------------------------------------------------------
(* Why the loop ends: a round that does not end it adds an origin to a     *)
(* binding, and a round takes boundedly many steps.                        *)

\* What bindings could still gain.
Room(t, env) == Cardinality({e \in t.places \X AllOrigins(t) : e[2] \notin env[e[1]]})

\* A call takes a step for each function it may reach, and two more.
CallSteps == Cardinality(FunctionsOf(tree)) + 2

LongestRound == Len(tree.facts) + Len(tree.calls) * CallSteps + 2

RoundLeft ==
    CASE pc = "facts"     -> Len(tree.facts) + Len(tree.calls) * CallSteps + 3 - at
      [] pc = "calls"     -> (Len(tree.calls) + 1 - at) * CallSteps + 1
      [] pc = "arguments" -> (Len(tree.calls) - at) * CallSteps + Cardinality(callees) + 2

\* Twice the room, since a round with a change is followed by another.
RoundsLeft == 2 * Room(tree, bindings) + (IF changed THEN 1 ELSE 0)

AnalysisLeft ==
    CASE pc \in Looping     -> RoundsLeft * LongestRound + RoundLeft + 1
      [] pc = "reporting"   -> 1
      [] OTHER              -> 0

IsFiniteAnalysis ==
    /\ IsFiniteSet(Identifiers)
    /\ \A t \in Trees : IsFiniteSet(t.places) /\ IsFiniteSet(t.seeds)

\* Of finitely many names there are finitely many dotted names of a length.
LEMMA ShortOnesAreFinite == ASSUME IsFiniteSet(Identifiers) PROVE IsFiniteSet(ShortOrigins)
<1> DEFINE Names(n) == {s \in Seq(Identifiers) : Len(s) <= n}
           Failing  == {n \in Nat : ~IsFiniteSet(Names(n))}
<1>1. Failing = {}
  <2> SUFFICES ASSUME Failing # {} PROVE FALSE
    OBVIOUS
  <2>1. PICK n \in Failing : \A m \in Failing : n <= m
    <3>1. Failing \subseteq Nat
      OBVIOUS
    <3> HIDE DEF Failing
    <3> QED BY <3>1, LeastMember
  <2>2. n \in Nat /\ ~IsFiniteSet(Names(n))
    OBVIOUS
  <2>3. CASE n = 0
    <3>1. Names(0) \subseteq {<<>>}
      OBVIOUS
    <3>2. IsFiniteSet(Names(0))
      <4> HIDE DEF Names
      <4> QED BY <3>1, FS_Singleton, FS_Subset
    <3> QED BY <2>2, <2>3, <3>2
  <2>4. CASE n > 0
    <3> DEFINE Pairs  == Names(n - 1) \X Identifiers
               Longer == {Append(pair[1], pair[2]) : pair \in Pairs}
    <3>1. n - 1 \in Nat /\ IsFiniteSet(Names(n - 1))
      <4>1. n - 1 \in Nat /\ n - 1 \notin Failing
        <5> HIDE DEF Failing
        <5> QED BY <2>1, <2>2, <2>4
      <4> HIDE DEF Names
      <4> QED BY <4>1
    <3>2. IsFiniteSet(Longer)
      <4> DEFINE append == [pair \in Pairs |-> Append(pair[1], pair[2])]
      <4>1. IsFiniteSet(Pairs)
        <5> HIDE DEF Names
        <5> QED BY <3>1, FS_Product
      <4>2. append \in Surjection(Pairs, Longer)
        <5> HIDE DEF Pairs
        <5> QED BY DEF Surjection
      <4> HIDE DEF append, Pairs, Longer
      <4> QED BY <4>1, <4>2, FS_Surjection
    <3>3. Names(n) \subseteq Names(n - 1) \cup Longer
      <4> SUFFICES ASSUME NEW s \in Names(n), ~(Len(s) <= n - 1) PROVE s \in Longer
        BY <3>1
      <4>1. s \in Seq(Identifiers) /\ Len(s) = n
        BY <2>2
      <4> DEFINE front == [i \in 1..(n - 1) |-> s[i]]
      <4>2. front \in Seq(Identifiers) /\ Len(front) = n - 1 /\ s[n] \in Identifiers
        BY <2>4, <3>1, <4>1
      <4>3. s = Append(front, s[n])
        BY <2>4, <3>1, <4>1, <4>2
      <4>4. <<front, s[n]>> \in Pairs
        <5> HIDE DEF front
        <5>1. front \in Names(n - 1)
          BY <3>1, <4>2
        <5> HIDE DEF Names
        <5> QED BY <4>2, <5>1
      <4> HIDE DEF front, Pairs
      <4> QED BY <4>3, <4>4
    <3>4. IsFiniteSet(Names(n))
      <4> HIDE DEF Names, Longer
      <4> QED BY <3>1, <3>2, <3>3, FS_Union, FS_Subset
    <3> QED BY <2>2, <3>4
  <2> QED BY <2>2, <2>3, <2>4
<1>2. MaxDots + 1 \in Nat
  BY DepthAssumption
<1>3. IsFiniteSet(Names(MaxDots + 1))
  BY <1>1, <1>2
<1>4. ShortOrigins \subseteq Names(MaxDots + 1)
  BY <1>2 DEF ShortOrigins
<1> HIDE DEF Names
<1> QED BY <1>3, <1>4, FS_Subset

LEMMA OriginsAreFinite ==
  ASSUME IsFiniteAnalysis, NEW t \in Trees
  PROVE  IsFiniteSet(AllOrigins(t))
<1> DEFINE origin == [s \in t.seeds |-> s[2]]
<1>1. origin \in Surjection(t.seeds, Imported(t))
  BY DEF Surjection, Imported
<1>2. IsFiniteSet(t.seeds) /\ IsFiniteSet(ShortOrigins)
  BY ShortOnesAreFinite DEF IsFiniteAnalysis
<1> HIDE DEF origin
<1>3. IsFiniteSet(Imported(t))
  BY <1>1, <1>2, FS_Surjection
<1> QED BY <1>2, <1>3, FS_Union DEF AllOrigins

LEMMA RoomShrinks ==
  ASSUME NEW t, IsFiniteSet(t.places), IsFiniteSet(AllOrigins(t)),
         NEW small \in Environments(t), NEW large \in Environments(t), Below(small, large)
  PROVE  /\ Room(t, small) \in Nat /\ Room(t, large) \in Nat
         /\ small # large => Room(t, large) < Room(t, small)
<1> DEFINE Missing(env) == {e \in t.places \X AllOrigins(t) : e[2] \notin env[e[1]]}
<1>1. IsFiniteSet(t.places \X AllOrigins(t))
  BY FS_Product
<1>2. Missing(small) \subseteq t.places \X AllOrigins(t) /\ Missing(large) \subseteq t.places \X AllOrigins(t)
  OBVIOUS
<1>3. IsFiniteSet(Missing(small)) /\ IsFiniteSet(Missing(large))
  BY <1>1, <1>2, FS_Subset
<1>4. Missing(large) \subseteq Missing(small)
  BY DEF Below, Environments
<1>5. ASSUME small # large PROVE Missing(large) # Missing(small)
  <2>1. PICK p \in t.places : small[p] # large[p]
    BY <1>5 DEF Environments
  <2>2. PICK o \in AllOrigins(t) : o \in large[p] /\ o \notin small[p]
    BY <2>1 DEF Below, Environments
  <2>3. <<p, o>> \in Missing(small) /\ <<p, o>> \notin Missing(large)
    BY <2>2
  <2> QED BY <2>3
<1> HIDE DEF Missing
<1>6. /\ Cardinality(Missing(small)) \in Nat /\ Cardinality(Missing(large)) \in Nat
      /\ small # large => Cardinality(Missing(large)) < Cardinality(Missing(small))
  BY <1>3, <1>4, <1>5, FS_CardinalityType, FS_Subset
<1> QED BY <1>6 DEF Room, Missing

LEMMA Products ==
  ASSUME NEW a \in Nat, NEW b \in Nat, NEW longest \in Nat,
         NEW r \in 1..longest, NEW s \in 1..longest,
         \/ b <= a /\ s < r
         \/ b < a
  PROVE  b * longest + s < a * longest + r
<1>1. CASE b = a
  BY <1>1
<1>2. CASE b < a
  <2>1. PICK d \in Nat : a = b + 1 + d
    <3>1. a - b - 1 \in Nat /\ a = b + 1 + (a - b - 1)
      BY <1>2
    <3> QED BY <3>1
  <2>2. a * longest = b * longest + longest + d * longest
    BY <2>1
  <2>3. d * longest \in Nat /\ b * longest \in Nat
    BY SMT
  <2> QED BY <2>2, <2>3
<1> QED BY <1>1, <1>2

LEMMA Parts ==
  ASSUME NEW c \in Nat, NEW n \in Nat, NEW k \in 0..n
  PROVE  /\ k * c \in 0..(n * c)
         /\ k < n => k * c + c <= n * c
<1>1. n - k \in Nat /\ n = k + (n - k)
  OBVIOUS
<1>2. PICK d \in Nat : n = k + d
  BY <1>1
<1>3. n * c = k * c + d * c /\ k * c \in Nat /\ d * c \in Nat
  BY <1>2, SMT
<1>4. ASSUME k < n PROVE c <= d * c
  <2>1. PICK e \in Nat : d = e + 1
    <3>1. d - 1 \in Nat /\ d = (d - 1) + 1
      BY <1>2, <1>4
    <3> QED BY <3>1
  <2>2. d * c = e * c + c /\ e * c \in Nat
    BY <2>1, SMT
  <2> QED BY <2>2
<1> QED BY <1>3, <1>4

LEMMA NextProduct ==
  ASSUME NEW a \in Nat, NEW c \in Nat
  PROVE  a * c \in Nat /\ (a + 1) * c = a * c + c
BY SMT

\* What the measure is made of.
MeasureIsSound ==
    /\ RoundsLeft \in Nat /\ CallSteps \in Nat /\ LongestRound \in Nat
    /\ IsFiniteSet(callees) /\ Cardinality(callees) \in 0..(CallSteps - 2)
    /\ pc \in Looping => RoundLeft \in 1..LongestRound
    /\ AnalysisLeft \in Nat

LEMMA MeasureType == EvaluationIsMonotone /\ IsFiniteAnalysis /\ IInv => MeasureIsSound
<1> SUFFICES ASSUME EvaluationIsMonotone, IsFiniteAnalysis, IInv PROVE MeasureIsSound
  OBVIOUS
<1>1. /\ tree \in Trees /\ bindings \in Environments(tree) /\ changed \in BOOLEAN
      /\ callees \subseteq FunctionsOf(tree)
      /\ IsFiniteSet(tree.places) /\ IsFiniteSet(AllOrigins(tree))
  BY OriginsAreFinite DEF IInv, LoopType, IsFiniteAnalysis
<1>2. Room(tree, bindings) \in Nat
  BY <1>1, RoomShrinks DEF Below
<1>3. RoundsLeft \in Nat
  BY <1>1, <1>2 DEF RoundsLeft
<1>4. IsFiniteSet(FunctionsOf(tree))
  BY <1>1, FS_Subset DEF FunctionsOf
<1>5. /\ IsFiniteSet(callees) /\ Cardinality(callees) \in Nat /\ Cardinality(FunctionsOf(tree)) \in Nat
      /\ Cardinality(callees) <= Cardinality(FunctionsOf(tree))
  BY <1>1, <1>4, FS_Subset, FS_CardinalityType
<1>6. CallSteps \in Nat /\ Cardinality(callees) \in 0..(CallSteps - 2)
  BY <1>5 DEF CallSteps
<1>7. Len(tree.facts) \in Nat /\ Len(tree.calls) \in Nat
  BY <1>1, TreeShape DEF EvaluationIsMonotone
<1>8. Len(tree.calls) * CallSteps \in Nat
  BY <1>6, <1>7
<1>9. LongestRound \in Nat
  BY <1>7, <1>8 DEF LongestRound
<1>10. ASSUME pc \in Looping PROVE RoundLeft \in 1..LongestRound
  <2>1. at \in Nat \ {0}
    BY DEF IInv, LoopType
  <2>2. CASE pc = "facts"
    <3>1. at <= Len(tree.facts) + 1
      BY <2>2 DEF IInv, LoopType
    <3>2. RoundLeft = Len(tree.facts) + Len(tree.calls) * CallSteps + 3 - at
      BY <2>2 DEF RoundLeft
    <3> QED BY <1>7, <1>8, <2>1, <3>1, <3>2 DEF LongestRound
  <2>3. CASE pc = "calls"
    <3>1. at <= Len(tree.calls) + 1
      BY <2>3 DEF IInv, LoopType
    <3>2. RoundLeft = (Len(tree.calls) + 1 - at) * CallSteps + 1
      BY <2>3 DEF RoundLeft
    <3>3. (Len(tree.calls) + 1 - at) * CallSteps \in 0..(Len(tree.calls) * CallSteps)
      <4>1. Len(tree.calls) + 1 - at \in 0..Len(tree.calls)
        BY <1>7, <2>1, <3>1
      <4> QED BY <1>6, <1>7, <4>1, Parts
    <3> QED BY <1>7, <1>8, <3>2, <3>3 DEF LongestRound
  <2>4. CASE pc = "arguments"
    <3>1. at <= Len(tree.calls)
      BY <2>4 DEF IInv, LoopType
    <3>2. RoundLeft = (Len(tree.calls) - at) * CallSteps + Cardinality(callees) + 2
      BY <2>4 DEF RoundLeft
    <3>3. /\ (Len(tree.calls) - at) * CallSteps \in Nat
          /\ (Len(tree.calls) - at) * CallSteps + CallSteps <= Len(tree.calls) * CallSteps
      <4>1. Len(tree.calls) - at \in 0..Len(tree.calls) /\ Len(tree.calls) - at < Len(tree.calls)
        BY <1>7, <2>1, <3>1
      <4>2. /\ (Len(tree.calls) - at) * CallSteps \in 0..(Len(tree.calls) * CallSteps)
            /\ (Len(tree.calls) - at) * CallSteps + CallSteps <= Len(tree.calls) * CallSteps
        BY <1>6, <1>7, <4>1, Parts
      <4> QED BY <4>2
    <3> DEFINE rest == (Len(tree.calls) - at) * CallSteps
               all  == Len(tree.calls) * CallSteps
    <3>4. /\ rest \in Nat /\ all \in Nat /\ rest + CallSteps <= all
          /\ RoundLeft = rest + Cardinality(callees) + 2 /\ LongestRound = Len(tree.facts) + all + 2
      BY <1>8, <3>2, <3>3 DEF LongestRound
    <3> HIDE DEF rest, all
    <3> QED BY <1>6, <1>7, <3>4
  <2> QED BY <1>10, <2>2, <2>3, <2>4 DEF Looping
<1>11. AnalysisLeft \in Nat
  <2>1. RoundsLeft * LongestRound \in Nat
    BY <1>3, <1>9
  <2>2. pc \in Looping => RoundsLeft * LongestRound + RoundLeft + 1 \in Nat
    BY <1>9, <1>10, <2>1
  <2> QED BY <2>2 DEF AnalysisLeft
<1> QED BY <1>3, <1>5, <1>6, <1>9, <1>10, <1>11 DEF MeasureIsSound

LEMMA NextMeasureType ==
  ASSUME EvaluationIsMonotone, IsFiniteAnalysis
  PROVE  IInv' => MeasureIsSound'
<1>1. IInv => MeasureIsSound
  BY MeasureType
<1> QED BY <1>1, PTL

(* A step inside the loop, in either of the two ways it brings on the end. *)
LEMMA LoopAdvances ==
  ASSUME EvaluationIsMonotone, IsFiniteAnalysis, IInv, IInv', tree' = tree,
         pc \in Looping, pc' \in Looping,
         \/ RoundsLeft' <= RoundsLeft /\ RoundLeft' < RoundLeft
         \/ RoundsLeft' < RoundsLeft
  PROVE  AnalysisLeft' < AnalysisLeft
<1>1. /\ RoundsLeft \in Nat /\ LongestRound \in Nat /\ RoundLeft \in 1..LongestRound
      /\ RoundsLeft * LongestRound \in Int
  <2>1. MeasureIsSound
    BY MeasureType
  <2> QED BY <2>1 DEF MeasureIsSound
<1>2. RoundsLeft' \in Nat /\ RoundLeft' \in 1..LongestRound' /\ LongestRound' = LongestRound
  <2>1. RoundsLeft' \in Nat /\ RoundLeft' \in 1..LongestRound'
    BY NextMeasureType DEF MeasureIsSound
  <2> QED BY <2>1 DEF LongestRound, CallSteps, FunctionsOf
<1>3. RoundsLeft' * LongestRound + RoundLeft' < RoundsLeft * LongestRound + RoundLeft
  BY <1>1, <1>2, Products
<1>4. /\ AnalysisLeft = RoundsLeft * LongestRound + RoundLeft + 1
      /\ AnalysisLeft' = RoundsLeft' * LongestRound + RoundLeft' + 1
  BY <1>2 DEF AnalysisLeft, Looping
<1>5. RoundsLeft' * LongestRound \in Int /\ RoundLeft \in Int /\ RoundLeft' \in Int
  BY <1>1, <1>2
<1>6. \A before, after \in Int : after < before => after + 1 < before + 1
  OBVIOUS
<1>7. /\ RoundsLeft * LongestRound + RoundLeft \in Int
      /\ RoundsLeft' * LongestRound + RoundLeft' \in Int
  BY <1>1, <1>5
<1>8. RoundsLeft' * LongestRound + RoundLeft' + 1 < RoundsLeft * LongestRound + RoundLeft + 1
  BY <1>3, <1>6, <1>7, Zenon
<1> QED BY <1>4, <1>8

(* A step that may enlarge a binding: twice the room covers the extra      *)
(* round that a change brings.                                             *)
LEMMA GrowthAdvances ==
  ASSUME EvaluationIsMonotone, IsFiniteAnalysis, IInv, tree' = tree,
         bindings' \in Environments(tree), Below(bindings, bindings'),
         changed' = (changed \/ bindings' # bindings)
  PROVE  RoundsLeft' <= RoundsLeft
<1>1. /\ tree \in Trees /\ bindings \in Environments(tree) /\ changed \in BOOLEAN
      /\ IsFiniteSet(tree.places) /\ IsFiniteSet(AllOrigins(tree))
  BY OriginsAreFinite DEF IInv, LoopType, IsFiniteAnalysis
<1>2. /\ Room(tree, bindings) \in Nat /\ Room(tree, bindings') \in Nat
      /\ bindings # bindings' => Room(tree, bindings') < Room(tree, bindings)
  BY <1>1, RoomShrinks
<1>3. Room(tree, bindings)' = Room(tree, bindings')
  BY DEF Room
<1>4. CASE bindings' = bindings
  <2>1. Room(tree, bindings)' = Room(tree, bindings) /\ changed' = changed
    BY <1>1, <1>4 DEF Room
  <2>2. RoundsLeft' = RoundsLeft
    BY <2>1 DEF RoundsLeft
  <2>3. RoundsLeft \in Int
    BY <1>1, <1>2 DEF RoundsLeft
  <2> QED BY <2>2, <2>3
<1>5. CASE bindings' # bindings
  <2>1. changed' = TRUE
    BY <1>5
  <2>2. RoundsLeft' = 2 * Room(tree, bindings') + 1
    BY <1>3, <2>1 DEF RoundsLeft
  <2>3. RoundsLeft \in {2 * Room(tree, bindings), 2 * Room(tree, bindings) + 1}
    BY <1>1, <1>2 DEF RoundsLeft
  <2>4. Room(tree, bindings') < Room(tree, bindings)
    BY <1>2, <1>5
  <2> QED BY <1>2, <2>2, <2>3, <2>4
<1> QED BY <1>4, <1>5

LEMMA StepAdvances ==
  ASSUME EvaluationIsMonotone, IsFiniteAnalysis, IInv, IInv', LoopNext
  PROVE  AnalysisLeft' < AnalysisLeft
<1>1. /\ RoundsLeft \in Nat /\ CallSteps \in Nat /\ LongestRound \in Nat
      /\ IsFiniteSet(callees) /\ Cardinality(callees) \in 0..(CallSteps - 2)
      /\ pc \in Looping => RoundLeft \in 1..LongestRound
      /\ RoundsLeft * LongestRound \in Nat
  <2>1. MeasureIsSound
    BY MeasureType
  <2> QED BY <2>1 DEF MeasureIsSound
<1>2. /\ tree \in Trees /\ bindings \in Environments(tree) /\ at \in Nat \ {0}
      /\ Len(tree.facts) \in Nat /\ Len(tree.calls) \in Nat
      /\ callees \subseteq FunctionsOf(tree) /\ changed \in BOOLEAN
  BY TreeShape DEF IInv, LoopType, EvaluationIsMonotone
<1>3. Len(tree.calls) * CallSteps \in Nat
  BY <1>1, <1>2
<1>4. ASSUME tree' = tree PROVE CallSteps' = CallSteps
  BY <1>4 DEF CallSteps, FunctionsOf
<1>5. ASSUME UNCHANGED <<tree, bindings, changed>> PROVE RoundsLeft' = RoundsLeft
  BY <1>5 DEF RoundsLeft, Room
<1>6. ASSUME pc \in Looping, pc' \notin Looping PROVE AnalysisLeft' < AnalysisLeft
  <2>1. AnalysisLeft' \in 0..1
    BY <1>6 DEF AnalysisLeft
  <2>2. AnalysisLeft = RoundsLeft * LongestRound + RoundLeft + 1 /\ RoundLeft >= 1 /\ RoundLeft \in Nat
    BY <1>1, <1>6 DEF AnalysisLeft, Looping
  <2> QED BY <1>1, <2>1, <2>2
<1>7. CASE ApplyFact
  <2>1. /\ pc = "facts" /\ pc' = "facts" /\ tree' = tree /\ at' = at + 1
        /\ changed' = (changed \/ bindings' # bindings)
    BY <1>7 DEF ApplyFact
  <2>2. bindings' \in Environments(tree) /\ Below(bindings, bindings')
    <3>1. bindings' \in Environments(tree)
      BY <2>1 DEF IInv, LoopType
    <3> QED BY <1>2, <1>7, <3>1 DEF ApplyFact, Below, Environments
  <2>3. RoundsLeft' <= RoundsLeft
    BY <2>1, <2>2, GrowthAdvances
  <2>4. /\ RoundLeft = Len(tree.facts) + Len(tree.calls) * CallSteps + 3 - at
        /\ RoundLeft' = Len(tree.facts) + Len(tree.calls) * CallSteps + 3 - (at + 1)
    BY <1>4, <2>1 DEF RoundLeft
  <2>5. RoundLeft' < RoundLeft
    BY <1>2, <1>3, <2>4
  <2> QED BY <2>1, <2>3, <2>5, LoopAdvances DEF Looping
<1>8. CASE FactsApplied
  <2>1. /\ pc = "facts" /\ pc' = "calls" /\ UNCHANGED <<tree, bindings, changed>>
        /\ at' = 1 /\ at > Len(tree.facts) /\ at <= Len(tree.facts) + 1
    BY <1>8 DEF FactsApplied, IInv, LoopType
  <2>2. /\ RoundLeft = Len(tree.facts) + Len(tree.calls) * CallSteps + 3 - at
        /\ RoundLeft' = (Len(tree.calls) + 1 - 1) * CallSteps + 1
    BY <1>4, <2>1 DEF RoundLeft
  <2>3. (Len(tree.calls) + 1 - 1) = Len(tree.calls)
    BY <1>2
  <2>4. RoundLeft' < RoundLeft
    BY <1>2, <1>3, <2>1, <2>2, <2>3
  <2> QED BY <1>1, <1>5, <2>1, <2>4, LoopAdvances DEF Looping
<1>9. CASE BeginCall
  <2>1. /\ pc = "calls" /\ pc' = "arguments" /\ UNCHANGED <<tree, bindings, at, changed>>
        /\ at <= Len(tree.calls)
    BY <1>9 DEF BeginCall
  <2>2. Cardinality(callees') \in 0..(CallSteps - 2)
    <3>1. MeasureIsSound'
      BY NextMeasureType
    <3> QED BY <1>4, <2>1, <3>1 DEF MeasureIsSound
  <2> DEFINE rest == (Len(tree.calls) - at) * CallSteps
  <2>3. rest \in Nat /\ (Len(tree.calls) + 1 - at) * CallSteps = rest + CallSteps
    <3>1. Len(tree.calls) - at \in Nat /\ Len(tree.calls) + 1 - at = (Len(tree.calls) - at) + 1
      BY <1>2, <2>1
    <3> QED BY <1>1, <3>1, NextProduct
  <2>4. RoundLeft = rest + CallSteps + 1 /\ RoundLeft' = rest + Cardinality(callees') + 2
    BY <1>4, <2>1, <2>3 DEF RoundLeft
  <2> HIDE DEF rest
  <2>5. RoundLeft' < RoundLeft
    BY <1>1, <2>2, <2>3, <2>4
  <2> QED BY <1>1, <1>5, <2>1, <2>5, LoopAdvances DEF Looping
<1>10. CASE SupplyArguments
  <2>1. PICK callee \in callees :
          /\ bindings' = Supply(tree.calls[at], callee, tree, bindings)
          /\ callees' = callees \ {callee}
          /\ pc' = "RuntimeError" \/ pc' = "arguments"
    BY <1>10 DEF SupplyArguments
  <2>2. /\ pc = "arguments" /\ UNCHANGED <<tree, at>> /\ at <= Len(tree.calls)
        /\ changed' = (changed \/ bindings' # bindings)
    BY <1>10 DEF SupplyArguments, IInv, LoopType
  <2>3. CASE pc' = "RuntimeError"
    BY <1>6, <2>2, <2>3 DEF Looping
  <2>4. CASE pc' = "arguments"
    <3>1. bindings' \in Environments(tree) /\ Below(bindings, bindings')
      BY <1>2, <2>1, <2>2, SupplyGrows
    <3>2. RoundsLeft' <= RoundsLeft
      BY <2>2, <3>1, GrowthAdvances
    <3>3. Cardinality(callees') = Cardinality(callees) - 1
      BY <1>1, <2>1, FS_RemoveElement
    <3>4. /\ RoundLeft = (Len(tree.calls) - at) * CallSteps + Cardinality(callees) + 2
          /\ RoundLeft' = (Len(tree.calls) - at) * CallSteps + Cardinality(callees') + 2
      BY <1>4, <2>2, <2>4 DEF RoundLeft
    <3>5. (Len(tree.calls) - at) * CallSteps \in Int
      BY <1>1, <1>2
    <3>6. RoundLeft' < RoundLeft
      BY <1>1, <3>3, <3>4, <3>5
    <3> QED BY <2>2, <2>4, <3>2, <3>6, LoopAdvances DEF Looping
  <2> QED BY <2>1, <2>3, <2>4
<1>11. CASE EndCall
  <2>1. /\ pc = "arguments" /\ pc' = "calls" /\ UNCHANGED <<tree, bindings, changed>>
        /\ callees = {} /\ at' = at + 1
    BY <1>11 DEF EndCall
  <2>2. /\ RoundLeft = (Len(tree.calls) - at) * CallSteps + 0 + 2
        /\ RoundLeft' = (Len(tree.calls) + 1 - (at + 1)) * CallSteps + 1
    BY <1>4, <2>1, FS_EmptySet DEF RoundLeft
  <2>3. Len(tree.calls) + 1 - (at + 1) = Len(tree.calls) - at
    <3>1. \A n, k \in Int : n + 1 - (k + 1) = n - k
      OBVIOUS
    <3>2. Len(tree.calls) \in Int /\ at \in Int
      BY <1>2
    <3> QED BY <3>1, <3>2, Zenon
  <2>4. (Len(tree.calls) - at) * CallSteps \in Int
    BY <1>1, <1>2
  <2>5. RoundLeft' < RoundLeft
    BY <2>2, <2>3, <2>4
  <2> QED BY <1>1, <1>5, <2>1, <2>5, LoopAdvances DEF Looping
<1>12. CASE EndRound
  <2>1. /\ pc = "calls" /\ UNCHANGED <<tree, bindings>> /\ changed' = FALSE
        /\ pc' = (IF changed THEN "facts" ELSE "reporting")
    BY <1>12 DEF EndRound
  <2>2. CASE changed
    <3>1. RoundsLeft = 2 * Room(tree, bindings) + 1 /\ RoundsLeft' = 2 * Room(tree, bindings) + 0
      <4>1. Room(tree, bindings)' = Room(tree, bindings)
        BY <2>1 DEF Room
      <4>2. RoundsLeft = 2 * Room(tree, bindings) + 1
        BY <2>2 DEF RoundsLeft
      <4>3. RoundsLeft' = 2 * Room(tree, bindings) + 0
        BY <2>1, <4>1 DEF RoundsLeft
      <4> QED BY <4>2, <4>3
    <3>2. Room(tree, bindings) \in Nat
      BY <1>2, RoomShrinks, OriginsAreFinite DEF Below, IsFiniteAnalysis
    <3>3. RoundsLeft' < RoundsLeft
      BY <3>1, <3>2
    <3> QED BY <2>1, <2>2, <3>3, LoopAdvances DEF Looping
  <2>3. CASE ~changed
    BY <1>6, <2>1, <2>3 DEF Looping
  <2> QED BY <2>2, <2>3
<1>13. CASE Read
  BY <1>13 DEF Read, AnalysisLeft, Looping
<1> QED BY <1>7, <1>8, <1>9, <1>10, <1>11, <1>12, <1>13 DEF LoopNext

(* "Origins have bounded depth to terminate cycles" (lines 66-67): with    *)
(* finitely many origins every step of the loop leaves fewer to come, so   *)
(* that no program makes the analysis go round for ever.                   *)
THEOREM AnalysisMakesProgress ==
  ASSUME NEW expressions, NEW height, EvaluatesSyntax(expressions, height), IsFiniteAnalysis
  PROVE  LoopSpec => /\ [](AnalysisLeft \in Nat)
                     /\ [][AnalysisLeft' < AnalysisLeft]_loopVars
<1>1. EvaluationIsMonotone
  BY MoreFromMore
<1>2. IInv => AnalysisLeft \in Nat
  BY <1>1, MeasureType DEF MeasureIsSound
<1>3. IInv /\ IInv' /\ [LoopNext]_loopVars => [AnalysisLeft' < AnalysisLeft]_loopVars
  BY <1>1, StepAdvances
<1>4. LoopSpec => []IInv
  BY <1>1, Inductive
<1>5. LoopSpec => [](AnalysisLeft \in Nat)
  BY <1>2, <1>4, PTL
<1>6. LoopSpec => [][AnalysisLeft' < AnalysisLeft]_loopVars
  BY <1>3, <1>4, PTL DEF LoopSpec
<1> QED BY <1>5, <1>6
=============================================================================
