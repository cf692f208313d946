---------------------------- MODULE BindingLoop ----------------------------
(***************************************************************************)
(* The loop of _Bindings.__init__ in                                       *)
(* backend/app/validators/security_validator.py: facts in order, then      *)
(* calls in order, again and again until a round changes nothing.          *)
(* SecurityBindings gives the trees, by walking Python's syntax.           *)
(***************************************************************************)
EXTENDS SecurityOrigins

CONSTANTS
    Trees,        \* what a walk may collect: [places, seeds, facts, calls, functions, parents, ...]
    Solution(_)   \* the bindings a tree should end with

VARIABLES
    tree,      \* what the walk collected
    bindings,  \* of every place the origins found so far
    pc,        \* "facts", "calls", "arguments", "reporting", "done", "RuntimeError"
    at,        \* index of the next fact or call
    callees,   \* functions of the current call not yet supplied
    changed    \* a binding grew in this round

loopVars == <<tree, bindings, pc, at, callees, changed>>

\* What imports and definitions give a name. An import is as long as it is
\* written (lines 105-116).
Imported(t) == {s[2] : s \in t.seeds}

Seeded(t) == [p \in t.places |-> {s[2] : s \in {u \in t.seeds : u[1] = p}}]

Callees(site, t, env) == {o \in Origins(site.call.func, site.at, t, env) : IsFunction(o, t)}

Begin ==
    /\ bindings = Seeded(tree)
    /\ pc = "facts"
    /\ at = 1
    /\ callees = {}
    /\ changed = FALSE

LoopInit == tree \in Trees /\ Begin

ApplyFact ==
    /\ pc = "facts" /\ at <= Len(tree.facts)
    /\ LET fact == tree.facts[at]
       IN bindings' = [bindings EXCEPT ![fact.place] = @ \cup Origins(fact.value, fact.at, tree, bindings)]
    /\ changed' = (changed \/ bindings' # bindings)
    /\ at' = at + 1
    /\ UNCHANGED <<tree, pc, callees>>

FactsApplied ==
    /\ pc = "facts" /\ at > Len(tree.facts)
    /\ pc' = "calls"
    /\ at' = 1
    /\ UNCHANGED <<tree, bindings, callees, changed>>

\* Origins of the callee that are functions, in an order of the set's own.
BeginCall ==
    /\ pc = "calls" /\ at <= Len(tree.calls)
    /\ callees' = Callees(tree.calls[at], tree, bindings)
    /\ pc' = "arguments"
    /\ UNCHANGED <<tree, bindings, at, changed>>

\* One callee's parameters. If that enlarges the very set whose elements
\* are the callees, the iteration over it fails.
SupplyArguments ==
    /\ pc = "arguments"
    /\ LET site   == tree.calls[at]
           shared == Shared(site.call.func, site.at, tree, bindings)
       IN \E callee \in callees :
             /\ bindings' = Supply(site, callee, tree, bindings)
             /\ callees' = callees \ {callee}
             /\ pc' = IF shared \in tree.places /\ bindings'[shared] # bindings[shared] THEN "RuntimeError" ELSE pc
    /\ changed' = (changed \/ bindings' # bindings)
    /\ UNCHANGED <<tree, at>>

EndCall ==
    /\ pc = "arguments" /\ callees = {}
    /\ pc' = "calls"
    /\ at' = at + 1
    /\ UNCHANGED <<tree, bindings, callees, changed>>

EndRound_KeepsChanged ==                                             \* mutant
    /\ pc = "calls" /\ at > Len(tree.calls)
    /\ pc' = IF changed THEN "facts" ELSE "reporting"
    /\ at' = 1
    /\ UNCHANGED <<tree, bindings, callees, changed>>

EndRound ==
    /\ pc = "calls" /\ at > Len(tree.calls)
    /\ pc' = IF changed THEN "facts" ELSE "reporting"
    /\ changed' = FALSE
    /\ at' = 1
    /\ UNCHANGED <<tree, bindings, callees>>

\* What was found is read.
Read ==
    /\ pc = "reporting"
    /\ pc' = "done"
    /\ UNCHANGED <<tree, bindings, at, callees, changed>>

LoopNext == ApplyFact \/ FactsApplied \/ BeginCall \/ SupplyArguments \/ EndCall \/ EndRound \/ Read

LoopSpec == LoopInit /\ [][LoopNext]_loopVars

-----------------------------------------------------------------------------
(* Environments, and those that nothing enlarges.                          *)

AllOrigins(t) == ShortOrigins \cup Imported(t)

Environments(t) == [t.places -> SUBSET AllOrigins(t)]

Below(small, large) == \A p \in DOMAIN small : small[p] \subseteq large[p]

IsClosed(t, env) ==
    /\ Below(Seeded(t), env)
    /\ \A f \in Range(t.facts) : Origins(f.value, f.at, t, env) \subseteq env[f.place]
    /\ \A site \in Range(t.calls) : \A callee \in Callees(site, t, env) :
          Supply(site, callee, t, env) = env

IsLeastClosed(t, env) ==
    /\ env \in Environments(t) /\ IsClosed(t, env)
    /\ \A other \in Environments(t) : IsClosed(t, other) => Below(env, other)

-----------------------------------------------------------------------------
(* What the loop relies on: lists are lists, and expressions are built of  *)
(* smaller ones.                                                           *)

FunctionsOf(t) == {o \in AllOrigins(t) : IsFunction(o, t)}

TreesAreWhole ==
    \A t \in Trees :
        /\ t.facts \in Seq(Range(t.facts)) /\ t.calls \in Seq(Range(t.calls))
        /\ \A f \in Range(t.facts) : f.place \in t.places
        /\ Imported(t) \subseteq Seq(Identifiers) \ {<<>>}

IsSyntax(expressions, height) ==
    \A e \in expressions :
        /\ e.op = "name" => e.id \in Identifiers
        /\ e.op = "attr" => e.attr \in Identifiers
        /\ e.op = "lambda" => e.tag \in Identifiers
        /\ \A part \in Reads(e) : part \in expressions /\ height[part] < height[e]

TreesAreSyntax(expressions) ==
    \A t \in Trees :
        /\ \A f \in Range(t.facts) : f.value \in expressions
        /\ \A site \in Range(t.calls) :
              /\ site.call.func \in expressions
              /\ site.call.args \in Seq(expressions)
              /\ site.call.keywords \in Seq(Identifiers \X expressions)
        /\ \A tag \in DOMAIN t.functions : Place(tag, <<"$return">>) \in t.places

-----------------------------------------------------------------------------
(* Properties.                                                             *)

\* "Origins have bounded depth to terminate cycles" (lines 64-67): no
\* assignment cycle makes a dotted name longer than the limit (246-249).
\* What is longer was imported so, and is not extended.
TypeOK ==
    /\ pc \in {"facts", "calls", "arguments", "reporting", "done", "RuntimeError"}
    /\ bindings \in Environments(tree)
    /\ \A p \in tree.places : \A o \in bindings[p] : Len(o) > MaxDots + 1 => o \in Imported(tree)

\* What is reported on is the least fixed point, whatever the order of
\* statements, calls and set elements (lines 79-98).
FixedPointReached == pc \in {"reporting", "done"} => bindings = Solution(tree)
=============================================================================
