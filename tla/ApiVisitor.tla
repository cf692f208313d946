----------------------------- MODULE ApiVisitor -----------------------------
(***************************************************************************)
(* What a generated strategy may do with self, its position and its        *)
(* trades: ApiVisitor of backend/app/validators/strategy_contract.py, and  *)
(* what the statements it accepts touch when they run.  The strategy's     *)
(* class is a listing: its statements in the order of the text, where a    *)
(* loop or a function opens a block that an End closes.  Of a statement    *)
(* only the paths count (a name and the attributes after it) with the role *)
(* each has in it.  The visitor knows the strategy as self; a class may    *)
(* also write super(), the name of the class, or another name for a        *)
(* method's first parameter, and those paths start at an OtherSelves.      *)
(***************************************************************************)
EXTENDS Integers, Sequences

CONSTANTS
    Private,     \* the names with a leading underscore
    OtherSelves  \* what besides self the strategy is reached by

\* A condition of if, while and the like is a use in the role "test".
Use(role, path)    == [kind |-> "use", role |-> role, path |-> path]
Set(target, value) == [kind |-> "set", target |-> target, value |-> value]
Each(target, iter) == [kind |-> "each", target |-> target, iter |-> iter]
Function(name)     == [kind |-> "function", name |-> name]
End                == [kind |-> "end"]

Names == STRING \ {""}
Paths == Seq(Names) \ {<<>>}

ASSUME NamesAssumption ==
    /\ Private \subseteq Names
    /\ OtherSelves \subseteq Names \ {"self"}

\* "call" has no argument, "args" has some.
Statements ==
    [kind : {"use"}, role : {"load", "test", "call", "args", "del"}, path : Paths]
        \cup [kind : {"set"}, target : Paths, value : Paths]
        \cup [kind : {"each"}, target : Paths, iter : Paths]
        \cup [kind : {"function"}, name : Names] \cup {End}

Position == <<"self", "position">>
Trades   == <<"self", "trades">>

PROTECTED_STRATEGY_MEMBERS ==
    {"data", "position", "trades", "closed_trades", "orders", "buy", "sell", "I"}

Reserved == PROTECTED_STRATEGY_MEMBERS \cup {"next", "init"}

\* for t in self.trades
NamesTrade(s) == s.kind = "each" /\ s.iter = Trades /\ Len(s.target) = 1

-----------------------------------------------------------------------------
(* What the visitor finds in one statement. v is its state: the names that *)
(* stand for a trade here, all that do somewhere, and the function.        *)

Storing == {"store", "target", "del"}

When(condition, finding) == IF condition THEN {finding} ELSE {}

LostTrade_Never(name, v) == FALSE                                    \* mutant

\* A name of some loop's trade, outside the loop.
LostTrade(name, v) == name \in v.names \ v.trades

\* visit_Name, for the name a path starts with; visit_ClassDef, for a name
\* bound by the class body itself.
NameFindings(path, role, v) ==
    LET name  == Head(path)
        alone == Len(path) = 1
    IN When(\/ name = "self" /\ alone
            \/ LostTrade(name, v)
            \/ name \in v.trades /\ alone /\ role # "target"
            \/ name = "GeneratedStrategy" /\ alone /\ role \in Storing
            \/ name \in Reserved /\ alone /\ role \in Storing /\ v.function = "",
            "unsupported_object_access")

UpTo(path, m) == [i \in 1..m |-> path[i]]

\* visit_Attribute, for one attribute of a path: the path up to it, its role
\* and the attribute that follows ("" for none).
AttributeFindings(path, role, following, v) ==
    LET attr == path[Len(path)]
        ofTrade == Len(path) = 2 /\ path[1] \in v.trades
    IN When(\/ role \in Storing /\ attr \in Reserved
            \/ attr \in Private
            \/ path \in {<<"self", "closed_trades">>, <<"self", "orders">>}
            \/ attr \in {"position", "trades"} /\ path \notin {Position, Trades}
            \/ path = Position /\ following # "close" /\ role # "test"
            \/ path = Trades /\ role # "iter",
            "unsupported_object_access")
       \cup When(\/ attr \in {"entry_price", "sl"} /\ ~ofTrade
                 \/ ofTrade /\ \/ attr \notin {"entry_price", "sl"}
                               \/ role = "del" \/ (attr = "entry_price" /\ role \in Storing)
                               \/ role \in {"call", "args"},
                 "invalid_trade_attribute")
       \cup When(path = <<"self", "sell">>, "long_only_exit")
       \cup When(/\ Len(path) > 2 /\ UpTo(path, 2) = Position
                 /\ ~(path = Append(Position, "close") /\ role = "call"),
                 "invalid_position_attribute")

PathFindings(path, role, v) ==
    NameFindings(path, role, v) \cup
    UNION {AttributeFindings(UpTo(path, m), IF m = Len(path) THEN role ELSE "value",
                             IF m = Len(path) THEN "" ELSE path[m + 1], v) : m \in 2..Len(path)}

\* visit_For and visit_FunctionDef: what the block is visited with.
Inside(s, v) ==
    CASE NamesTrade(s) -> [v EXCEPT !.trades = @ \cup {s.target[1]}]
      [] s.kind = "function" -> [v EXCEPT !.trades = {}, !.function = s.name]
      [] OTHER -> v

Hooks == {"__init__", "__getattr__", "__getattribute__", "__setattr__", "GeneratedStrategy"}

StatementFindings(s, v) ==
    CASE s.kind = "use" -> PathFindings(s.path, s.role, v)
      [] s.kind = "set" -> PathFindings(s.target, "store", v) \cup PathFindings(s.value, "load", v)
      [] s.kind = "each" ->
            When(NamesTrade(s) /\ v.function # "next", "unsupported_object_access")
            \cup PathFindings(s.target, IF s.iter = Trades THEN "target" ELSE "store", Inside(s, v))
            \cup PathFindings(s.iter, "iter", Inside(s, v))
      [] s.kind = "function" ->
            When(s.name \in PROTECTED_STRATEGY_MEMBERS \cup Hooks, "unsupported_object_access")
      [] OTHER -> {}

TradeNames(listing) == {listing[i].target[1] : i \in {j \in DOMAIN listing : NamesTrade(listing[j])}}

-----------------------------------------------------------------------------
(* What a statement touches when it runs: env says what kind of object the *)
(* paths assigned so far hold; a touch is an attribute of such an object,  *)
(* or the object itself (attr = ""), with the role.                        *)

\* A name: what it was last bound to, or else the strategy itself.
Root(path, env) ==
    CASE path \in DOMAIN env -> env[path]
      [] path \notin DOMAIN env /\ path = <<"self">> -> "Strategy"
      [] path \notin DOMAIN env /\ Len(path) = 1 /\ path[1] \in OtherSelves -> "Other"
      [] OTHER -> "plain"

\* closed_trades and orders list what is no open trade.
Member(kind, attr) ==
    IF kind \notin {"Strategy", "Other"} THEN "plain"
    ELSE CASE attr = "position" -> "Position"
           [] attr = "trades" -> "Trades"
           [] attr \in {"closed_trades", "orders"} -> "Past"
           [] OTHER -> "plain"

Kind(path, env) ==
    IF path \in DOMAIN env \/ Len(path) = 1 THEN Root(path, env)
    ELSE Member(Root(UpTo(path, Len(path) - 1), env), path[Len(path)])

ElementOf(kind) ==
    CASE kind = "Trades" -> "Trade"
      [] kind = "Past" -> "Record"
      [] OTHER -> "plain"

Touches(path, role, env) ==
    {[of |-> Kind(UpTo(path, m), env), attr |-> path[m + 1],
      role |-> IF m + 1 = Len(path) THEN role ELSE "load"] : m \in 1..(Len(path) - 1)}
    \cup (IF role = "store" THEN {} ELSE {[of |-> Kind(path, env), attr |-> "", role |-> role]})

TouchesOf(s, env) ==
    CASE s.kind = "use" -> Touches(s.path, s.role, env)
      [] s.kind = "set" -> Touches(s.target, "store", env) \cup Touches(s.value, "load", env)
      [] s.kind = "each" -> Touches(s.target, "store", env) \cup Touches(s.iter, "iter", env)
      [] OTHER -> {}

Rebind(env, path, kind) == [p \in DOMAIN env \cup {path} |-> IF p = path THEN kind ELSE env[p]]

Rebound(s, env) ==
    CASE s.kind = "set" -> Rebind(env, s.target, Kind(s.value, env))
      [] s.kind = "each" -> Rebind(env, s.target, ElementOf(Kind(s.iter, env)))
      [] OTHER -> env

-----------------------------------------------------------------------------
VARIABLES
    code,      \* the listing
    at,        \* the statement the visitor is at
    visitor,   \* trades, names, function
    saved,     \* what it restores at the end of each open block
    findings,
    holds,     \* what the strategy's paths hold when it runs
    touches    \* what the last statement it ran touched

visit   == <<at, visitor, saved, findings>>
run     == <<holds, touches>>
apiVars == <<code, visit, run>>

IsListing(listing) == listing \in Seq(Statements)

\* ApiVisitor.__init__
VisitBegins ==
    /\ at = 1
    /\ visitor = [trades |-> {}, names |-> TradeNames(code), function |-> ""]
    /\ saved = <<>>
    /\ findings = {}
    /\ holds = <<>>
    /\ touches = {}

ApiInit == IsListing(code) /\ VisitBegins

Visited == at > Len(code)

Advance == ~Visited /\ at' = at + 1 /\ UNCHANGED <<code, run>>

VisitStatement ==
    /\ Advance /\ code[at].kind \in {"use", "set"}
    /\ findings' = findings \cup StatementFindings(code[at], visitor)
    /\ UNCHANGED <<visitor, saved>>

EnterBlock ==
    /\ Advance /\ code[at].kind \in {"each", "function"}
    /\ findings' = findings \cup StatementFindings(code[at], visitor)
    /\ visitor' = Inside(code[at], visitor)
    /\ saved' = Append(saved, visitor)

LeaveBlock ==
    /\ Advance /\ code[at].kind = "end" /\ saved # <<>>
    /\ visitor' = saved[Len(saved)]
    /\ saved' = SubSeq(saved, 1, Len(saved) - 1)
    /\ UNCHANGED findings

Visit == VisitStatement \/ EnterBlock \/ LeaveBlock

\* The strategy runs a statement: any, so that every order, branch, number of
\* turns of a loop and call of a function is covered.
RunStatement ==
    /\ Visited /\ findings = {}
    /\ \E i \in DOMAIN code :
          /\ code[i].kind \in {"use", "set", "each"}
          /\ touches' = TouchesOf(code[i], holds)
          /\ holds' = Rebound(code[i], holds)
    /\ UNCHANGED <<code, visit>>

ApiNext == Visit \/ RunStatement

ApiSpec == ApiInit /\ [][ApiNext]_apiVars

-----------------------------------------------------------------------------
\* Loops over the trades bind names: an attribute bound by such a loop (for
\* self.t in self.trades) is not followed by the visitor.
BindsNames == \A i \in DOMAIN code : code[i].kind = "each" /\ code[i].iter = Trades => NamesTrade(code[i])

PathsOf(s) ==
    CASE s.kind = "use" -> {s.path}
      [] s.kind = "set" -> {s.target, s.value}
      [] s.kind = "each" -> {s.target, s.iter}
      [] OTHER -> {}

\* The class reaches the strategy by self alone.
KeepsToSelf == \A i \in DOMAIN code : \A path \in PathsOf(code[i]) : Head(path) \notin OtherSelves

\* The API of the contract (MESSAGES, prompt_builder.py:27-42). By another
\* name of the strategy the visitor protects less: sell, closed_trades,
\* orders and the strategy itself pass (super().sell() is accepted).
Supported(touch, byOtherName) ==
    CASE touch.of = "plain" -> TRUE
      [] touch.of = "Position" ->
            \/ touch.attr = "close" /\ touch.role = "call"
            \/ touch.attr = "" /\ touch.role = "test"
      [] touch.of = "Trades" -> touch.attr = "" /\ touch.role = "iter"
      [] touch.of = "Trade" ->
            \/ touch.attr = "entry_price" /\ touch.role \in {"load", "test", "iter"}
            \/ touch.attr = "sl" /\ touch.role \in {"load", "test", "iter", "store"}
      [] touch.of = "Strategy" ->
            /\ touch.attr \notin {"", "sell", "closed_trades", "orders"} \cup Private
            /\ touch.role \in Storing => touch.attr \notin PROTECTED_STRATEGY_MEMBERS
      [] touch.of \in {"Other", "Past", "Record"} ->
            /\ byOtherName
            /\ touch.attr \notin {"position", "trades"} \cup Private
            /\ touch.role \in Storing => touch.attr \notin PROTECTED_STRATEGY_MEMBERS

\* A strategy that is accepted and binds its trades to names touches, when it
\* runs, only what the contract offers of Position, open Trades and self,
\* through whatever loops, aliases and inner functions (ApiVisitor, lines
\* 70-161). Of the rest of the strategy it touches something, such as sell,
\* closed_trades or orders, only if the class names the strategy otherwise.
AcceptedUsesApi == BindsNames => \A touch \in touches : Supported(touch, ~KeepsToSelf)
=============================================================================
