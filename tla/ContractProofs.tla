--------------------------- MODULE ContractProofs ---------------------------
(***************************************************************************)
(* Proofs about the strategy contract.  For every listing of a class,      *)
(* whatever loops, aliases and inner functions it has, and in whatever     *)
(* order its statements run, one without a finding keeps to the contract's *)
(* API: no accepted statement binds a path to one of the objects, but for  *)
(* the loops over self.trades; and a loop's name is accepted only in such  *)
(* a loop, where only its two attributes may follow it.  And for runs of   *)
(* any length, a strategy proved to set its stop right on every single bar *)
(* keeps the stop the prompt asked for: scaling is monotone, so the stop   *)
(* below the highest price so far is the highest stop so far.              *)
(***************************************************************************)
EXTENDS TrailingStop, SequenceTheorems, FiniteSetTheorems, TLAPS

Roles == {"load", "test", "call", "args", "del", "store", "target", "iter"}

\* A state of the visitor of a class with these trade names.
Visitors(names) == [trades : SUBSET names, names : {names}, function : Names \cup {""}]

\* What only a class that names the strategy otherwise gets hold of.
Elsewhere == {"Other", "Past", "Record"}

\* What the paths of a running strategy without findings may hold; other says
\* whether its class names the strategy otherwise than self.
Sound(env, names, other) ==
    /\ <<"self">> \notin DOMAIN env
    /\ \A p \in DOMAIN env :
          \/ env[p] = "plain"
          \/ env[p] = "Trade" /\ Len(p) = 1 /\ p[1] \in names
          \/ env[p] \in Elsewhere /\ other

Named(path, other) == path[1] \in OtherSelves => other

-----------------------------------------------------------------------------
(* Paths.                                                                  *)

LEMMA PathFacts ==
    ASSUME NEW path \in Paths
    PROVE  /\ Len(path) \in Nat \ {0}
           /\ \A i \in 1..Len(path) : path[i] \in Names
           /\ path[1] \in Names /\ Head(path) = path[1]
<1>1. path \in Seq(Names) /\ path # <<>>
  BY DEF Paths
<1>2. Len(path) \in Nat /\ Len(path) # 0
  BY <1>1, EmptySeq, LenProperties
<1> QED
  BY <1>1, <1>2, ElementOfSeq, HeadTailProperties

LEMMA UpToFacts ==
    ASSUME NEW path \in Paths, NEW m \in 1..Len(path)
    PROVE  /\ UpTo(path, m) \in Paths /\ Len(UpTo(path, m)) = m
           /\ \A i \in 1..m : UpTo(path, m)[i] = path[i]
<1>1. Len(path) \in Nat /\ \A i \in 1..Len(path) : path[i] \in Names
  BY PathFacts
<1>2. m \in Nat /\ m # 0
  BY <1>1
<1>3. UpTo(path, m) \in [1..m -> Names]
  BY <1>1 DEF UpTo
<1>4. UpTo(path, m) \in Seq(Names)
  BY <1>2, <1>3, IsASeq, SMT
<1>5. DOMAIN UpTo(path, m) = 1..m
  BY DEF UpTo
<1>6. Len(UpTo(path, m)) = m
  BY <1>2, <1>4, <1>5, LenProperties, SMT
<1> QED
  BY <1>2, <1>4, <1>6, EmptySeq DEF Paths, UpTo

LEMMA OneName ==
    ASSUME NEW path \in Paths
    PROVE  (Len(path) = 1 /\ path[1] = "self") <=> path = <<"self">>
<1>1. path \in Seq(Names)
  BY DEF Paths
<1>2. ASSUME Len(path) = 1, path[1] = "self" PROVE path = <<"self">>
  BY <1>1, <1>2, SMT
<1> QED
  BY <1>2, SMT

LEMMA LastNames ==
    /\ Len(Position) = 2 /\ Position[Len(Position)] = "position" /\ Position[1] = "self"
    /\ Len(Trades) = 2 /\ Trades[Len(Trades)] = "trades" /\ Trades[1] = "self"
  BY DEF Position, Trades

LEMMA TwoNames ==
    ASSUME NEW path \in Paths, NEW name
    PROVE  (Len(path) = 2 /\ path[1] = "self" /\ path[2] = name) <=> path = <<"self", name>>
<1>1. path \in Seq(Names)
  BY DEF Paths
<1>2. ASSUME Len(path) = 2, path[1] = "self", path[2] = name PROVE path = <<"self", name>>
  BY <1>1, <1>2, SMT
<1> QED
  BY <1>2, SMT

-----------------------------------------------------------------------------
(* What a path holds.                                                      *)

\* What a path may hold, by its form.
Held(path, kind, names, other) ==
    \/ kind = "plain"
    \/ kind = "Trade" /\ Len(path) = 1 /\ path[1] \in names
    \/ kind = "Strategy" /\ path = <<"self">>
    \/ kind = "Position" /\ Len(path) > 1 /\ path[Len(path)] = "position"
    \/ kind = "Trades" /\ Len(path) > 1 /\ path[Len(path)] = "trades"
    \/ kind = "Past" /\ path \in {<<"self", "closed_trades">>, <<"self", "orders">>}
    \/ kind \in Elsewhere /\ other /\ path # <<"self">>

LEMMA RootOfSelf ==
    ASSUME NEW env, <<"self">> \notin DOMAIN env
    PROVE  Root(<<"self">>, env) = "Strategy"
<1>1. "self" \notin OtherSelves
  BY NamesAssumption DEF NamesAssumption
<1> QED
  BY <1>1 DEF Root

LEMMA RootOf ==
    ASSUME NEW path \in Paths, NEW env, NEW names, NEW other, Sound(env, names, other),
           Named(path, other)
    PROVE  \/ Root(path, env) \in {"plain", "Trade"}
           \/ Root(path, env) = "Strategy" /\ path = <<"self">>
           \/ Root(path, env) \in Elsewhere /\ other
<1>1. CASE path \in DOMAIN env
  BY <1>1 DEF Root, Sound
<1>2. CASE path \notin DOMAIN env /\ path = <<"self">>
  BY <1>2, RootOfSelf
<1>3. CASE path \notin DOMAIN env /\ path # <<"self">>
  BY <1>3 DEF Root, Named, Elsewhere
<1> QED
  BY <1>1, <1>2, <1>3

LEMMA KindOf ==
    ASSUME NEW path \in Paths, NEW env, NEW names, NEW other, Sound(env, names, other),
           Named(path, other)
    PROVE  Held(path, Kind(path, env), names, other)
<1> DEFINE owner == UpTo(path, Len(path) - 1)
           attr  == path[Len(path)]
<1>1. CASE path \in DOMAIN env
  <2>1. Kind(path, env) = env[path]
    BY <1>1 DEF Kind, Root
  <2> QED
    BY <1>1, <2>1 DEF Sound, Held
<1>2. CASE path \notin DOMAIN env /\ Len(path) = 1
  <2>1. Kind(path, env) = Root(path, env)
    BY <1>2 DEF Kind
  <2>2. CASE path = <<"self">>
    BY <1>2, <2>1, <2>2, RootOfSelf DEF Held
  <2>3. CASE path # <<"self">>
    BY <1>2, <2>1, <2>3 DEF Root, Held, Named, Elsewhere
  <2> QED
    BY <2>2, <2>3
<1>3. CASE path \notin DOMAIN env /\ Len(path) # 1
  <2>0. Len(path) \in Nat \ {0} /\ Len(path) # 1
    BY <1>3, PathFacts
  <2>1. Len(path) \in Nat /\ Len(path) > 1 /\ Len(path) - 1 \in 1..Len(path)
    <3>1. \A n \in Nat \ {0} : n # 1 => n > 1 /\ n - 1 \in 1..n
      OBVIOUS
    <3> QED
      BY <2>0, <3>1, Zenon
  <2>2. owner \in Paths /\ Len(owner) = Len(path) - 1 /\ owner[1] = path[1]
    BY <2>1, UpToFacts, SMT
  <2>3. Named(owner, other)
    BY <2>2 DEF Named
  <2>4. \/ Root(owner, env) \in {"plain", "Trade"}
        \/ Root(owner, env) = "Strategy" /\ owner = <<"self">>
        \/ Root(owner, env) \in Elsewhere /\ other
    BY <2>2, <2>3, RootOf
  <2>5. Kind(path, env) = Member(Root(owner, env), attr)
    BY <1>3 DEF Kind
  <2>6. path # <<"self">>
    BY <1>3
  <2>7. CASE Root(owner, env) = "Strategy" /\ owner = <<"self">>
    <3>1. Len(owner) = 1 /\ owner[1] = "self"
      BY <2>2, <2>7, OneName
    <3>2. \A n \in Nat : n - 1 = 1 => n = 2
      OBVIOUS
    <3>3. Len(path) = 2 /\ path[1] = "self"
      BY <2>0, <2>2, <3>1, <3>2, Zenon
    <3>4. path = <<"self", attr>>
      BY <3>3, TwoNames
    <3> HIDE DEF attr, owner
    <3> QED
      BY <2>1, <2>5, <2>7, <3>4 DEF Member, Held, attr
  <2>8. CASE Root(owner, env) \in Elsewhere /\ other
    BY <2>1, <2>5, <2>6, <2>8 DEF Member, Held, Elsewhere
  <2>9. CASE Root(owner, env) \in {"plain", "Trade"}
    BY <2>5, <2>9 DEF Member, Held
  <2> QED
    BY <2>4, <2>7, <2>8, <2>9
<1> QED
  BY <1>1, <1>2, <1>3

-----------------------------------------------------------------------------
(* What a path without findings is like.                                   *)

LEMMA NoNameFinding ==
    ASSUME NEW path \in Paths, NEW role, NEW v, PathFindings(path, role, v) = {}
    PROVE  /\ ~(path[1] = "self" /\ Len(path) = 1)
           /\ path[1] \notin v.names \ v.trades
           /\ path[1] \in v.trades /\ Len(path) = 1 => role = "target"
<1>1. NameFindings(path, role, v) = {}
  BY DEF PathFindings
<1>2. Head(path) = path[1]
  BY PathFacts
<1> QED
  BY <1>1, <1>2 DEF NameFindings, When, LostTrade

LEMMA NoAttributeFinding ==
    ASSUME NEW path \in Paths, NEW role, NEW v, PathFindings(path, role, v) = {},
           NEW m \in 2..Len(path)
    PROVE  AttributeFindings(UpTo(path, m), IF m = Len(path) THEN role ELSE "value",
                             IF m = Len(path) THEN "" ELSE path[m + 1], v) = {}
  BY DEF PathFindings

Clean(path, role, following, v) ==
    /\ role \in Storing => path[Len(path)] \notin Reserved
    /\ path[Len(path)] \notin Private
    /\ path \notin {<<"self", "closed_trades">>, <<"self", "orders">>, <<"self", "sell">>}
    /\ path[Len(path)] \in {"position", "trades"} => path \in {Position, Trades}
    /\ path = Position => following = "close" \/ role = "test"
    /\ path = Trades => role = "iter"
    /\ Len(path) = 2 /\ path[1] \in v.trades =>
         /\ path[2] \in {"entry_price", "sl"}
         /\ role \notin {"del", "call", "args"}
         /\ path[2] = "entry_price" => role \notin Storing
    /\ Len(path) > 2 /\ UpTo(path, 2) = Position =>
         path = Append(Position, "close") /\ role = "call"

LEMMA AttributeRules ==
    ASSUME NEW path \in Paths, NEW role, NEW following, NEW v,
           AttributeFindings(path, role, following, v) = {}
    PROVE  Clean(path, role, following, v)
  BY DEF AttributeFindings, When, Clean

LEMMA WholePath == ASSUME NEW path \in Paths PROVE UpTo(path, Len(path)) = path
<1>1. path \in Seq(Names)
  BY DEF Paths
<1>2. path = [i \in 1..Len(path) |-> path[i]]
  BY <1>1
<1> QED
  BY <1>2 DEF UpTo

As(path, role, m) == IF m = Len(path) THEN role ELSE "value"

\* The rules, for the path up to its attribute m.
Rules(path, role, v, m) ==
    /\ As(path, role, m) \in Storing => path[m] \notin Reserved
    /\ path[m] \notin Private
    /\ UpTo(path, m) \notin {<<"self", "closed_trades">>, <<"self", "orders">>, <<"self", "sell">>}
    /\ path[m] \in {"position", "trades"} => UpTo(path, m) \in {Position, Trades}
    /\ UpTo(path, m) = Position =>
          As(path, role, m) = "test" \/ (m < Len(path) /\ path[m + 1] = "close")
    /\ UpTo(path, m) = Trades => As(path, role, m) = "iter"
    /\ m = 2 /\ path[1] \in v.trades =>
         /\ path[2] \in {"entry_price", "sl"}
         /\ As(path, role, m) \notin {"del", "call", "args"}
         /\ path[2] = "entry_price" => As(path, role, m) \notin Storing
    /\ m > 2 /\ UpTo(UpTo(path, m), 2) = Position =>
         UpTo(path, m) = Append(Position, "close") /\ As(path, role, m) = "call"

LEMMA RulesAt ==
    ASSUME NEW path \in Paths, NEW role, NEW v, PathFindings(path, role, v) = {},
           NEW m \in 2..Len(path)
    PROVE  Rules(path, role, v, m)
<1> DEFINE q    == UpTo(path, m)
           as   == As(path, role, m)
           next == IF m = Len(path) THEN "" ELSE path[m + 1]
<1>1. Len(path) \in Nat /\ m \in 1..Len(path) /\ m \in Nat /\ m > 1
  BY PathFacts
<1>2. q \in Paths /\ Len(q) = m /\ q[m] = path[m] /\ q[1] = path[1] /\ (m = 2 => q[2] = path[2])
  BY <1>1, UpToFacts
<1>3. AttributeFindings(q, as, next, v) = {}
  BY NoAttributeFinding DEF As
<1>4. next = "close" => m < Len(path) /\ path[m + 1] = "close"
  BY <1>1
<1> HIDE DEF q, as, next
<1>5. Clean(q, as, next, v)
  BY <1>2, <1>3, AttributeRules
<1>6. /\ as \in Storing => path[m] \notin Reserved
      /\ path[m] \notin Private
      /\ q \notin {<<"self", "closed_trades">>, <<"self", "orders">>, <<"self", "sell">>}
      /\ path[m] \in {"position", "trades"} => q \in {Position, Trades}
      /\ q = Position => as = "test" \/ (m < Len(path) /\ path[m + 1] = "close")
      /\ q = Trades => as = "iter"
  BY <1>2, <1>4, <1>5 DEF Clean
<1>7. m = 2 /\ path[1] \in v.trades =>
        /\ path[2] \in {"entry_price", "sl"}
        /\ as \notin {"del", "call", "args"}
        /\ path[2] = "entry_price" => as \notin Storing
  BY <1>2, <1>5 DEF Clean
<1>8. m > 2 /\ UpTo(q, 2) = Position => q = Append(Position, "close") /\ as = "call"
  BY <1>2, <1>5 DEF Clean
<1> QED
  BY <1>6, <1>7, <1>8, Zenon DEF q, as, Rules

-----------------------------------------------------------------------------
(* What a path without findings touches.                                   *)

LEMMA TouchedAt ==
    ASSUME NEW path \in Paths, NEW role \in Roles \ {"target"}, NEW v, v.trades \subseteq v.names,
           NEW env, NEW other, Sound(env, v.names, other), Named(path, other),
           PathFindings(path, role, v) = {}, NEW m \in 1..(Len(path) - 1)
    PROVE  Supported([of |-> Kind(UpTo(path, m), env), attr |-> path[m + 1],
                      role |-> IF m + 1 = Len(path) THEN role ELSE "load"], other)
<1> DEFINE q  == UpTo(path, m)
           as == IF m + 1 = Len(path) THEN role ELSE "load"
           touch == [of |-> Kind(q, env), attr |-> path[m + 1], role |-> as]
<1>1. Len(path) \in Nat /\ m \in 1..Len(path) /\ m + 1 \in 2..Len(path)
  BY PathFacts
<1>2. q \in Paths /\ Len(q) = m /\ \A i \in 1..m : q[i] = path[i]
  BY <1>1, UpToFacts
<1>3. path[m + 1] \in Names
  BY <1>1, PathFacts
<1>4. touch.of = Kind(q, env) /\ touch.attr = path[m + 1] /\ touch.role = as
  OBVIOUS
<1> HIDE DEF q, as, touch
<1> SUFFICES Supported(touch, other)
  BY DEF q, as, touch
<1>5. CASE Kind(q, env) = "plain"
  BY <1>4, <1>5 DEF Supported
<1>6. CASE Kind(q, env) = "Trade" /\ Len(q) = 1 /\ q[1] \in v.names
  <2>1. m = 1 /\ m + 1 = 2 /\ path[1] \in v.names
    BY <1>2, <1>6
  <2>2. path[1] \in v.trades
    BY <2>1, NoNameFinding
  <2> DEFINE full == As(path, role, 2)
  <2>3. /\ path[2] \in {"entry_price", "sl"}
        /\ full \notin {"del", "call", "args"}
        /\ path[2] = "entry_price" => full \notin Storing
    <3>1. 2 \in 2..Len(path)
      BY <1>1, <2>1
    <3>2. Rules(path, role, v, 2)
      BY <3>1, RulesAt
    <3> QED
      BY <2>2, <3>2 DEF Rules
  <2>4. /\ as \in {"load", "test", "iter", "store"}
        /\ path[2] = "entry_price" => as \in {"load", "test", "iter"}
    <3>1. as = full \/ (as = "load" /\ full = "value")
      BY <2>1 DEF as, As
    <3> HIDE DEF full
    <3>2. as \in Roles \ {"target"}
      BY DEF as, Roles
    <3> QED
      BY <2>3, <3>1, <3>2 DEF Roles, Storing
  <2> QED
    <3>1. touch.of = "Trade" /\ touch.attr = path[2] /\ touch.role = as
      BY <1>4, <1>6, <2>1
    <3> QED
      BY <2>3, <2>4, <3>1 DEF Supported
<1>7. CASE Kind(q, env) = "Strategy" /\ q = <<"self">>
  <2>1. m = 1 /\ m + 1 = 2 /\ path[1] = "self"
    BY <1>2, <1>7, OneName
  <2> DEFINE full == As(path, role, 2)
             two  == UpTo(path, 2)
  <2>2. 2 \in 2..Len(path) /\ 2 \in 1..Len(path)
    BY <1>1, <2>1
  <2>3. two = <<"self", path[2]>>
    <3>1. two \in Paths /\ Len(two) = 2 /\ \A i \in 1..2 : two[i] = path[i]
      BY <2>2, UpToFacts
    <3> HIDE DEF two
    <3>2. two[1] = "self" /\ two[2] = path[2]
      BY <2>1, <3>1
    <3> QED
      BY <3>1, <3>2, TwoNames
  <2>4. /\ full \in Storing => path[2] \notin Reserved
        /\ path[2] \notin Private
        /\ two \notin {<<"self", "closed_trades">>, <<"self", "orders">>, <<"self", "sell">>}
    <3>1. Rules(path, role, v, 2)
      BY <2>2, RulesAt
    <3> QED
      BY <3>1 DEF Rules
  <2>5. path[2] \notin {"closed_trades", "orders", "sell"}
    BY <2>3, <2>4
  <2>6. path[2] # ""
    BY <1>3, <2>1 DEF Names
  <2>7. as \in Storing => path[2] \notin PROTECTED_STRATEGY_MEMBERS
    <3>1. as = full \/ as = "load"
      BY <2>1 DEF as, As
    <3> QED
      BY <2>4, <3>1 DEF Storing, Reserved
  <2> QED
    <3>1. touch.of = "Strategy" /\ touch.attr = path[2] /\ touch.role = as
      BY <1>4, <1>7, <2>1
    <3> QED
      BY <2>4, <2>5, <2>6, <2>7, <3>1 DEF Supported
<1>8. CASE Kind(q, env) = "Position" /\ q = Position
  <2>1. m = 2 /\ m + 1 = 3 /\ path[1] = "self" /\ path[2] = "position"
    BY <1>2, <1>8, TwoNames DEF Position
  <2> DEFINE full  == As(path, role, 3)
             three == UpTo(path, 3)
  <2>2. 3 \in 2..Len(path) /\ 3 \in 1..Len(path)
    BY <1>1, <2>1
  <2>3. /\ three \in Paths /\ Len(three) = 3
        /\ three[1] = "self" /\ three[2] = "position" /\ three[3] = path[3]
    <3>1. three \in Paths /\ Len(three) = 3 /\ \A i \in 1..3 : three[i] = path[i]
      BY <2>2, UpToFacts
    <3> HIDE DEF three
    <3> QED
      BY <2>1, <3>1
  <2>4. UpTo(three, 2) = Position
    <3>1. UpTo(three, 2) \in Paths /\ Len(UpTo(three, 2)) = 2
          /\ UpTo(three, 2)[1] = "self" /\ UpTo(three, 2)[2] = "position"
      <4> HIDE DEF three
      <4>1. 2 \in 1..Len(three)
        BY <2>3
      <4>2. UpTo(three, 2) \in Paths /\ Len(UpTo(three, 2)) = 2
            /\ \A i \in 1..2 : UpTo(three, 2)[i] = three[i]
        BY <2>3, <4>1, UpToFacts
      <4> QED
        BY <2>3, <4>2
    <3> QED
      BY <3>1, TwoNames DEF Position
  <2>5. three = Append(Position, "close") /\ full = "call"
    <3>1. Rules(path, role, v, 3)
      BY <2>2, RulesAt
    <3> QED
      BY <2>4, <3>1 DEF Rules
  <2>6. path[3] = "close"
    BY <2>3, <2>5 DEF Position
  <2>7. as = "call"
    BY <2>1, <2>5 DEF as, As
  <2>8. touch.of = "Position" /\ touch.attr = "close" /\ touch.role = "call"
    BY <1>4, <1>8, <2>1, <2>6, <2>7
  <2> QED
    BY <2>8 DEF Supported
<1>9. CASE q \in {<<"self", "closed_trades">>, <<"self", "orders">>} \cup {Trades}
  <2>1. m = 2
    <3>1. \E name : q = <<"self", name>>
      BY <1>9 DEF Trades
    <3> QED
      BY <1>2, <3>1, TwoNames
  <2>2. 2 \in 2..Len(path) /\ 2 # Len(path)
    BY <1>1, <2>1
  <2> DEFINE full == As(path, role, 2)
             two  == UpTo(path, 2)
  <2>3. /\ two \notin {<<"self", "closed_trades">>, <<"self", "orders">>, <<"self", "sell">>}
        /\ two = Trades => full = "iter"
    <3>1. Rules(path, role, v, 2)
      BY <2>2, RulesAt
    <3> QED
      BY <3>1 DEF Rules
  <2>4. full # "iter"
    BY <2>2 DEF As
  <2> QED
    BY <1>9, <2>1, <2>3, <2>4 DEF q
<1>10. CASE Kind(q, env) \in Elsewhere /\ other /\ q # <<"self">>
  <2>1. Rules(path, role, v, m + 1)
    BY <1>1, RulesAt
  <2> DEFINE longer == UpTo(path, m + 1)
             full   == As(path, role, m + 1)
  <2>2. /\ full \in Storing => path[m + 1] \notin Reserved
        /\ path[m + 1] \notin Private
        /\ path[m + 1] \in {"position", "trades"} => longer \in {Position, Trades}
    BY <2>1 DEF Rules
  <2>3. longer \in Paths /\ Len(longer) = m + 1 /\ \A i \in 1..(m + 1) : longer[i] = path[i]
    BY <1>1, UpToFacts
  <2>4. longer \notin {Position, Trades}
    <3> SUFFICES ASSUME longer \in {Position, Trades} PROVE FALSE
      OBVIOUS
    <3> HIDE DEF longer
    <3>1. Len(longer) = 2 /\ longer[1] = "self"
      BY LastNames
    <3>2. m = 1 /\ path[1] = "self"
      <4>1. m \in Nat /\ 1 \in 1..(m + 1)
        BY <1>1
      <4>2. m + 1 = 2 /\ longer[1] = path[1]
        BY <2>3, <3>1, <4>1
      <4> QED
        BY <3>1, <4>1, <4>2
    <3>3. q = <<"self">>
      BY <1>2, <3>2, OneName
    <3> QED
      BY <1>10, <3>3
  <2>5. path[m + 1] \notin {"position", "trades"} \cup Private
    BY <2>2, <2>4
  <2>6. as \in Storing => path[m + 1] \notin PROTECTED_STRATEGY_MEMBERS
    <3>1. as = full \/ as = "load"
      BY DEF as, As
    <3> QED
      BY <2>2, <3>1 DEF Storing, Reserved
  <2>7. touch.of \in Elsewhere /\ touch.attr = path[m + 1] /\ touch.role = as
    BY <1>4, <1>10
  <2> QED
    BY <1>10, <2>5, <2>6, <2>7 DEF Supported, Elsewhere
<1>11. ASSUME Len(q) > 1, q[Len(q)] \in {"position", "trades"}
       PROVE  q \in {Position, Trades} /\ (q = Position <=> q[Len(q)] = "position")
  <2>1. m \in 2..Len(path) /\ q[Len(q)] = path[m]
    BY <1>1, <1>2, <1>11
  <2>2. Rules(path, role, v, m)
    BY <2>1, RulesAt
  <2>3. q \in {Position, Trades}
    BY <1>11, <2>1, <2>2 DEF Rules, q
  <2> QED
    BY <2>3, LastNames
<1>12. Held(q, Kind(q, env), v.names, other)
  <2>1. Named(q, other)
    BY <1>2 DEF Named
  <2> QED
    BY <1>2, <2>1, KindOf
<1>13. CASE Kind(q, env) = "Position" /\ Len(q) > 1 /\ q[Len(q)] = "position"
  BY <1>8, <1>11, <1>13
<1>14. CASE Kind(q, env) = "Trades" /\ Len(q) > 1 /\ q[Len(q)] = "trades"
  BY <1>9, <1>11, <1>14
<1> QED
  BY <1>5, <1>6, <1>7, <1>9, <1>10, <1>12, <1>13, <1>14 DEF Held

\* Used as a whole, such a path is a condition on the position, the list of a
\* loop over the trades, or nothing the contract is about.
LEMMA WholeUse ==
    ASSUME NEW path \in Paths, NEW role \in Roles \ {"target"}, NEW v, v.trades \subseteq v.names,
           NEW env, NEW other, Sound(env, v.names, other), Named(path, other),
           PathFindings(path, role, v) = {}
    PROVE  \/ Kind(path, env) = "plain"
           \/ Kind(path, env) = "Position" /\ role = "test"
           \/ Kind(path, env) = "Trades" /\ path = Trades /\ role = "iter"
           \/ Kind(path, env) \in Elsewhere /\ other
<1>1. ~(path[1] = "self" /\ Len(path) = 1) /\ ~(path[1] \in v.names /\ Len(path) = 1)
  BY NoNameFinding
<1>2. ASSUME Len(path) = 2
      PROVE  /\ path \notin {<<"self", "closed_trades">>, <<"self", "orders">>}
             /\ path = Position => role = "test"
             /\ path = Trades => role = "iter"
  <2> DEFINE two == UpTo(path, 2)
             full == As(path, role, 2)
  <2>1. UpTo(path, Len(path)) = path
    BY WholePath
  <2>2. two = path /\ full = role /\ ~(2 < Len(path))
    BY <1>2, <2>1 DEF As
  <2>3. /\ two \notin {<<"self", "closed_trades">>, <<"self", "orders">>, <<"self", "sell">>}
        /\ two = Position => full = "test" \/ (2 < Len(path) /\ path[2 + 1] = "close")
        /\ two = Trades => full = "iter"
    <3>1. 2 \in 2..Len(path)
      BY <1>2
    <3>2. Rules(path, role, v, 2)
      BY <3>1, RulesAt
    <3> QED
      BY <3>2 DEF Rules
  <2> HIDE DEF two, full
  <2> QED
    BY <2>2, <2>3
<1>3. path \in {Position, Trades, <<"self", "closed_trades">>, <<"self", "orders">>} => Len(path) = 2
  BY DEF Position, Trades
<1>4. path = <<"self">> => path[1] = "self" /\ Len(path) = 1
  BY OneName
<1>5. ASSUME Len(path) > 1, path[Len(path)] \in {"position", "trades"}
      PROVE  path \in {Position, Trades} /\ (path = Position <=> path[Len(path)] = "position")
  <2>1. Len(path) \in 2..Len(path) /\ UpTo(path, Len(path)) = path
    BY <1>5, PathFacts, WholePath
  <2>2. Rules(path, role, v, Len(path))
    BY <2>1, RulesAt
  <2>3. path \in {Position, Trades}
    BY <1>5, <2>1, <2>2 DEF Rules
  <2> QED
    BY <2>3, LastNames
<1>6. Held(path, Kind(path, env), v.names, other)
  BY KindOf
<1> QED
  BY <1>1, <1>2, <1>3, <1>4, <1>5, <1>6 DEF Held

LEMMA PathSupported ==
    ASSUME NEW path \in Paths, NEW role \in Roles \ {"target"}, NEW v, v.trades \subseteq v.names,
           NEW env, NEW other, Sound(env, v.names, other), Named(path, other),
           PathFindings(path, role, v) = {}
    PROVE  \A touch \in Touches(path, role, env) : Supported(touch, other)
<1> SUFFICES ASSUME NEW touch \in Touches(path, role, env) PROVE Supported(touch, other)
  OBVIOUS
<1>1. CASE \E m \in 1..(Len(path) - 1) :
             touch = [of |-> Kind(UpTo(path, m), env), attr |-> path[m + 1],
                      role |-> IF m + 1 = Len(path) THEN role ELSE "load"]
  BY <1>1, TouchedAt
<1>2. CASE touch = [of |-> Kind(path, env), attr |-> "", role |-> role]
  <2>1. touch.of = Kind(path, env) /\ touch.attr = "" /\ touch.role = role
    BY <1>2
  <2>2. CASE Kind(path, env) = "plain"
    BY <2>1, <2>2 DEF Supported
  <2>3. CASE Kind(path, env) = "Position" /\ role = "test"
    BY <2>1, <2>3 DEF Supported
  <2>4. CASE Kind(path, env) = "Trades" /\ role = "iter"
    BY <2>1, <2>4 DEF Supported
  <2>5. CASE Kind(path, env) \in Elsewhere /\ other
    <3>1. touch.attr \notin {"position", "trades"} \cup Private \cup PROTECTED_STRATEGY_MEMBERS
      BY <2>1, NamesAssumption DEF NamesAssumption, Names, PROTECTED_STRATEGY_MEMBERS
    <3> QED
      BY <2>1, <2>5, <3>1 DEF Supported, Elsewhere
  <2> QED
    BY <2>2, <2>3, <2>4, <2>5, WholeUse
<1> QED
  BY <1>1, <1>2 DEF Touches

-----------------------------------------------------------------------------
(* Statements.                                                             *)

LEMMA StatementTypes ==
    ASSUME NEW s \in Statements
    PROVE  /\ s.kind = "use" => s.path \in Paths /\ s.role \in Roles \ {"target"}
           /\ s.kind = "set" => s.target \in Paths /\ s.value \in Paths
           /\ s.kind = "each" => s.target \in Paths /\ s.iter \in Paths
           /\ s.kind = "function" => s.name \in Names
           /\ s.kind \in {"use", "set", "each", "function", "end"}
<1>1. CASE s \in [kind : {"use"}, role : {"load", "test", "call", "args", "del"}, path : Paths]
  BY <1>1 DEF Roles
<1>2. CASE s \in [kind : {"set"}, target : Paths, value : Paths]
  BY <1>2
<1>3. CASE s \in [kind : {"each"}, target : Paths, iter : Paths]
  BY <1>3
<1>4. CASE s \in [kind : {"function"}, name : Names]
  BY <1>4
<1>5. CASE s = End
  BY <1>5 DEF End
<1> QED
  BY <1>1, <1>2, <1>3, <1>4, <1>5 DEF Statements

LEMMA InsideIsVisitor ==
    ASSUME NEW s \in Statements, NEW names, NEW v \in Visitors(names),
           NamesTrade(s) => s.target[1] \in names
    PROVE  Inside(s, v) \in Visitors(names)
<1>1. s.kind = "function" => s.name \in Names /\ ~NamesTrade(s)
  BY StatementTypes DEF NamesTrade
<1>2. CASE NamesTrade(s)
  <2>1. s.kind # "function"
    BY <1>2 DEF NamesTrade
  <2> QED
    BY <1>2, <2>1 DEF Inside, Visitors
<1>3. CASE s.kind = "function"
  BY <1>1, <1>3 DEF Inside, Visitors
<1>4. CASE ~NamesTrade(s) /\ s.kind # "function"
  BY <1>4 DEF Inside, Visitors
<1> QED
  BY <1>2, <1>3, <1>4

LEMMA RebindIsSound ==
    ASSUME NEW env, NEW names, NEW other, Sound(env, names, other), NEW path, NEW kind,
           path # <<"self">>,
           \/ kind = "plain"
           \/ kind = "Trade" /\ Len(path) = 1 /\ path[1] \in names
           \/ kind \in Elsewhere /\ other
    PROVE  Sound(Rebind(env, path, kind), names, other)
  BY DEF Sound, Rebind

\* A statement without a finding touches only the API, and binds no path to
\* an object but a loop's name to a trade, or what another name than self gave.
LEMMA StatementIsSafe ==
    ASSUME NEW s \in Statements, NEW names, NEW v \in Visitors(names), NEW env, NEW other,
           Sound(env, names, other), \A path \in PathsOf(s) : Named(path, other),
           StatementFindings(s, v) = {},
           s.kind = "each" /\ s.iter = Trades => NamesTrade(s),
           NamesTrade(s) => s.target[1] \in names
    PROVE  /\ \A touch \in TouchesOf(s, env) : Supported(touch, other)
           /\ Sound(Rebound(s, env), names, other)
<1>1. v.trades \subseteq v.names /\ v.names = names
  BY DEF Visitors
<1>2. CASE s.kind = "use"
  <2>1. s.path \in Paths /\ s.role \in Roles \ {"target"} /\ Named(s.path, other)
    BY <1>2, StatementTypes DEF PathsOf
  <2>2. PathFindings(s.path, s.role, v) = {}
    BY <1>2 DEF StatementFindings
  <2>3. \A touch \in Touches(s.path, s.role, env) : Supported(touch, other)
    BY <1>1, <2>1, <2>2, PathSupported
  <2> QED
    BY <1>2, <2>3 DEF TouchesOf, Rebound
<1>3. CASE s.kind = "set"
  <2>1. /\ s.target \in Paths /\ s.value \in Paths /\ {"store", "load"} \subseteq Roles \ {"target"}
        /\ Named(s.target, other) /\ Named(s.value, other)
    BY <1>3, StatementTypes DEF Roles, PathsOf
  <2>2. PathFindings(s.target, "store", v) = {} /\ PathFindings(s.value, "load", v) = {}
    BY <1>3 DEF StatementFindings
  <2>3. \A touch \in Touches(s.target, "store", env) : Supported(touch, other)
    BY <1>1, <2>1, <2>2, PathSupported
  <2>4. \A touch \in Touches(s.value, "load", env) : Supported(touch, other)
    BY <1>1, <2>1, <2>2, PathSupported
  <2>5. Kind(s.value, env) = "plain" \/ (Kind(s.value, env) \in Elsewhere /\ other)
    BY <1>1, <2>1, <2>2, WholeUse
  <2>6. s.target # <<"self">>
    BY <2>1, <2>2, NoNameFinding, OneName
  <2>7. Sound(Rebind(env, s.target, Kind(s.value, env)), names, other)
    BY <2>5, <2>6, RebindIsSound
  <2> QED
    BY <1>3, <2>3, <2>4, <2>7 DEF TouchesOf, Rebound
<1>4. CASE s.kind = "each"
  <2> DEFINE u    == Inside(s, v)
             role == IF s.iter = Trades THEN "target" ELSE "store"
             kind == ElementOf(Kind(s.iter, env))
  <2>1. /\ s.target \in Paths /\ s.iter \in Paths /\ {"store", "iter"} \subseteq Roles \ {"target"}
        /\ Named(s.target, other) /\ Named(s.iter, other)
    BY <1>4, StatementTypes DEF Roles, PathsOf
  <2>2. u \in Visitors(names)
    BY InsideIsVisitor
  <2>3. PathFindings(s.target, role, u) = {} /\ PathFindings(s.iter, "iter", u) = {}
    BY <1>4 DEF StatementFindings
  <2> HIDE DEF u
  <2>4. u.trades \subseteq u.names /\ u.names = names
    BY <2>2 DEF Visitors
  <2>5. \A touch \in Touches(s.iter, "iter", env) : Supported(touch, other)
    BY <2>1, <2>3, <2>4, PathSupported
  <2>6. \A touch \in Touches(s.target, "store", env) : Supported(touch, other)
    <3>1. CASE s.iter = Trades
      <4>1. Len(s.target) = 1
        BY <1>4, <3>1 DEF NamesTrade
      <4>2. Touches(s.target, "store", env) = {}
        BY <4>1 DEF Touches
      <4> QED
        BY <4>2
    <3>2. CASE s.iter # Trades
      <4>1. PathFindings(s.target, "store", u) = {}
        BY <2>3, <3>2
      <4> QED
        BY <2>1, <2>4, <4>1, PathSupported
    <3> QED
      BY <3>1, <3>2
  <2>7. s.target # <<"self">>
    BY <2>1, <2>3, NoNameFinding, OneName
  <2>8. \/ kind = "plain"
        \/ kind = "Trade" /\ Len(s.target) = 1 /\ s.target[1] \in names
        \/ kind \in Elsewhere /\ other
    <3>1. \/ Kind(s.iter, env) \in {"plain", "Position"}
          \/ Kind(s.iter, env) = "Trades" /\ s.iter = Trades
          \/ Kind(s.iter, env) \in Elsewhere /\ other
      BY <2>1, <2>3, <2>4, WholeUse
    <3>2. s.iter = Trades => Len(s.target) = 1 /\ s.target[1] \in names
      BY <1>4 DEF NamesTrade
    <3> QED
      BY <3>1, <3>2 DEF ElementOf, Elsewhere
  <2>9. Sound(Rebind(env, s.target, kind), names, other)
    BY <2>7, <2>8, RebindIsSound
  <2> QED
    BY <1>4, <2>5, <2>6, <2>9 DEF TouchesOf, Rebound
<1>5. CASE s.kind \in {"function", "end"}
  BY <1>5 DEF TouchesOf, Rebound
<1> QED
  BY <1>2, <1>3, <1>4, <1>5, StatementTypes

-----------------------------------------------------------------------------
(* The visit.                                                              *)

TypeOK ==
    /\ IsListing(code)
    /\ at \in Nat \ {0}
    /\ visitor \in Visitors(TradeNames(code))
    /\ saved \in Seq(Visitors(TradeNames(code)))

\* Every statement that was passed was looked at, in some state.
Examined ==
    \A i \in 1..(at - 1) :
        \E v \in Visitors(TradeNames(code)) : StatementFindings(code[i], v) \subseteq findings

RunIsSound == BindsNames => Sound(holds, TradeNames(code), ~KeepsToSelf)

ApiInv == TypeOK /\ Examined /\ RunIsSound /\ AcceptedUsesApi

LEMMA NamesOfLoops ==
    ASSUME NEW listing, IsListing(listing), NEW i \in 1..Len(listing), NamesTrade(listing[i])
    PROVE  listing[i].target[1] \in TradeNames(listing)
  BY DEF TradeNames, IsListing

LEMMA FirstIsVisitor ==
    ASSUME NEW names
    PROVE  [trades |-> {}, names |-> names, function |-> ""] \in Visitors(names)
  BY DEF Visitors

LEMMA InitHolds == ApiInit => ApiInv
<1> SUFFICES ASSUME ApiInit PROVE ApiInv
  OBVIOUS
<1>1. IsListing(code) /\ at = 1 /\ saved = <<>>
  BY DEF ApiInit, VisitBegins
<1>2. holds = <<>> /\ touches = {}
  BY DEF ApiInit, VisitBegins
<1>3. visitor \in Visitors(TradeNames(code))
  <2>1. visitor = [trades |-> {}, names |-> TradeNames(code), function |-> ""]
    BY DEF ApiInit, VisitBegins
  <2> QED
    BY <2>1, FirstIsVisitor
<1>4. TypeOK
  <2>1. at \in Nat \ {0}
    BY <1>1
  <2>2. saved \in Seq(Visitors(TradeNames(code)))
    BY <1>1, EmptySeq
  <2> QED
    BY <1>1, <1>3, <2>1, <2>2 DEF TypeOK
<1>5. Examined
  <2>1. 1..(at - 1) = {}
    BY <1>1
  <2> QED
    BY <2>1 DEF Examined
<1>6. DOMAIN holds = {}
  BY <1>2
<1>7. RunIsSound /\ AcceptedUsesApi
  BY <1>2, <1>6 DEF RunIsSound, Sound, AcceptedUsesApi
<1> QED
  BY <1>4, <1>5, <1>7 DEF ApiInv

LEMMA AdvanceExamines ==
    ASSUME TypeOK, Examined, at' = at + 1, code' = code,
           \E v \in Visitors(TradeNames(code)) : StatementFindings(code[at], v) \subseteq findings',
           findings \subseteq findings'
    PROVE  Examined'
<1> SUFFICES ASSUME NEW i \in 1..at
             PROVE  \E v \in Visitors(TradeNames(code)) : StatementFindings(code[i], v) \subseteq findings'
  BY DEF Examined, TypeOK
<1>1. CASE i = at
  BY <1>1
<1>2. CASE i \in 1..(at - 1)
  BY <1>2 DEF Examined
<1> QED
  BY <1>1, <1>2 DEF TypeOK

LEMMA VisitKeepsInvariant ==
    ASSUME ApiInv, Visit
    PROVE  ApiInv'
<1> DEFINE V == Visitors(TradeNames(code))
<1>1. /\ IsListing(code) /\ at \in Nat \ {0} /\ visitor \in V /\ saved \in Seq(V)
      /\ Examined /\ RunIsSound /\ AcceptedUsesApi
  BY DEF ApiInv, TypeOK
<1>2. /\ at <= Len(code) /\ at' = at + 1
      /\ code' = code /\ holds' = holds /\ touches' = touches
  <2>1. Advance
    BY DEF Visit, VisitStatement, EnterBlock, LeaveBlock
  <2>2. Len(code) \in Nat
    BY <1>1, LenProperties DEF IsListing
  <2> QED
    BY <1>1, <2>1, <2>2 DEF Advance, Visited, run
<1>3. at \in 1..Len(code) /\ code[at] \in Statements
  BY <1>1, <1>2 DEF IsListing
<1>4. visitor' \in V /\ saved' \in Seq(V)
  <2>1. CASE VisitStatement
    BY <1>1, <2>1 DEF VisitStatement
  <2>2. CASE EnterBlock
    <3>1. Inside(code[at], visitor) \in V
      BY <1>1, <1>3, NamesOfLoops, InsideIsVisitor
    <3> HIDE DEF V
    <3> QED
      BY <1>1, <2>2, <3>1 DEF EnterBlock
  <2>3. CASE LeaveBlock
    <3> HIDE DEF V
    <3>1. Len(saved) \in Nat /\ Len(saved) # 0
      BY <1>1, <2>3, EmptySeq, LenProperties DEF LeaveBlock
    <3>2. saved[Len(saved)] \in V
      BY <1>1, <3>1, ElementOfSeq
    <3>3. SubSeq(saved, 1, Len(saved) - 1) \in Seq(V)
      BY <1>1, <3>1
    <3> QED
      BY <2>3, <3>2, <3>3 DEF LeaveBlock
  <2> QED
    BY <2>1, <2>2, <2>3 DEF Visit
<1>5. /\ findings \subseteq findings'
      /\ \E v \in V : StatementFindings(code[at], v) \subseteq findings'
  <2>1. CASE VisitStatement \/ EnterBlock
    <3>1. findings' = findings \cup StatementFindings(code[at], visitor)
      BY <2>1 DEF VisitStatement, EnterBlock
    <3> QED
      BY <1>1, <3>1
  <2>2. CASE LeaveBlock
    <3>1. code[at].kind = "end" /\ findings' = findings
      BY <2>2 DEF LeaveBlock
    <3>2. StatementFindings(code[at], visitor) = {}
      BY <3>1 DEF StatementFindings
    <3> QED
      BY <1>1, <3>1, <3>2
  <2> QED
    BY <2>1, <2>2 DEF Visit
<1>6. TypeOK'
  BY <1>1, <1>2, <1>4 DEF TypeOK
<1>7. Examined'
  BY <1>1, <1>2, <1>5, AdvanceExamines DEF TypeOK
<1>8. RunIsSound' /\ AcceptedUsesApi'
  BY <1>1, <1>2 DEF RunIsSound, AcceptedUsesApi, BindsNames, KeepsToSelf
<1> QED
  BY <1>6, <1>7, <1>8 DEF ApiInv

LEMMA RunKeepsInvariant ==
    ASSUME ApiInv, RunStatement
    PROVE  ApiInv'
<1>1. IsListing(code) /\ at \in Nat /\ Examined /\ RunIsSound
  BY DEF ApiInv, TypeOK
<1>2. at > Len(code) /\ findings = {} /\ UNCHANGED <<code, at, visitor, saved, findings>>
  BY DEF RunStatement, Visited, visit
<1>3. PICK i \in DOMAIN code : touches' = TouchesOf(code[i], holds) /\ holds' = Rebound(code[i], holds)
  BY DEF RunStatement
<1>4. i \in 1..Len(code) /\ i \in 1..(at - 1) /\ code[i] \in Statements
  BY <1>1, <1>2 DEF IsListing
<1>5. PICK v \in Visitors(TradeNames(code)) : StatementFindings(code[i], v) = {}
  BY <1>1, <1>2, <1>4 DEF Examined
<1>6. ASSUME BindsNames
      PROVE  /\ \A touch \in TouchesOf(code[i], holds) : Supported(touch, ~KeepsToSelf)
             /\ Sound(Rebound(code[i], holds), TradeNames(code), ~KeepsToSelf)
  <2>1. Sound(holds, TradeNames(code), ~KeepsToSelf)
    BY <1>1, <1>6 DEF RunIsSound
  <2>2. code[i].kind = "each" /\ code[i].iter = Trades => NamesTrade(code[i])
    BY <1>6 DEF BindsNames
  <2>3. NamesTrade(code[i]) => code[i].target[1] \in TradeNames(code)
    BY <1>1, <1>4, NamesOfLoops
  <2>4. \A path \in PathsOf(code[i]) : Named(path, ~KeepsToSelf)
    <3>1. \A path \in PathsOf(code[i]) : Head(path) = path[1]
      BY <1>4, StatementTypes, PathFacts DEF PathsOf
    <3> QED
      BY <3>1 DEF KeepsToSelf, Named
  <2> QED
    BY <1>4, <1>5, <2>1, <2>2, <2>3, <2>4, StatementIsSafe
<1>7. RunIsSound' /\ AcceptedUsesApi'
  BY <1>2, <1>3, <1>6 DEF RunIsSound, AcceptedUsesApi, BindsNames, KeepsToSelf
<1>8. TypeOK' /\ Examined'
  BY <1>2 DEF ApiInv, TypeOK, Examined
<1> QED
  BY <1>7, <1>8 DEF ApiInv

\* Whatever a class does, what it touches when it runs without a finding is
\* the API of the contract (ApiVisitor, lines 70-161).
THEOREM AcceptedKeepsToApi == ApiSpec => []AcceptedUsesApi
<1>1. ApiInit => ApiInv
  BY InitHolds
<1>2. ApiInv /\ [ApiNext]_apiVars => ApiInv'
  <2> SUFFICES ASSUME ApiInv, [ApiNext]_apiVars PROVE ApiInv'
    OBVIOUS
  <2>1. CASE Visit
    BY <2>1, VisitKeepsInvariant
  <2>2. CASE RunStatement
    BY <2>2, RunKeepsInvariant
  <2>3. CASE UNCHANGED apiVars
    BY <2>3 DEF apiVars, visit, run, ApiInv, TypeOK, Examined, RunIsSound, AcceptedUsesApi, BindsNames, KeepsToSelf
  <2> QED
    BY <2>1, <2>2, <2>3 DEF ApiNext
<1>3. ApiInv => AcceptedUsesApi
  BY DEF ApiInv
<1> QED
  BY <1>1, <1>2, <1>3, PTL DEF ApiSpec

-----------------------------------------------------------------------------
(* Stops.                                                                  *)

LEMMA ScaledIsMonotone ==
    ASSUME NEW low \in Nat, NEW high \in Nat, low <= high, NEW p \in 1..(Scale - 1)
    PROVE  /\ Below(low, p) \in Nat /\ Below(high, p) \in Nat
           /\ Below(low, p) <= Below(high, p)
<1>1. PICK n \in Nat : n = Scale - p
  BY DEF Scale
<1>2. PICK d \in Nat : high = low + d
  BY SMT
<1>3. low * n \in Nat /\ d * n \in Nat /\ high * n = low * n + d * n
  BY <1>1, <1>2, SMT
<1>4. \A a \in Nat : a \div 10 \in Nat
  BY SMT
<1>5. \A a, b \in Nat : a \div 10 <= (a + b) \div 10
  BY SMT
<1>6. (low * n) \div 10 \in Nat /\ (low * n) \div 10 <= (low * n + d * n) \div 10
  BY <1>3, <1>4, <1>5
<1>7. (low * n + d * n) \div 10 \in Nat
  BY <1>3, <1>4
<1> QED
  BY <1>1, <1>3, <1>6, <1>7 DEF Below, Scale

LEMMA GreatestIs ==
    ASSUME NEW values, NEW v \in values, values \subseteq Int, \A w \in values : w <= v
    PROVE  Greatest(values) = v
<1>1. v \in values /\ \A w \in values : v >= w
  OBVIOUS
<1>2. Greatest(values) \in values /\ \A w \in values : Greatest(values) >= w
  BY <1>1, Zenon DEF Greatest
<1>3. Greatest(values) >= v /\ Greatest(values) <= v
  BY <1>1, <1>2, Zenon
<1>4. Greatest(values) \in Int /\ v \in Int
  BY <1>2
<1> QED
  BY <1>3, <1>4

LEMMA OnlyPercentage ==
    ASSUME NEW c, FractionOf(c) # None, NEW p \in c.percentages
    PROVE  p = FractionOf(c) /\ p \in 1..(Scale - 1)
<1> DEFINE asked == c.percentages
<1>1. Cardinality(asked) = 1 /\ asked \subseteq 1..(Scale - 1)
  BY Zenon DEF FractionOf
<1>2. IsFiniteSet(asked)
  <2>1. IsFiniteSet(1..(Scale - 1))
    <3>1. Scale - 1 = 9 /\ 1 \in Int /\ 9 \in Int
      BY DEF Scale
    <3>2. IsFiniteSet(1..9)
      BY <3>1, FS_Interval, Zenon
    <3> QED
      BY <3>1, <3>2
  <2> QED
    BY <1>1, <2>1, FS_Subset, Zenon
<1>3. PICK x : asked = {x}
  BY <1>1, <1>2, FS_Singleton
<1>4. FractionOf(c) \in asked
  BY <1>1, <1>3, Zenon DEF FractionOf
<1> QED
  BY <1>1, <1>3, <1>4

LEMMA AskedPercentage ==
    ASSUME NEW c, FractionOf(c) # None
    PROVE  FractionOf(c) \in 1..(Scale - 1)
<1>1. Cardinality(c.percentages) = 1 /\ c.percentages \subseteq 1..(Scale - 1)
  BY Zenon DEF FractionOf
<1>2. c.percentages # {}
  BY <1>1, FS_EmptySet
<1> QED
  BY <1>2, OnlyPercentage

-----------------------------------------------------------------------------
(* The trade since its first bar.                                          *)

\* The prices the open trade was at: its entry's and the highs since.
Reached == {entry} \cup {highs[i] : i \in first..Len(highs)}

\* The open trade has no stop before its first bar, and afterwards the one
\* below the highest price it reached.
StopTrails ==
    IF first > Len(highs) THEN sl = None
    ELSE \E peak \in Reached : sl = Below(peak, Percent) /\ \A price \in Reached : price <= peak

StopInv ==
    /\ program \in Programs
    /\ prompt \in Prompts
    /\ open \in BOOLEAN
    /\ highs \in Seq(Prices)
    /\ phase = "received" => ~open
    /\ open => entry \in Prices /\ first \in 1..(Len(highs) + 1)
    /\ phase = "accepted" /\ prompt.trailing =>
          /\ Percent # None /\ Proven(program, Percent)
          /\ open => StopTrails

\* One bar with the program raises a stop below the price old to the one
\* below the higher of old and the bar's high.
RaisesStop(q, p, old, stop, price, series, taken) ==
    LET result == StopAfter(q, TRUE, stop, price, series, taken)
        high   == series[Len(series)]
    IN result # Raised => result = Below(IF high <= old THEN old ELSE high, p)

LEMMA BarRaisesStop ==
    ASSUME NEW q, NEW p \in 1..(Scale - 1), NEW stop, NEW price \in Prices,
           NEW series \in Seq(Prices) \ {<<>>}, NEW taken \in BOOLEAN,
           SetsStop(q, p, Nat \cup {None}, Seq(Prices) \ {<<>>}),
           NEW old \in Nat, price <= old, stop = Below(old, p) \/ (stop = None /\ old = price)
    PROVE  RaisesStop(q, p, old, stop, price, series, taken)
<1> SUFFICES ASSUME StopAfter(q, TRUE, stop, price, series, taken) # Raised
             PROVE  LET high == series[Len(series)]
                    IN StopAfter(q, TRUE, stop, price, series, taken) =
                         Below(IF high <= old THEN old ELSE high, p)
  BY DEF RaisesStop
<1> DEFINE high == series[Len(series)]
           peak == IF high <= old THEN old ELSE high
<1>1. high \in Prices
  <2>1. Len(series) \in Nat /\ Len(series) # 0
    BY EmptySeq, LenProperties
  <2> QED
    BY <2>1, ElementOfSeq
<1>2. high \in Nat /\ price \in Nat /\ old \in Nat
  BY <1>1, PricesAssumption
<1>3. /\ Below(price, p) \in Nat /\ Below(old, p) \in Nat /\ Below(high, p) \in Nat
      /\ Below(price, p) <= Below(old, p)
      /\ high <= old => Below(high, p) <= Below(old, p)
      /\ old <= high => Below(old, p) <= Below(high, p)
  <2>1. \A a, b \in Nat : a <= b => /\ Below(a, p) \in Nat /\ Below(b, p) \in Nat
                                   /\ Below(a, p) <= Below(b, p)
    BY ScaledIsMonotone
  <2>2. high <= old \/ old <= high
    BY <1>2
  <2> HIDE DEF high
  <2> QED
    BY <1>2, <2>1, <2>2
<1> HIDE DEF high
<1>4. None \notin Int
  BY NoNumberAssumption
<1>5. stop \in Nat \cup {None}
  BY <1>3
<1>6. Kept(stop, price, p) = Below(old, p)
  <2>1. CASE stop = None
    BY <2>1, <1>3, <1>4 DEF Kept
  <2>2. CASE stop = Below(old, p)
    BY <2>2, <1>3, <1>4 DEF Kept
  <2> QED
    BY <2>1, <2>2
<1>7. StopAfter(q, TRUE, stop, price, series, taken) = Greatest(Candidates(stop, price, series, p))
  BY <1>5 DEF SetsStop
<1>8. Candidates(stop, price, series, p) = {Below(old, p), Below(high, p)}
  BY <1>6, Zenon DEF Candidates, high
<1>9. Greatest({Below(old, p), Below(high, p)}) = Below(peak, p)
  <2> DEFINE values == {Below(old, p), Below(high, p)}
  <2>1. values \subseteq Int /\ Below(peak, p) \in values
    BY <1>3
  <2>2. \A w \in values : w <= Below(peak, p)
    <3>1. CASE high <= old
      BY <1>3, <3>1
    <3>2. CASE ~(high <= old)
      BY <1>2, <1>3, <3>2
    <3> QED
      BY <3>1, <3>2
  <2> HIDE DEF values
  <2>3. Greatest(values) = Below(peak, p)
    BY <2>1, <2>2, GreatestIs
  <2> QED
    BY <2>3 DEF values
<1> QED
  BY <1>7, <1>8, <1>9 DEF high

LEMMA BarKeepsTrailing ==
    ASSUME StopInv, Bar, open, phase = "accepted", phase' = "accepted", prompt.trailing,
           ProofsSetStops(Nat \cup {None}, Seq(Prices) \ {<<>>})
    PROVE  StopTrails'
<1> DEFINE p == Percent
           n == Len(highs)
<1>1. /\ program \in Programs /\ prompt \in Prompts /\ highs \in Seq(Prices)
      /\ entry \in Prices /\ first \in 1..(n + 1)
      /\ p # None /\ Proven(program, p) /\ StopTrails
  BY DEF StopInv
<1>2. p \in 1..(Scale - 1) /\ SetsStop(program, p, Nat \cup {None}, Seq(Prices) \ {<<>>})
  BY <1>1, AskedPercentage, Zenon DEF Percent, ProofsSetStops
<1>3. PICK high \in Prices, taken \in BOOLEAN :
          /\ highs' = Append(highs, high)
          /\ LET stop == StopAfter(program, open, sl, entry, highs', taken)
             IN IF stop = Raised
                THEN phase' = "failed" /\ UNCHANGED sl
                ELSE sl' = stop /\ UNCHANGED phase
  BY DEF Bar
<1>4. /\ sl' = StopAfter(program, TRUE, sl, entry, highs', taken)
      /\ StopAfter(program, TRUE, sl, entry, highs', taken) # Raised
  <2>1. open = TRUE
    BY DEF StopInv
  <2> QED
    BY <1>3, <2>1
<1>5. n \in Nat /\ first \in Nat \ {0} /\ entry \in Nat /\ high \in Nat
  BY <1>1, PricesAssumption, LenProperties
<1>6. /\ highs' \in Seq(Prices) \ {<<>>} /\ Len(highs') = n + 1 /\ highs'[n + 1] = high
      /\ \A i \in 1..n : highs'[i] = highs[i]
  BY <1>1, <1>3, AppendProperties
<1>7. UNCHANGED <<program, prompt, open, entry, first>>
  BY DEF Bar, request
<1>8. Reached' = Reached \cup {high} /\ ~(first' > Len(highs'))
  <2>1. first..(n + 1) = (first..n) \cup {n + 1}
    BY <1>1, <1>5
  <2>2. {highs'[i] : i \in first..(n + 1)} = {highs'[i] : i \in first..n} \cup {highs'[n + 1]}
    BY <2>1
  <2>3. {highs'[i] : i \in first..n} = {highs[i] : i \in first..n}
    <3>1. \A i \in first..n : i \in 1..n
      BY <1>5
    <3> QED
      BY <1>6, <3>1
  <2>4. Reached' = {entry} \cup {highs'[i] : i \in first..(n + 1)}
    BY <1>6, <1>7 DEF Reached
  <2> QED
    BY <1>1, <1>5, <1>6, <1>7, <2>2, <2>3, <2>4 DEF Reached
<1>9. PICK old \in Reached :
          (sl = Below(old, p) \/ (sl = None /\ old = entry)) /\ \A price \in Reached : price <= old
  <2>1. CASE first > n
    <3>1. first..n = {}
      BY <1>5, <2>1
    <3>2. Reached = {entry}
      BY <3>1 DEF Reached
    <3>3. sl = None
      BY <1>1, <2>1 DEF StopTrails
    <3> QED
      BY <1>5, <3>2, <3>3
  <2>2. CASE ~(first > n)
    BY <1>1, <2>2 DEF StopTrails
  <2> QED
    BY <2>1, <2>2
<1>10. Reached \subseteq Nat /\ entry \in Reached
  <2>1. \A i \in first..n : highs[i] \in Prices
    BY <1>1, <1>5, ElementOfSeq
  <2> QED
    BY <1>5, <2>1, PricesAssumption DEF Reached
<1> DEFINE peak == IF high <= old THEN old ELSE high
<1>11. sl' = Below(peak, p)
  <2>1. old \in Nat /\ entry <= old /\ entry \in Prices
    BY <1>1, <1>9, <1>10
  <2>2. highs'[Len(highs')] = high
    BY <1>6
  <2> HIDE DEF p
  <2>3. RaisesStop(program, p, old, sl, entry, highs', taken)
    BY <1>2, <1>6, <1>9, <2>1, BarRaisesStop
  <2> QED
    BY <1>4, <2>2, <2>3 DEF RaisesStop
<1>12. peak \in Reached' /\ \A price \in Reached' : price <= peak
  BY <1>5, <1>8, <1>9, <1>10
<1>13. Percent' = Percent
  BY <1>7 DEF Percent
<1> HIDE DEF peak
<1> QED
  BY <1>8, <1>11, <1>12, <1>13 DEF StopTrails

\* A bar leaves a run where it was, or ends it.
LEMMA BarFacts ==
    ASSUME StopInv, Bar
    PROVE  /\ phase = "accepted" /\ phase' \in {"accepted", "failed"}
           /\ UNCHANGED <<program, prompt, open, entry, first>>
           /\ highs' \in Seq(Prices) /\ Len(highs') = Len(highs) + 1
<1>1. highs \in Seq(Prices)
  BY DEF StopInv
<1>2. PICK high \in Prices : highs' = Append(highs, high)
  BY DEF Bar
<1>3. phase = "accepted" /\ phase' \in {"accepted", "failed"}
  BY DEF Bar
<1> QED
  BY <1>1, <1>2, <1>3, AppendProperties DEF Bar, request

LEMMA StopInvKept ==
    ASSUME StopInv, [Next]_vars, ProofsSetStops(Nat \cup {None}, Seq(Prices) \ {<<>>})
    PROVE  StopInv'
<1> DEFINE Requested == phase = "accepted" /\ prompt.trailing
<1>1. CASE Visiting \/ Running \/ UNCHANGED vars
  <2>1. UNCHANGED <<program, prompt, phase, open, sl, entry, highs, first>>
    BY <1>1 DEF Visiting, Running, vars, request, market
  <2> QED
    BY <2>1 DEF StopInv, StopTrails, Reached, Percent
<1>2. CASE AnalyzeContract
  <2>1. phase = "received" /\ UNCHANGED <<program, prompt, open, sl, entry, highs, first>>
    BY <1>2 DEF AnalyzeContract, request, market
  <2>2. phase' # "received" /\ ~open'
    BY <1>2, <2>1 DEF AnalyzeContract, StopInv
  <2>3. phase' = "accepted" /\ prompt.trailing => Percent # None /\ Proven(program, Percent)
    BY <1>2 DEF AnalyzeContract
  <2> QED
    BY <2>1, <2>2, <2>3 DEF StopInv, Percent
<1>3. CASE OpenTrade
  <2>1. /\ UNCHANGED <<program, prompt, phase, highs>> /\ phase = "accepted"
        /\ entry' \in Prices /\ open' = TRUE /\ sl' = None /\ first' = Len(highs) + 1
    BY <1>3 DEF OpenTrade, request
  <2>2. Len(highs) \in Nat
    BY LenProperties DEF StopInv
  <2>3. first' > Len(highs') /\ first' \in 1..(Len(highs') + 1)
    BY <2>1, <2>2
  <2>4. StopTrails'
    BY <2>1, <2>3 DEF StopTrails
  <2> QED
    BY <2>1, <2>3, <2>4 DEF StopInv, Percent
<1>4. CASE CloseTrade
  <2>1. UNCHANGED <<program, prompt, phase, highs>> /\ phase = "accepted" /\ open' = FALSE
    BY <1>4 DEF CloseTrade, request
  <2> QED
    BY <2>1 DEF StopInv, Percent
<1>5. CASE Bar
  <2>1. /\ phase = "accepted" /\ phase' \in {"accepted", "failed"}
        /\ UNCHANGED <<program, prompt, open, entry, first>>
        /\ highs' \in Seq(Prices) /\ Len(highs') = Len(highs) + 1
    BY <1>5, BarFacts
  <2>2. open => first' \in 1..(Len(highs') + 1)
    <3>1. Len(highs) \in Nat
      BY LenProperties DEF StopInv
    <3> QED
      BY <2>1, <3>1 DEF StopInv
  <2>3. phase' = "accepted" /\ prompt.trailing /\ open => StopTrails'
    BY <1>5, <2>1, BarKeepsTrailing
  <2> QED
    BY <2>1, <2>2, <2>3 DEF StopInv, Percent
<1> QED
  BY <1>1, <1>2, <1>3, <1>4, <1>5 DEF Next

LEMMA StopTrailsIsRequested == StopInv => StopIsRequested
<1> SUFFICES ASSUME StopInv, phase = "accepted", prompt.trailing, open, first <= Len(highs),
                    NEW p \in prompt.percentages
             PROVE  sl = (Greatest(Reached) * (Scale - p)) \div Scale
  BY DEF StopIsRequested, Reached
<1>1. Percent # None /\ StopTrails /\ entry \in Prices /\ first \in 1..(Len(highs) + 1)
      /\ highs \in Seq(Prices)
  BY DEF StopInv
<1>2. p = Percent
  BY <1>1, OnlyPercentage DEF Percent
<1>3. ~(first > Len(highs))
  BY <1>1, LenProperties
<1>4. PICK peak \in Reached : sl = Below(peak, Percent) /\ \A price \in Reached : price <= peak
  BY <1>1, <1>3 DEF StopTrails
<1>5. Reached \subseteq Int
  <2>1. \A i \in first..Len(highs) : highs[i] \in Prices
    BY <1>1, LenProperties, ElementOfSeq
  <2>2. Reached \subseteq Prices
    BY <1>1, <2>1 DEF Reached
  <2>3. Prices \subseteq Int
    BY PricesAssumption
  <2> QED
    BY <2>2, <2>3
<1>6. Greatest(Reached) = peak
  BY <1>4, <1>5, GreatestIs
<1> QED
  BY <1>2, <1>4, <1>6 DEF Below

\* Whatever the prices and however many bars and trades there are, a strategy
\* accepted for a trailing stop keeps it at the asked distance below the
\* highest price of the trade (trailing_proven, lines 252-339), if what is
\* proved of a program says what one bar with it does to the stop.
THEOREM AcceptedStopTrails ==
    ASSUME ProofsSetStops(Nat \cup {None}, Seq(Prices) \ {<<>>})
    PROVE  Spec => []StopIsRequested
<1>1. Init => StopInv
  BY EmptySeq DEF Init, StopInv
<1>2. StopInv /\ [Next]_vars => StopInv'
  BY StopInvKept
<1> QED
  BY <1>1, <1>2, StopTrailsIsRequested, PTL DEF Spec

\* An accepted strategy that trades keeps to the contract's API as well,
\* whatever happens between its statements (analyze_contract, lines 342-354).
THEOREM AcceptedStrategyKeepsToApi ==
    ASSUME \A q \in Programs : IsListing(q.rest)
    PROVE  Spec => []AcceptedUsesApi
<1>1. Init => ApiInit
  BY DEF Init, ApiInit
<1>2. [Next]_vars => [ApiNext]_apiVars
  BY DEF Next, vars, Visiting, AnalyzeContract, Running, OpenTrade, CloseTrade, Bar, ApiNext
<1> QED
  BY <1>1, <1>2, AcceptedKeepsToApi, PTL DEF Spec, ApiSpec
=============================================================================
