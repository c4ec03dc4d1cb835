------------------------------- MODULE MCRouter -------------------------------
(* Instances of Router and Binpack, which have nothing in common but that  *)
(* neither promises anything in the end, only what is never wrong.         *)
(* Router: a parameter in two names, a static route that overtakes it, a   *)
(* wildcard below a parameter, a registration that replaces another, and   *)
(* patterns that are refused or never asked for.                           *)
EXTENDS Router, MCPacking, TLC

VARIABLE library

S(name) == <<"static", name>>
MCPattern ==
    "user" :> <<<<"param", "x">>, S("a")>> @@ "files" :> <<<<"param", "y">>, <<"wild", "p">>>>
    @@ "fixed" :> <<S("u"), S("b")>> @@ "again" :> <<<<"param", "z">>, S("a"), S("")>>
    @@ "bad" :> <<<<"wild", "p">>, S("a")>>
MCRequests == [method : {"GET"}, path : {<<"u", "a">>, <<"v", "..", "u", "b", "">>}]

(* Bounds: at most two of the goroutines are inside a call, two inside     *)
(* Match only when the routes are complete and the cache is enabled, and   *)
(* some of the orders in which routes are added.                           *)
Matching == {m \in Matchers : matcher[m].at # "idle"}
TwoAtATime ==
    /\ Cardinality({a \in Adders : adder[a].at # "idle"}) + Cardinality(Matching) <= 2
    /\ Cardinality(Matching) = 2 => enabled /\ Len(bound) = Cardinality(ValidRoutes)
    /\ Contains(bound, "again") => Contains(bound, "user")
    /\ Contains(bound, "fixed") => Contains(bound, "files")

Symmetry == Permutations(Adders) \cup Permutations(Matchers)

(* The initial state decides which of the two a behaviour is of.           *)
BothInit ==
    /\ library \in {"router", "binpack"}
    /\ Init /\ PackingInit
    /\ library = "router" => layout = <<Tag, Sized(1, 1), Var("bytes", 4, 4)>>

BothNext ==
    /\ UNCHANGED library
    /\ \/ library = "router" /\ Next /\ UNCHANGED bpVars
       \/ library = "binpack" /\ PackingNext /\ UNCHANGED vars

BothSpec == BothInit /\ [][BothNext]_<<library, vars, bpVars>>
================================================================================
