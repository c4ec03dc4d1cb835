-------------------------------- MODULE Router --------------------------------
(***************************************************************************)
(* The router of pkg/zallocrout: one trie for each method, and a cache of  *)
(* the answers to requests that came often (one shard of it: the shards    *)
(* are independent).                                                       *)
(*                                                                         *)
(* AddRoute locks one node at a time, and Match reads the children of a    *)
(* node without a lock, so that both take one step for each node they      *)
(* visit.  A node is the path of edges that leads to it from the root.     *)
(* The readers of the cache take the map as it is; a writer builds a new   *)
(* one under the lock, but chooses what to evict before it takes the lock. *)
(*                                                                         *)
(* The pieces of a request are what stands between the slashes; the pieces *)
(* of a pattern are <<kind, name>>.  A registration stands for its handler *)
(* and, if it has one, for its middleware: lists of one show what lists    *)
(* can do.  A read of a map that is being written may also stop the whole  *)
(* program: the model goes on as if the read came before.                  *)
(***************************************************************************)
EXTENDS Integers, Sequences, FiniteSets, SequencesExt

CONSTANTS
    Adders, Matchers,    \* goroutines that call AddRoute and Match
    Requests,            \* records [method, path]
    Routes,              \* registrations that may be made
    Pattern,             \* [Routes -> pieces], all for the first method
    Wrapped,             \* the registrations that bring a middleware
    MaxParams,           \* how many parameters an answer has room for
    Method,              \* their method
    Threshold,           \* hotCacheThreshold
    MaxEntries,          \* maxEntriesPerShard
    EvictCount,          \* a tenth of it, at least one
    MaxCount,            \* a bound on how far shard.count goes astray
    None

Kinds == {"static", "param", "wild"}
Rank(kind) == CASE kind = "static" -> 1 [] kind = "param" -> 2 [] kind = "wild" -> 3

ASSUME RouterAssumption ==
    /\ IsFiniteSet(Matchers)
    /\ \A request \in Requests : request.path \in Seq(STRING)
    /\ Pattern \in [Routes -> Seq(Kinds \X STRING)]
    /\ {Threshold, MaxParams} \subseteq Nat
    /\ MaxEntries \in Nat \ {0} /\ EvictCount \in 1..MaxEntries
    /\ MaxCount \in Nat
    /\ None \notin Routes

VARIABLES
    nodes,      \* node -> what is bound to it
    adder,      \* [Adders -> where AddRoute is]
    matcher,    \* [Matchers -> where Match is]
    entries,    \* the cached answers, oldest first
    count,      \* shard.count
    enabled,    \* enableHotCache
    bound,      \* history: the registrations in the order they were bound
    raced       \* history: an eviction took effect on a map it had not seen

cacheVars == <<entries, count, enabled, raced>>
vars == <<nodes, adder, matcher, bound, cacheVars>>

(* The pieces of a pattern; only the last one of a valid pattern may be    *)
(* empty.  The k-th of some places is the one up to which there are k.     *)
Parts == [r \in Routes |->
             IF Pattern[r] # <<>> /\ Last(Pattern[r]) = <<"static", "">> THEN Front(Pattern[r])
             ELSE Pattern[r]]
Edge(part) == IF part[1] = "static" THEN part ELSE <<part[1]>>
Edges == [r \in Routes |-> [i \in DOMAIN Parts[r] |-> Edge(Parts[r][i])]]
Places(pieces, kinds) == {i \in DOMAIN pieces : pieces[i][1] \in kinds}
UpTo(S, i) == Cardinality({j \in S : j <= i})
Names == [r \in Routes |->
             LET params == Places(Parts[r], {"param"})
             IN  [k \in 1..Cardinality(params) |->
                     Parts[r][CHOOSE i \in params : UpTo(params, i) = k][2]]]
IsWildcard(n) == n # <<>> /\ Last(n) = <<"wild">>

Empty(name) == [name |-> name, handler |-> None, middleware |-> None, names |-> <<>>, hits |-> 0]
NoWork == [at |-> "idle", route |-> None, node |-> <<>>]
NoMatch == [handler |-> None, wrapped |-> FALSE, params |-> <<>>]
Search(at, request, answer, asOf) ==
    [at |-> at, request |-> request, node |-> <<>>, answer |-> answer, asOf |-> asOf,
     snapshot |-> <<>>]
Idle == Search("idle", None, NoMatch, 0)

Init ==
    /\ nodes = [n \in {} |-> Empty("")]
    /\ adder = [a \in Adders |-> NoWork] /\ matcher = [m \in Matchers |-> Idle]
    /\ entries = <<>> /\ count = 0 /\ enabled = TRUE
    /\ bound = <<>> /\ raced = FALSE

TypeOK ==
    /\ \A n \in DOMAIN nodes :
        /\ n = <<>> \/ Front(n) \in DOMAIN nodes
        /\ nodes[n].handler \in Routes \cup {None} /\ nodes[n].middleware \in Wrapped \cup {None}
        /\ nodes[n].hits \in 0..Threshold
    /\ \A a \in Adders : adder[a].at \in {"idle", "insert"} /\ adder[a].route \in Routes \cup {None}
    /\ \A m \in Matchers :
        /\ matcher[m].at \in {"idle", "handler", "count", "evict", "insert", "answered"} \cup Kinds
        /\ matcher[m].at # "idle" =>
               matcher[m].request \in Requests /\ matcher[m].node \in DOMAIN nodes \cup {<<>>}
    /\ \A i \in DOMAIN entries : entries[i].key \in Requests /\ entries[i].answer.handler \in Routes
    /\ \A i, j \in DOMAIN entries : entries[i].key = entries[j].key => i = j
    /\ count \in -MaxCount..MaxCount /\ {enabled, raced} \subseteq BOOLEAN /\ bound \in Seq(Routes)

------------------------------------------------------------------------------
(* validateRoute: a "." or ".." at the very end passes, and so does a      *)
(* slash there.                                                            *)
validateRoute(pattern) ==
    /\ pattern # <<>>
    /\ \A i \in DOMAIN pattern :
        /\ i < Len(pattern) => pattern[i] \notin {<<"static", s>> : s \in {"", ".", ".."}}
        /\ pattern[i][1] # "static" => pattern[i][2] # ""
        /\ pattern[i][1] = "wild" => i = Len(pattern)

ValidRoutes == {r \in Routes : validateRoute(Pattern[r])}

AddRoute(a, r) ==
    /\ adder[a].at = "idle"
    /\ \A b \in Adders : adder[b].route # r
    /\ ~Contains(bound, r)
    /\ r \in ValidRoutes
    /\ adder' = [adder EXCEPT ![a] = [at |-> "insert", route |-> r, node |-> <<>>]]
    /\ nodes' = [n \in DOMAIN nodes \cup {<<>>} |->
                     IF n \in DOMAIN nodes THEN nodes[n] ELSE Empty("")]
    /\ UNCHANGED <<matcher, bound, cacheVars>>

(* One segment, under the lock of the node.  A parameter keeps the name it *)
(* was first given.                                                        *)
Insert(a) ==
    LET at == adder[a].node
        part == Parts[adder[a].route][Len(at) + 1]
        child == Append(at, Edge(part))
    IN  /\ adder[a].at = "insert"
        /\ Len(at) < Len(Parts[adder[a].route])
        /\ nodes' = [n \in DOMAIN nodes \cup {child} |->
                         IF n \in DOMAIN nodes THEN nodes[n] ELSE Empty(part[2])]
        /\ adder' = [adder EXCEPT ![a].node = child]
        /\ UNCHANGED <<matcher, bound, cacheVars>>

(* Mutant: a handler that is there stays.                                  *)
SetHandlerOnce(a) ==
    LET r == adder[a].route
        n == adder[a].node
    IN  /\ adder[a].at = "insert"
        /\ Len(n) = Len(Parts[r])
        /\ nodes' = [nodes EXCEPT ![n] =
              [nodes[n] EXCEPT
                        !.handler = IF @ = None THEN r ELSE @,
                        !.middleware = IF r \in Wrapped THEN r ELSE @,
                        !.names = IF Names[r] # <<>> THEN Names[r] ELSE @]]
        /\ bound' = Append(bound, r)
        /\ adder' = [adder EXCEPT ![a] = NoWork]
        /\ UNCHANGED <<matcher, cacheVars>>

(* setHandlerWithParams: without a middleware the old one stays; with one, *)
(* it is written over the old one, where it stands.                        *)
SetHandler(a) ==
    LET r == adder[a].route
        n == adder[a].node
    IN  /\ adder[a].at = "insert"
        /\ Len(n) = Len(Parts[r])
        /\ nodes' = [nodes EXCEPT ![n] =
              [nodes[n] EXCEPT
                        !.handler = r,
                        !.middleware = IF r \in Wrapped THEN r ELSE @,
                        !.names = IF Names[r] # <<>> THEN Names[r] ELSE @]]
        /\ bound' = Append(bound, r)
        /\ adder' = [adder EXCEPT ![a] = NoWork]
        /\ UNCHANGED <<matcher, cacheVars>>

------------------------------------------------------------------------------
(* normalizePathBytes, when needsNormalization finds a reason.             *)
needsNormalization(path) ==
    \/ path = <<>>
    \/ Len(path) > 1 /\ Last(path) = ""
    \/ \E i \in DOMAIN path : path[i] \in {".", ".."} \/ (path[i] = "" /\ Len(path) > 1)
Normalized(path) ==
    LET kept[i \in 0..Len(path)] ==
            IF i = 0 THEN <<>>
            ELSE IF path[i] \in {"", "."} THEN kept[i - 1]
            ELSE IF path[i] # ".." THEN Append(kept[i - 1], path[i])
            ELSE IF kept[i - 1] = <<>> THEN <<>> ELSE Front(kept[i - 1])
    IN  kept[Len(path)]
Segs == [request \in Requests |->
             IF needsNormalization(request.path) THEN Normalized(request.path)
             ELSE IF request.path = <<"">> THEN <<>> ELSE request.path]

Cached(request) == {i \in DOMAIN entries : entries[i].key = request}

(* Match looks into the cache first.                                       *)
CacheHit(m, request) ==
    /\ matcher[m].at = "idle" /\ enabled
    /\ \E i \in Cached(request) :
          matcher' = [matcher EXCEPT ![m] =
              Search("answered", request, entries[i].answer, entries[i].asOf)]
    /\ UNCHANGED <<nodes, adder, bound, cacheVars>>

CacheMiss(m, request) ==
    /\ matcher[m].at = "idle"
    /\ ~enabled \/ Cached(request) = {}
    /\ LET at == IF <<>> \in DOMAIN nodes /\ request.method = Method /\ request.path # <<>>
                 THEN IF Segs[request] = <<>> THEN "handler" ELSE "static"
                 ELSE "answered"
       IN  matcher' = [matcher EXCEPT ![m] = Search(at, request, NoMatch, Len(bound))]
    /\ UNCHANGED <<nodes, adder, bound, cacheVars>>

(* One child of the node, of the kind that is asked for.                   *)
ChildEdge(kind, seg) == IF kind = "static" THEN <<kind, seg>> ELSE <<kind>>
Taken(kind, child, segs, i) ==
    CASE kind = "static" -> <<>>
      [] kind = "param" -> <<[key |-> nodes[child].name, value |-> <<segs[i]>>]>>
      [] kind = "wild" -> <<[key |-> "*", value |-> SubSeq(segs, i, Len(segs))]>>
(* What no room is left for is dropped.                                    *)
Noted(params, taken) == IF Len(params) < MaxParams THEN params \o taken ELSE params
NextKind(kind) == CASE kind = "static" -> "param" [] kind = "param" -> "wild"

Walk(m, kind) ==
    LET w == matcher[m]
        segs == Segs[w.request]
        i == Len(w.node) + 1
        child == Append(w.node, ChildEdge(kind, segs[i]))
    IN  /\ w.at = kind
        /\ IF child \in DOMAIN nodes
           THEN matcher' = [matcher EXCEPT
                   ![m].node = child,
                   ![m].at = IF kind = "wild" \/ i = Len(segs) THEN "handler" ELSE "static",
                   ![m].answer.params = Noted(@, Taken(kind, child, segs, i))]
           ELSE matcher' = [matcher EXCEPT
                   ![m].at = IF kind = "wild" THEN "answered" ELSE NextKind(kind),
                   ![m].answer.params = IF kind = "wild" THEN <<>> ELSE @]
        /\ UNCHANGED <<nodes, adder, bound, cacheVars>>

(* Mutant: the names met on the way stay.                                  *)
RenamedNever(params, names) == params

(* The route's own names replace those met on the way, if there are as     *)
(* many: "*" counts as a parameter, but has no name.                       *)
Renamed(params, names) ==
    IF Len(names) # Len(params) THEN params
    ELSE [i \in DOMAIN params |-> [params[i] EXCEPT !.key = names[i]]]

(* getHandler and the count of hits.  A node below the threshold, or a     *)
(* wildcard's, is answered and not cached.                                 *)
GetHandler(m) ==
    LET w == matcher[m]
        node == nodes[w.node]
        counted == enabled /\ node.handler # None /\ ~IsWildcard(w.node)
    IN  /\ w.at = "handler"
        /\ matcher' = [matcher EXCEPT
              ![m].at = IF counted /\ node.hits >= Threshold THEN "count" ELSE "answered",
              ![m].answer =
                  IF node.handler = None THEN NoMatch
                  ELSE [handler |-> node.handler, wrapped |-> node.middleware # None,
                        params |-> Renamed(@.params, node.names)]]
        /\ nodes' = IF counted /\ node.hits < Threshold
                    THEN [nodes EXCEPT ![w.node].hits = @ + 1] ELSE nodes
        /\ UNCHANGED <<adder, bound, cacheVars>>

------------------------------------------------------------------------------
(* StoreWithMethodPath: a full shard is thinned out first.  evictLRU reads *)
(* the map and chooses without the lock.                                   *)
StoreCounts(m) ==
    /\ matcher[m].at = "count"
    /\ matcher' = [matcher EXCEPT
          ![m].at = IF count >= MaxEntries /\ Len(entries) >= MaxEntries THEN "evict" ELSE "insert",
          ![m].snapshot = IF count >= MaxEntries /\ Len(entries) >= MaxEntries THEN entries ELSE <<>>]
    /\ UNCHANGED <<nodes, adder, bound, cacheVars>>

(* Mutant: what was evicted is taken off the count twice.                  *)
EvictTwice(m) ==
    /\ matcher[m].at = "evict" /\ count - EvictCount >= -MaxCount
    /\ entries' = SubSeq(matcher[m].snapshot, EvictCount + 1, Len(matcher[m].snapshot))
    /\ count' = count - 2 * EvictCount
    /\ raced' = (raced \/ entries # matcher[m].snapshot)
    /\ matcher' = [matcher EXCEPT ![m].at = "insert", ![m].snapshot = <<>>]
    /\ UNCHANGED <<nodes, adder, bound, enabled>>

(* The new map is made of the one that was read: what was stored meanwhile *)
(* is lost, what was cleared comes back.                                   *)
Evict(m) ==
    /\ matcher[m].at = "evict" /\ count - EvictCount >= -MaxCount
    /\ entries' = SubSeq(matcher[m].snapshot, EvictCount + 1, Len(matcher[m].snapshot))
    /\ count' = count - EvictCount
    /\ raced' = (raced \/ entries # matcher[m].snapshot)
    /\ matcher' = [matcher EXCEPT ![m].at = "insert", ![m].snapshot = <<>>]
    /\ UNCHANGED <<nodes, adder, bound, enabled>>

(* An entry that replaces another is counted too.                          *)
Others(request) ==
    IF Cached(request) = {} THEN entries
    ELSE RemoveAt(entries, CHOOSE i \in Cached(request) : TRUE)

StoreInserts(m) ==
    LET w == matcher[m]
        entry == [key |-> w.request, answer |-> w.answer, asOf |-> w.asOf]
    IN  /\ w.at = "insert" /\ count < MaxCount
        /\ entries' = Append(Others(w.request), entry)
        /\ count' = count + 1
        /\ matcher' = [matcher EXCEPT ![m].at = "answered"]
        /\ UNCHANGED <<nodes, adder, bound, enabled, raced>>

(* ExecuteHandler; the context goes back to its pool.                      *)
Execute(m) ==
    /\ matcher[m].at = "answered"
    /\ matcher' = [matcher EXCEPT ![m] = Idle]
    /\ UNCHANGED <<nodes, adder, bound, cacheVars>>

EnableHotCache == enabled' = TRUE /\ UNCHANGED <<nodes, adder, matcher, bound, entries, count, raced>>
DisableHotCache == enabled' = FALSE /\ UNCHANGED <<nodes, adder, matcher, bound, entries, count, raced>>

ClearHotCache ==
    /\ entries' = <<>> /\ count' = 0
    /\ UNCHANGED <<nodes, adder, matcher, bound, enabled, raced>>

Next ==
    \/ \E a \in Adders : (\E r \in Routes : AddRoute(a, r)) \/ Insert(a) \/ SetHandler(a)
    \/ \E m \in Matchers :
        \/ \E request \in Requests : CacheHit(m, request) \/ CacheMiss(m, request)
        \/ \E kind \in Kinds : Walk(m, kind)
        \/ GetHandler(m) \/ StoreCounts(m) \/ Evict(m) \/ StoreInserts(m) \/ Execute(m)
    \/ EnableHotCache \/ DisableHotCache \/ ClearHotCache

Spec == Init /\ [][Next]_vars

------------------------------------------------------------------------------
(* What the routes themselves say of a request, without trie or cache.     *)
FitsUpTo(edges, segs, n) ==
    \A i \in 1..n : edges[i][1] = "static" => edges[i][2] = segs[i]
Fits(r, segs) ==
    LET edges == Edges[r] IN
    /\ Len(edges) = Len(segs) \/ (IsWildcard(edges) /\ Len(edges) < Len(segs))
    /\ FitsUpTo(edges, segs, Len(edges))

(* A route that is more specific where they part takes the request away,   *)
(* and Match does not come back when that leads nowhere.                   *)
Overtakes(q, r, segs) ==
    LET e == Edges[q]
        f == Edges[r]
    IN  \E i \in DOMAIN e \cap DOMAIN f :
            /\ SubSeq(e, 1, i - 1) = SubSeq(f, 1, i - 1)
            /\ Rank(e[i][1]) < Rank(f[i][1])
            /\ FitsUpTo(e, segs, i)

(* The parameters of a request by its route, as many as there is room for. *)
(* Those of a wildcard route, and of one with more of them, have the name  *)
(* that was registered first at their place: it is not told.               *)
Capped(n) == IF n <= MaxParams THEN n ELSE MaxParams
ParamsFit(r, segs, params) ==
    LET at == Places(Edges[r], {"param", "wild"}) IN
    /\ Len(params) = Capped(Cardinality(at))
    /\ \A i \in at : UpTo(at, i) <= MaxParams =>
        LET param == params[UpTo(at, i)]
            isLast == Edges[r][i] = <<"wild">>
        IN
        /\ param.value = IF isLast THEN SubSeq(segs, i, Len(segs)) ELSE <<segs[i]>>
        /\ isLast => param.key = "*"
        /\ ~IsWildcard(Edges[r]) /\ Cardinality(at) <= MaxParams =>
               param.key = Names[r][UpTo(at, i)]

Best(request) ==
    {r \in ToSet(bound) :
        /\ request.method = Method /\ request.path # <<>>
        /\ Fits(r, Segs[request])
        /\ \A q \in ToSet(bound) : ~Overtakes(q, r, Segs[request])}

(* The last of the registrations that bind the same node.                  *)
Latest(S) == bound[CHOOSE i \in DOMAIN bound :
                       /\ bound[i] \in S
                       /\ \A j \in DOMAIN bound : bound[j] \in S => j <= i]

AnswerFitsRoute(request, answer) ==
    answer.handler # None =>
        /\ Fits(answer.handler, Segs[request]) /\ request.method = Method
        /\ ParamsFit(answer.handler, Segs[request], answer.params)

(* Whatever AddRoute does meanwhile, and wherever it comes from, an answer *)
(* is the handler of a route that the request fits, with the values the    *)
(* request has at the places of its parameters and under its own names     *)
(* (router.go:210-289).  What is cached never belongs to a wildcard.       *)
AnswerFits ==
    /\ \A m \in Matchers :
          matcher[m].at \in {"count", "evict", "insert", "answered"} =>
              AnswerFitsRoute(matcher[m].request, matcher[m].answer)
    /\ \A i \in DOMAIN entries :
          /\ AnswerFitsRoute(entries[i].key, entries[i].answer)
          /\ ~IsWildcard(Edges[entries[i].answer.handler])

RightAnswer(request, answer) ==
    answer.handler = IF Best(request) = {} THEN None ELSE Latest(Best(request))

(* Unless a route was added since the search began, Match and the cache    *)
(* answer what the registered routes say: the most specific route at each  *)
(* piece, the last registration of it, and nothing only if no route fits   *)
(* or a more specific one leads astray (router.go:172-290).                *)
MatchIsRight ==
    (\A a \in Adders : adder[a].at = "idle") =>
        /\ \A m \in Matchers :
              matcher[m].at = "answered" /\ matcher[m].asOf = Len(bound) =>
                  RightAnswer(matcher[m].request, matcher[m].answer)
        /\ \A i \in DOMAIN entries :
              entries[i].asOf = Len(bound) => RightAnswer(entries[i].key, entries[i].answer)

(* The shard keeps to its limit, give or take those who store at the same  *)
(* time, and counts no entry too few (cache.go:83-183): unless an eviction *)
(* was overtaken by another one, a store or Clear.                         *)
CacheBounded ==
    /\ TypeOK
    /\ ~raced => /\ Len(entries) <= MaxEntries + Cardinality(Matchers) - 1
                 /\ Len(entries) <= count
==============================================================================
