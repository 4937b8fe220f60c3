---------------------------- MODULE VectorSearch ----------------------------
(***************************************************************************)
(* Vector search of refract-storage (vector_index.rs): the LRU cache of    *)
(* graphs, the semaphore that admits one builder, the generation checks    *)
(* that keep a stale graph from being served, and the connection pool they *)
(* share with the transactions that write vectors.                         *)
(*                                                                         *)
(* A graph stands for the vectors it was built from; what the approximate  *)
(* search takes from it is left out.  A statement borrows a connection and *)
(* returns it in one step, but a scan keeps it until it is dropped.        *)
(***************************************************************************)
EXTENDS Vectors, SequencesExt, Sums

CONSTANTS
  Searchers,    \* requests being served
  NoOne,        \* nobody holds the build permit
  Connections,  \* size of the pool: 1 for SQLite, 10 for PostgreSQL
  Weight,       \* estimated bytes of one vector, by dimension
  Budget,       \* REFRACT_VECTOR_CACHE_MB
  MinIndexed    \* smaller namespaces are searched exactly (256 in the code)

ASSUME SearchAssumption ==
  /\ IsFiniteSet(Runs) /\ NoOne \notin Searchers
  /\ Connections \in Nat \ {0} /\ Budget \in Nat /\ MinIndexed \in Nat
  /\ Weight \in [Dims -> Nat \ {0}]

VARIABLES
  cache,   \* VectorCache.entries, oldest first
  permit,  \* the searcher that holds VectorCache.build
  conns,   \* searchers whose scan holds a connection
  pc, query, gen, loaded, index, answer   \* per searcher, see TypeOK

searchVars == <<cache, permit, conns, pc, query, gen, loaded, index, answer>>
vars == <<vectorVars, searchVars>>

IndexKeys == [model: Models, dim: Dims]
Contents == SUBSET [run: Runs, of: Nat]
Indexes == [key: IndexKeys, generation: Nat, content: Contents]
Modes == {"auto", "exact", "approximate"}
NoKey == [model |-> "none", dim |-> 0]
NoIndex == [key |-> NoKey, generation |-> 0, content |-> {}]
NoQuery == [key |-> NoKey, mode |-> "exact"]

TypeOK ==
  /\ VectorTypeOK
  /\ cache \in Seq(Indexes)
  /\ permit \in Searchers \cup {NoOne}
  /\ conns \subseteq Searchers
  /\ pc \in [Searchers -> {"idle", "count", "generation", "lookup", "permit", "regeneration",
                           "recheck", "scan", "drop", "verify", "build", "search", "exact", "done"}]
  /\ query \in [Searchers -> [key: IndexKeys, mode: Modes] \cup {NoQuery}]
  /\ gen \in [Searchers -> Nat]         \* the generation it read last
  /\ loaded \in [Searchers -> Contents]  \* what its scan returned
  /\ index \in [Searchers -> Indexes \cup {NoIndex}]  \* the graph it searches
  /\ answer \in [Searchers -> Contents]

\* The rows of run_embeddings for one model and dimension.
Content(key) ==
  {[run |-> r, of |-> vectors[r][key.model].of] :
     r \in {x \in Runs : vectors[x][key.model].dim = key.dim}}

Free == Cardinality(conns) < Connections
Capacity(key) == Budget \div Weight[key.dim]
Size(i) == Cardinality(i.content) * Weight[i.key.dim]
Goto(s, label) == pc' = [pc EXCEPT ![s] = label]

-----------------------------------------------------------------------------
(* The writers: a job's completion or a client's upload, and retention.     *)

Put(r, m, d) ==
  /\ Free
  /\ StoreVector(r, m, [dim |-> d, of |-> runs[r]])
  /\ UNCHANGED <<runs, inserts, sweep, searchVars>>

Store == \/ \E r \in Runs : Free /\ InsertRun(r) /\ UNCHANGED searchVars
         \/ \E r \in Runs, m \in Models, d \in Dims : Put(r, m, d)

Retain ==
  \E r \in Runs :
    /\ Free /\ (RetainRun(r) \/ RetainSelect(r) \/ RetainCommit(r))
    /\ UNCHANGED searchVars

-----------------------------------------------------------------------------
(* vector_search_with_mode.                                                *)

Begin(s, key, mode) ==
  /\ pc[s] = "idle"
  /\ query' = [query EXCEPT ![s] = [key |-> key, mode |-> mode]]
  /\ Goto(s, IF mode = "exact" THEN "exact" ELSE "count")
  /\ UNCHANGED <<vectorVars, cache, permit, conns, gen, loaded, index, answer>>

\* SELECT COUNT(*): none, too few for auto, or too many for the cache.
Count(s) ==
  LET key == query[s].key
      count == Cardinality(Content(key))
  IN  /\ pc[s] = "count" /\ Free
      /\ Goto(s, IF \/ count = 0
                    \/ count < MinIndexed /\ query[s].mode = "auto"
                    \/ count > Capacity(key)
                 THEN "exact" ELSE "generation")
      /\ UNCHANGED <<vectorVars, cache, permit, conns, query, gen, loaded, index, answer>>

\* vector_generation, before the first and before the second lookup.
ReadGeneration(s) ==
  /\ pc[s] \in {"generation", "regeneration"} /\ Free
  /\ gen' = [gen EXCEPT ![s] = generation[query[s].key.model]]
  /\ Goto(s, IF pc[s] = "generation" THEN "lookup" ELSE "recheck")
  /\ UNCHANGED <<vectorVars, cache, permit, conns, query, loaded, index, answer>>

Matches(i, s) == i.key = query[s].key /\ i.generation = gen[s]

\* VectorCache::get: a hit becomes the newest entry.
Hit(s, n) ==
  /\ index' = [index EXCEPT ![s] = cache[n]]
  /\ cache' = Append(RemoveAt(cache, n), cache[n])

Lookup(s) ==
  /\ pc[s] \in {"lookup", "recheck"}
  /\ \/ \E n \in 1..Len(cache) :
          /\ Matches(cache[n], s)
          /\ \A k \in 1..(n - 1) : ~Matches(cache[k], s)
          /\ Hit(s, n)
          /\ permit' = IF permit = s THEN NoOne ELSE permit
          /\ gen' = [gen EXCEPT ![s] = 0]
          /\ Goto(s, "search")
     \/ /\ \A n \in 1..Len(cache) : ~Matches(cache[n], s)
        /\ Goto(s, IF pc[s] = "lookup" THEN "permit" ELSE "scan")
        /\ UNCHANGED <<cache, permit, gen, index>>
  /\ UNCHANGED <<vectorVars, conns, query, loaded, answer>>

Acquire(s) ==
  /\ pc[s] = "permit" /\ permit = NoOne
  /\ permit' = s
  /\ Goto(s, "regeneration")
  /\ UNCHANGED <<vectorVars, cache, conns, query, gen, loaded, index, answer>>

\* The streaming SELECT: one statement, one snapshot, one connection held.
Scan(s) ==
  /\ pc[s] = "scan" /\ Free
  /\ conns' = conns \cup {s}
  /\ loaded' = [loaded EXCEPT ![s] = Content(query[s].key)]
  /\ Goto(s, "drop")
  /\ UNCHANGED <<vectorVars, cache, permit, query, gen, index, answer>>

\* Fault: the scan's connection is kept until the request ends.
KeepConnection(s) == conns' = conns
\* drop(rows); drop(connection)
ReleaseConnection(s) == conns' = conns \ {s}

\* Fault: a full namespace is taken for one that fits.
FitsLoosely(s) == Cardinality(loaded[s]) <= Capacity(query[s].key) + 1
\* The loop stops with too_large at the row that no longer fits.
Fits(s) == Cardinality(loaded[s]) <= Capacity(query[s].key)

Drop(s) ==
  /\ pc[s] = "drop"
  /\ ReleaseConnection(s)
  /\ Goto(s, IF Fits(s) THEN "verify" ELSE "exact")
  /\ UNCHANGED <<vectorVars, cache, permit, query, gen, loaded, index, answer>>

\* Fault: the rows are trusted to belong to the generation read before.
UnverifiedGeneration(s, g) == TRUE
\* The generation is still g when it is read again.
SameGeneration(s, g) == generation[query[s].key.model] = g

Verify(s) ==
  /\ pc[s] = "verify" /\ Free
  /\ Goto(s, IF SameGeneration(s, gen[s]) THEN "build" ELSE "exact")
  /\ UNCHANGED <<vectorVars, cache, permit, conns, query, gen, loaded, index, answer>>

TotalSize(entries) == Total([n \in DOMAIN entries |-> Size(entries[n])])

\* VectorCache::insert: drop the namespace's old graph (there is at most one, see
\* CacheBudget), then the least recently used ones until the new graph fits.
Inserted(i) ==
  LET same == {n \in 1..Len(cache) : cache[n].key = i.key}
      others == IF same = {} THEN cache ELSE RemoveAt(cache, CHOOSE n \in same : TRUE)
      fitting == {n \in 0..Len(others) :
                    TotalSize(SubSeq(others, n + 1, Len(others))) + Size(i) <= Budget}
      evicted == IF fitting = {} THEN Len(others) ELSE Min(fitting)
  IN  Append(SubSeq(others, evicted + 1, Len(others)), i)

\* spawn_blocking's build, the insertion, and the permit's end of scope.
Build(s) ==
  LET built == [key |-> query[s].key, generation |-> gen[s], content |-> loaded[s]] IN
  /\ pc[s] = "build"
  /\ cache' = Inserted(built)
  /\ index' = [index EXCEPT ![s] = built]
  /\ permit' = NoOne
  /\ gen' = [gen EXCEPT ![s] = 0]
  /\ loaded' = [loaded EXCEPT ![s] = {}]
  /\ Goto(s, "search")
  /\ UNCHANGED <<vectorVars, conns, query, answer>>

\* A request's future ends: its permit, its connection and its locals with it.
Leave(s) ==
  /\ permit' = IF permit = s THEN NoOne ELSE permit
  /\ conns' = conns \ {s}
  /\ gen' = [gen EXCEPT ![s] = 0]
  /\ loaded' = [loaded EXCEPT ![s] = {}]
  /\ index' = [index EXCEPT ![s] = NoIndex]
  /\ query' = [query EXCEPT ![s] = NoQuery]

\* The graph search, and the last look at the generation.
Search(s) ==
  /\ pc[s] = "search" /\ Free
  /\ \/ /\ SameGeneration(s, index[s].generation)
        /\ answer' = [answer EXCEPT ![s] = index[s].content]
        /\ Leave(s) /\ Goto(s, "done")
     \/ /\ ~SameGeneration(s, index[s].generation)
        /\ Goto(s, "exact")
        /\ UNCHANGED <<permit, conns, query, gen, loaded, index, answer>>
  /\ UNCHANGED <<vectorVars, cache>>

\* exact_vectors: one statement, also from within the build section.
Exact(s) ==
  /\ pc[s] = "exact" /\ Free
  /\ answer' = [answer EXCEPT ![s] = Content(query[s].key)]
  /\ Leave(s) /\ Goto(s, "done")
  /\ UNCHANGED <<vectorVars, cache>>

Respond(s) ==
  /\ pc[s] = "done"
  /\ answer' = [answer EXCEPT ![s] = {}]
  /\ Goto(s, "idle")
  /\ UNCHANGED <<vectorVars, cache, permit, conns, query, gen, loaded, index>>

\* The client disconnects or a statement fails: the request's future is dropped.
Cancel(s) ==
  /\ pc[s] \notin {"idle", "done"}
  /\ Leave(s) /\ Goto(s, "idle")
  /\ UNCHANGED <<vectorVars, cache, answer>>

-----------------------------------------------------------------------------
Init ==
  /\ VectorInit
  /\ cache = <<>> /\ permit = NoOne /\ conns = {}
  /\ pc = [s \in Searchers |-> "idle"]
  /\ query = [s \in Searchers |-> NoQuery]
  /\ gen = [s \in Searchers |-> 0]
  /\ loaded = [s \in Searchers |-> {}]
  /\ index = [s \in Searchers |-> NoIndex]
  /\ answer = [s \in Searchers |-> {}]

SearchStep(s) ==
  \/ Count(s) \/ ReadGeneration(s) \/ Lookup(s) \/ Acquire(s) \/ Scan(s) \/ Drop(s)
  \/ Verify(s) \/ Build(s) \/ Search(s) \/ Exact(s) \/ Respond(s)

Next ==
  \/ Store \/ Retain
  \/ \E s \in Searchers :
       \/ \E key \in IndexKeys, mode \in Modes : Begin(s, key, mode)
       \/ SearchStep(s) \/ Cancel(s)

Spec == Init /\ [][Next]_vars

-----------------------------------------------------------------------------
(* Properties.                                                             *)

\* A cached graph of the generation in force holds the rows of its namespace.
CacheSound ==
  \A n \in 1..Len(cache) :
    cache[n].generation = generation[cache[n].key.model]
    => cache[n].content = Content(cache[n].key)

\* vector_index.rs: "Do not serve an index made stale by a concurrent vector
\* replacement or retention pass": whatever a search returns, cached or not, are
\* the vectors stored at the instant of its last statement.
AnswersCurrent ==
  [][\A s \in Searchers :
       pc[s] # "done" /\ pc'[s] = "done" => answer'[s] = Content(query[s].key)]_vars

\* VectorCache::insert keeps the estimate within the budget, one graph per
\* namespace.
CacheBudget ==
  /\ TotalSize(cache) <= Budget
  /\ \A m, n \in 1..Len(cache) : cache[m].key = cache[n].key => m = n
=============================================================================
