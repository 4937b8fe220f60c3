------------------------- MODULE VectorSearchProofs -------------------------
(***************************************************************************)
(* Theorems about VectorSearch, for every set of runs, models, dimensions  *)
(* and searchers and every cache size: type correctness, the budget of the *)
(* cache, and for a database with one connection that cached graphs are    *)
(* sound and answers current.                                              *)
(***************************************************************************)
EXTENDS VectorSearch, TLAPS, FiniteSetTheorems, SequenceTheorems, WellFoundedInduction

-----------------------------------------------------------------------------
(* The transactions of Vectors: types.                                     *)

\* put_embedding_tx keeps the tables typed.
LEMMA StoreVectorType ==
  ASSUME VectorTypeOK, UNCHANGED <<runs, inserts, sweep>>,
         NEW r \in Runs, NEW m \in Models, NEW d \in Dims, NEW n \in Nat,
         StoreVector(r, m, [dim |-> d, of |-> n])
  PROVE  VectorTypeOK'
  <1>1. generation' \in [Models -> Nat]
    BY DEF VectorTypeOK, StoreVector, Bumped
  <1>2. vectors' \in [Runs -> [Models -> [dim: Nat, of: Nat]]]
    BY VectorsAssumption DEF VectorTypeOK, StoreVector
  <1> QED BY <1>1, <1>2 DEF VectorTypeOK

\* retain_since keeps the tables typed, overlapping or not.
LEMMA RetentionType ==
  ASSUME VectorTypeOK, NEW r \in Runs, RetainRun(r) \/ RetainCommit(r) \/ RetainSelect(r)
  PROVE  VectorTypeOK'
  <1>1. ASSUME NEW models, DropRun(r, models)
        PROVE  /\ runs' \in [Runs -> Nat] /\ inserts' \in [Runs -> Nat]
               /\ vectors' \in [Runs -> [Models -> [dim: Nat, of: Nat]]]
               /\ generation' \in [Models -> Nat]
    BY <1>1 DEF VectorTypeOK, DropRun, Bumped, NoVector
  <1>2. CASE RetainRun(r)
    BY <1>1, <1>2 DEF VectorTypeOK, RetainRun
  <1>3. CASE RetainCommit(r)
    BY <1>1, <1>3 DEF VectorTypeOK, RetainCommit, NoSweep
  <1>4. CASE RetainSelect(r)
    BY <1>4 DEF VectorTypeOK, RetainSelect, ModelsOf
  <1> QED BY <1>2, <1>3, <1>4

\* insert_tx keeps the tables typed and numbers the execution from 1.
LEMMA InsertRunType ==
  ASSUME VectorTypeOK, NEW r \in Runs, InsertRun(r)
  PROVE  VectorTypeOK' /\ runs'[r] # 0 /\ (\A x \in Runs : x # r => runs'[x] = runs[x])
  <1>1. inserts' \in [Runs -> Nat] /\ inserts'[r] = inserts[r] + 1
    BY DEF VectorTypeOK, InsertRun
  <1>2. runs' = [runs EXCEPT ![r] = inserts'[r]]
    BY DEF InsertRun
  <1>3. inserts'[r] \in Nat \ {0}
    BY <1>1 DEF VectorTypeOK
  <1> QED BY <1>1, <1>2, <1>3 DEF VectorTypeOK, InsertRun

-----------------------------------------------------------------------------
(* The contract of the generation counters.                                *)

\* A transaction that writes no vector keeps the contract.
LEMMA KeptAdvances ==
  ASSUME VectorTypeOK, UNCHANGED <<vectors, generation>> PROVE Generations
  BY DEF VectorTypeOK, Generations

\* put_embedding_tx bumps the generation of its model with every vector.
LEMMA StoreAdvances ==
  ASSUME VectorTypeOK, NEW r \in Runs, NEW m \in Models, NEW value, StoreVector(r, m, value)
  PROVE  Generations
  <1>1. CASE runs[r] = 0
    BY <1>1, KeptAdvances DEF StoreVector
  <1>2. CASE runs[r] # 0
    <2>1. vectors' = [vectors EXCEPT ![r][m] = value] /\ generation' = Bumped({m})
      BY <1>2 DEF StoreVector
    <2>2. ASSUME NEW x \in Runs, NEW n \in Models, n # m PROVE vectors'[x][n] = vectors[x][n]
      BY <2>1, <2>2 DEF VectorTypeOK
    <2>3. ASSUME NEW n \in Models
          PROVE  generation'[n] >= generation[n] /\ (n = m => generation'[n] > generation[n])
      BY <2>1 DEF Bumped, VectorTypeOK
    <2> QED BY <2>2, <2>3 DEF Generations
  <1> QED BY <1>1, <1>2

\* retain_since bumps the generation of every model whose vectors it deletes,
\* when nothing is stored between its SELECT and its writes.
LEMMA RetainAdvances ==
  ASSUME VectorTypeOK, NEW r \in Runs, RetainRun(r) PROVE Generations
  <1>1. /\ generation' = Bumped(ModelsOf(r))
        /\ vectors' = [vectors EXCEPT ![r] = [m \in Models |-> NoVector]]
    BY DEF RetainRun, DropRun
  <1>2. ASSUME NEW x \in Runs, NEW m \in Models, vectors'[x][m] # vectors[x][m]
        PROVE  m \in ModelsOf(r)
    BY <1>1, <1>2 DEF ModelsOf, VectorTypeOK
  <1>3. ASSUME NEW m \in Models
        PROVE  /\ generation'[m] >= generation[m]
               /\ m \in ModelsOf(r) => generation'[m] > generation[m]
    BY <1>1 DEF Bumped, VectorTypeOK
  <1> QED BY <1>2, <1>3 DEF Generations

-----------------------------------------------------------------------------
(* Sequences.                                                              *)

\* Every element of t is one of s.
From(t, s) == \A n \in 1..Len(t) : \E m \in 1..Len(s) : t[n] = s[m]

\* Removing an element keeps the order of the others.
LEMMA RemoveAtElements ==
  ASSUME NEW S, NEW s \in Seq(S), NEW i \in 1..Len(s)
  PROVE  /\ RemoveAt(s, i) \in Seq(S) /\ Len(RemoveAt(s, i)) = Len(s) - 1
         /\ \A n \in 1..(Len(s) - 1) : RemoveAt(s, i)[n] = IF n < i THEN s[n] ELSE s[n + 1]
  <1> DEFINE front == SubSeq(s, 1, i - 1)
             back == SubSeq(s, i + 1, Len(s))
  <1>1. front \in Seq(S) /\ Len(front) = i - 1 /\ \A n \in 1..(i - 1) : front[n] = s[n]
    OBVIOUS
  <1>2. back \in Seq(S) /\ Len(back) = Len(s) - i /\ \A n \in 1..(Len(s) - i) : back[n] = s[n + i]
    OBVIOUS
  <1>3. RemoveAt(s, i) = front \o back
    BY DEF RemoveAt
  <1> DEFINE t == front \o back
  <1> HIDE DEF front, back
  <1>4. /\ t \in Seq(S) /\ Len(t) = Len(front) + Len(back)
        /\ \A n \in 1..(Len(front) + Len(back)) :
             t[n] = IF n <= Len(front) THEN front[n] ELSE back[n - Len(front)]
    BY <1>1, <1>2, ConcatProperties, Zenon
  <1> HIDE DEF t
  <1>5. ASSUME NEW n \in 1..(Len(s) - 1)
        PROVE  t[n] = IF n < i THEN s[n] ELSE s[n + 1]
    <2>1. Len(t) = Len(s) - 1 /\ n \in Nat /\ 1 <= n /\ n <= Len(s) - 1
      BY <1>1, <1>2, <1>4
    <2>2. CASE n < i
      <3>1. n <= i - 1 /\ n \in 1..(i - 1)
        BY <2>1, <2>2
      <3>2. t[n] = front[n]
        BY <1>1, <1>2, <1>4, <2>1, <3>1
      <3> QED BY <1>1, <2>2, <3>1, <3>2
    <2>3. CASE ~(n < i)
      <3>1. n - (i - 1) \in 1..(Len(s) - i) /\ n - (i - 1) + i = n + 1 /\ ~(n <= i - 1)
        BY <2>1, <2>3
      <3>2. t[n] = back[n - (i - 1)]
        BY <1>1, <1>2, <1>4, <2>1, <3>1
      <3>3. back[n - (i - 1)] = s[n + 1]
        BY <1>2, <3>1
      <3> QED BY <2>3, <3>2, <3>3
    <2> QED BY <2>2, <2>3
  <1>6. Len(t) = Len(s) - 1
    BY <1>1, <1>2, <1>4
  <1> QED BY <1>3, <1>4, <1>5, <1>6 DEF t

\* Removing an element leaves a sequence of the others.
LEMMA RemoveAtFrom ==
  ASSUME NEW S, NEW s \in Seq(S), NEW i \in 1..Len(s)
  PROVE  RemoveAt(s, i) \in Seq(S) /\ From(RemoveAt(s, i), s)
  <1>1. /\ RemoveAt(s, i) \in Seq(S) /\ Len(RemoveAt(s, i)) = Len(s) - 1
        /\ \A n \in 1..(Len(s) - 1) : RemoveAt(s, i)[n] = IF n < i THEN s[n] ELSE s[n + 1]
    BY RemoveAtElements
  <1>2. \A n \in 1..(Len(s) - 1) : n \in 1..Len(s) /\ n + 1 \in 1..Len(s)
    OBVIOUS
  <1> QED BY <1>1, <1>2 DEF From

\* A suffix is a sequence of elements of the whole.
LEMMA SuffixFrom ==
  ASSUME NEW S, NEW s \in Seq(S), NEW e \in 0..Len(s)
  PROVE  SubSeq(s, e + 1, Len(s)) \in Seq(S) /\ From(SubSeq(s, e + 1, Len(s)), s)
  <1> DEFINE t == SubSeq(s, e + 1, Len(s))
  <1>1. t \in Seq(S) /\ Len(t) = Len(s) - e /\ \A n \in 1..(Len(s) - e) : t[n] = s[e + n]
    OBVIOUS
  <1> HIDE DEF t
  <1>2. \A n \in 1..(Len(s) - e) : e + n \in 1..Len(s)
    OBVIOUS
  <1>3. From(t, s)
    BY <1>1, <1>2 DEF From
  <1> QED BY <1>1, <1>3 DEF t

\* Appending adds nothing but the element.
LEMMA AppendFrom ==
  ASSUME NEW S, NEW s \in Seq(S), NEW t \in Seq(S), From(t, s), NEW i \in S
  PROVE  /\ Append(t, i) \in Seq(S)
         /\ \A n \in 1..Len(Append(t, i)) :
              Append(t, i)[n] = i \/ \E m \in 1..Len(s) : Append(t, i)[n] = s[m]
  BY DEF From

\* Elements of elements.
LEMMA FromTransitive ==
  ASSUME NEW r, NEW s, NEW t, From(t, s), From(s, r) PROVE From(t, r)
  BY DEF From

\* A set of naturals has its minimum.
LEMMA MinType ==
  ASSUME NEW n \in Nat, NEW S \in SUBSET (0..n), S # {} PROVE Min(S) \in S
  <1> DEFINE less == OpToRel(<, Nat)
  <1>1. \A x, y \in Nat : y < x => <<y, x>> \in less
    BY DEF OpToRel
  <1>2. IsWellFoundedOn(less, Nat)
    BY NatLessThanWellFounded
  <1>3. \E x \in S : \A y \in S : ~ (<<y, x>> \in less)
    <2> HIDE DEF less
    <2>1. S \subseteq Nat
      OBVIOUS
    <2> QED BY <1>2, <2>1, WFMin, Zenon
  <1>4. \E x \in S : \A y \in S : x <= y
    <2> HIDE DEF less
    <2>1. PICK x \in S : \A y \in S : ~ (<<y, x>> \in less)
      BY <1>3
    <2>2. ASSUME NEW y \in S PROVE x <= y
      <3>1. x \in Nat /\ y \in Nat /\ ~(y < x)
        <4>1. x \in Nat /\ y \in Nat
          OBVIOUS
        <4> QED BY <1>1, <2>1, <4>1
      <3> QED BY <3>1
    <2> QED BY <2>2
  <1> QED BY <1>4 DEF Min

\* VectorCache::insert keeps some of the cached graphs and adds the new one.
LEMMA InsertedFrom ==
  ASSUME cache \in Seq(Indexes), NEW i \in Indexes
  PROVE  /\ Inserted(i) \in Seq(Indexes)
         /\ \A n \in 1..Len(Inserted(i)) :
              Inserted(i)[n] = i \/ \E m \in 1..Len(cache) : Inserted(i)[n] = cache[m]
  <1> DEFINE same == {n \in 1..Len(cache) : cache[n].key = i.key}
             others == IF same = {} THEN cache ELSE RemoveAt(cache, CHOOSE n \in same : TRUE)
             fitting == {n \in 0..Len(others) :
                           TotalSize(SubSeq(others, n + 1, Len(others))) + Size(i) <= Budget}
             evicted == IF fitting = {} THEN Len(others) ELSE Min(fitting)
             kept == SubSeq(others, evicted + 1, Len(others))
  <1>1. others \in Seq(Indexes) /\ From(others, cache)
    <2>1. CASE same = {}
      BY <2>1 DEF From
    <2>2. CASE same # {}
      <3>1. (CHOOSE n \in same : TRUE) \in 1..Len(cache)
        BY <2>2
      <3> QED
        <4> HIDE DEF same
        <4> QED BY <2>2, <3>1, RemoveAtFrom
    <2> QED BY <2>1, <2>2
  <1>2. Inserted(i) = Append(kept, i)
    BY DEF Inserted
  <1> HIDE DEF others
  <1>3. evicted \in 0..Len(others)
    <2>1. fitting \in SUBSET (0..Len(others)) /\ Len(others) \in Nat
      BY <1>1
    <2> HIDE DEF fitting
    <2>2. fitting # {} => Min(fitting) \in fitting
      BY <2>1, MinType
    <2>3. CASE fitting = {}
      BY <2>1, <2>3
    <2>4. CASE fitting # {}
      BY <2>1, <2>2, <2>4
    <2> QED BY <2>3, <2>4
  <1> HIDE DEF evicted
  <1>4. kept \in Seq(Indexes) /\ From(kept, others)
    BY <1>1, <1>3, SuffixFrom
  <1>5. From(kept, cache)
    BY <1>1, <1>4, FromTransitive
  <1> HIDE DEF kept
  <1> QED BY <1>2, <1>4, <1>5, AppendFrom

-----------------------------------------------------------------------------
(* Type correctness.                                                       *)

\* A request that searches has a namespace, and what it scanned is typed.
Asking == \A s \in Searchers : pc[s] \notin {"idle", "done"} => query[s].key \in IndexKeys

\* A request that searches a graph has one.
Searching == \A s \in Searchers : pc[s] = "search" => index[s] \in Indexes

SearchTypeInv == TypeOK /\ Asking /\ Searching

\* Every namespace has typed contents.
LEMMA ContentType ==
  ASSUME VectorTypeOK, NEW key \in IndexKeys PROVE Content(key) \in Contents
  BY DEF VectorTypeOK, IndexKeys, Content, Contents

\* Nothing is cached, held or asked at first.
LEMMA SearchInitType == Init => SearchTypeInv
  <1> SUFFICES ASSUME Init PROVE SearchTypeInv
    OBVIOUS
  <1>1. VectorTypeOK
    BY DEF Init, VectorInit, VectorTypeOK, NoVector, NoSweep
  <1>2. cache \in Seq(Indexes) /\ {} \in Contents
    BY DEF Init, Contents
  <1> QED BY <1>1, <1>2 DEF Init, SearchTypeInv, TypeOK, Asking, Searching

\* Every step keeps the types.
LEMMA SearchNextType == SearchTypeInv /\ [Next]_vars => SearchTypeInv'
  <1> SUFFICES ASSUME SearchTypeInv, [Next]_vars PROVE SearchTypeInv'
    OBVIOUS
  <1> USE DEF SearchTypeInv
  <1>1. ASSUME Store PROVE SearchTypeInv'
    <2>1. CASE \E r \in Runs : Free /\ InsertRun(r) /\ UNCHANGED searchVars
      BY <2>1, InsertRunType DEF TypeOK, Asking, Searching, searchVars
    <2>2. ASSUME NEW r \in Runs, NEW m \in Models, NEW d \in Dims, Put(r, m, d)
          PROVE  SearchTypeInv'
      <3>1. runs[r] \in Nat /\ VectorTypeOK
        BY DEF TypeOK, VectorTypeOK
      <3>2. VectorTypeOK'
        BY <2>2, <3>1, StoreVectorType DEF Put
      <3> QED BY <2>2, <3>2 DEF Put, TypeOK, Asking, Searching, searchVars
    <2> QED BY <1>1, <2>1, <2>2 DEF Store
  <1>2. ASSUME Retain PROVE SearchTypeInv'
    BY <1>2, RetentionType DEF Retain, TypeOK, Asking, Searching, searchVars
  <1>3. ASSUME UNCHANGED vectorVars PROVE VectorTypeOK'
    BY <1>3 DEF TypeOK, VectorTypeOK, vectorVars
  <1>4. ASSUME NEW s \in Searchers, NEW key \in IndexKeys, NEW mode \in Modes, Begin(s, key, mode)
        PROVE  SearchTypeInv'
    BY <1>3, <1>4 DEF Begin, Goto, TypeOK, Asking, Searching
  <1>5. ASSUME NEW s \in Searchers, Count(s) PROVE SearchTypeInv'
    BY <1>3, <1>5 DEF Count, Goto, TypeOK, Asking, Searching
  <1>6. ASSUME NEW s \in Searchers, ReadGeneration(s) PROVE SearchTypeInv'
    <2>1. generation[query[s].key.model] \in Nat
      BY <1>6 DEF ReadGeneration, TypeOK, VectorTypeOK, Asking, IndexKeys
    <2> QED BY <1>3, <1>6, <2>1 DEF ReadGeneration, Goto, TypeOK, Asking, Searching
  <1>7. ASSUME NEW s \in Searchers, Lookup(s) PROVE SearchTypeInv'
    <2>1. ASSUME NEW n \in 1..Len(cache)
          PROVE  cache[n] \in Indexes /\ Append(RemoveAt(cache, n), cache[n]) \in Seq(Indexes)
      <3>1. cache \in Seq(Indexes) /\ cache[n] \in Indexes
        BY DEF TypeOK
      <3>2. RemoveAt(cache, n) \in Seq(Indexes)
        BY <3>1, RemoveAtFrom
      <3> QED BY <3>1, <3>2
    <2>2. CASE \E n \in 1..Len(cache) : Hit(s, n) /\ gen' = [gen EXCEPT ![s] = 0] /\ Goto(s, "search")
                                       /\ permit' = IF permit = s THEN NoOne ELSE permit
      BY <1>3, <1>7, <2>1, <2>2 DEF Lookup, Hit, Goto, TypeOK, Asking, Searching
    <2>3. CASE /\ Goto(s, IF pc[s] = "lookup" THEN "permit" ELSE "scan")
               /\ UNCHANGED <<cache, permit, gen, index>>
      BY <1>3, <1>7, <2>3 DEF Lookup, Goto, TypeOK, Asking, Searching
    <2> QED BY <1>7, <2>2, <2>3 DEF Lookup
  <1>8. ASSUME NEW s \in Searchers, Acquire(s) PROVE SearchTypeInv'
    BY <1>3, <1>8 DEF Acquire, Goto, TypeOK, Asking, Searching
  <1>9. ASSUME NEW s \in Searchers, Scan(s) PROVE SearchTypeInv'
    <2>1. Content(query[s].key) \in Contents
      BY <1>9, ContentType DEF Scan, TypeOK, Asking
    <2> QED BY <1>3, <1>9, <2>1 DEF Scan, Goto, TypeOK, Asking, Searching
  <1>10. ASSUME NEW s \in Searchers, Drop(s) PROVE SearchTypeInv'
    BY <1>3, <1>10 DEF Drop, ReleaseConnection, Goto, TypeOK, Asking, Searching
  <1>11. ASSUME NEW s \in Searchers, Verify(s) PROVE SearchTypeInv'
    BY <1>3, <1>11 DEF Verify, Goto, TypeOK, Asking, Searching
  <1> DEFINE built(s) == [key |-> query[s].key, generation |-> gen[s], content |-> loaded[s]]
  <1>12. ASSUME NEW s \in Searchers, Build(s) PROVE SearchTypeInv'
    <2>1. built(s) \in Indexes /\ {} \in Contents
      BY <1>12 DEF Build, TypeOK, Asking, Indexes, Contents
    <2>2. Inserted(built(s)) \in Seq(Indexes)
      BY <2>1, InsertedFrom DEF TypeOK
    <2>3. cache' = Inserted(built(s)) /\ index' = [index EXCEPT ![s] = built(s)]
      BY <1>12 DEF Build
    <2> HIDE DEF built
    <2> QED BY <1>3, <1>12, <2>1, <2>2, <2>3 DEF Build, Goto, TypeOK, Asking, Searching
  <1>13. {} \in Contents
    BY DEF Contents
  <1>14. ASSUME NEW s \in Searchers, Search(s) PROVE SearchTypeInv'
    <2>1. index[s].content \in Contents
      BY <1>14 DEF Search, Searching, Indexes
    <2>2. CASE /\ answer' = [answer EXCEPT ![s] = index[s].content]
               /\ Leave(s) /\ Goto(s, "done") /\ UNCHANGED cache
      BY <1>3, <1>13, <1>14, <2>1, <2>2 DEF Search, Leave, Goto, TypeOK, Asking, Searching
    <2>3. CASE /\ Goto(s, "exact")
               /\ UNCHANGED <<permit, conns, query, gen, loaded, index, answer, cache>>
      BY <1>3, <1>14, <2>3 DEF Search, Goto, TypeOK, Asking, Searching
    <2> QED BY <1>14, <2>2, <2>3 DEF Search
  <1>15. ASSUME NEW s \in Searchers, Exact(s) PROVE SearchTypeInv'
    <2>1. Content(query[s].key) \in Contents
      BY <1>15, ContentType DEF Exact, TypeOK, Asking
    <2> QED BY <1>3, <1>13, <1>15, <2>1 DEF Exact, Leave, Goto, TypeOK, Asking, Searching
  <1>16. ASSUME NEW s \in Searchers, Respond(s) PROVE SearchTypeInv'
    BY <1>3, <1>13, <1>16 DEF Respond, Goto, TypeOK, Asking, Searching
  <1>17. ASSUME NEW s \in Searchers, Cancel(s) PROVE SearchTypeInv'
    BY <1>3, <1>13, <1>17 DEF Cancel, Leave, Goto, TypeOK, Asking, Searching
  <1>18. ASSUME UNCHANGED vars PROVE SearchTypeInv'
    BY <1>3, <1>18 DEF vars, searchVars, TypeOK, Asking, Searching
  <1> QED
    BY <1>1, <1>2, <1>4, <1>5, <1>6, <1>7, <1>8, <1>9, <1>10, <1>11, <1>12, <1>14, <1>15, <1>16,
       <1>17, <1>18
       DEF Next, SearchStep

\* The cache and the requests' variables keep their types.
THEOREM SearchTypeCorrect == Spec => []TypeOK
  <1>1. SearchTypeInv => TypeOK
    BY DEF SearchTypeInv
  <1> QED BY <1>1, SearchInitType, SearchNextType, PTL DEF Spec

-----------------------------------------------------------------------------
(* Soundness of the cache when transactions run one after the other.  A     *)
(* graph, cached or still being built, is valid: its generation was not     *)
(* overtaken by the counter, and while it is the one in force the graph     *)
(* holds the rows of its namespace.  Every transaction keeps that, because  *)
(* one that changes rows leaves a generation nobody has seen.               *)

\* The rows of a namespace in a table of vectors.
RowsOf(table, key) ==
  {[run |-> r, of |-> table[r][key.model].of] : r \in {x \in Runs : table[x][key.model].dim = key.dim}}

Valid(counters, table, key, g, content) ==
  /\ g <= counters[key.model]
  /\ g = counters[key.model] => content = RowsOf(table, key)

\* Every cached graph is valid.
CacheValid ==
  \A n \in 1..Len(cache) :
    Valid(generation, vectors, cache[n].key, cache[n].generation, cache[n].content)

\* So is what a request scanned after it read the generation, and the graph
\* it searches, which is one of the namespace it asked for.
RequestValid(s) ==
  /\ pc[s] \in {"idle", "done"} => gen[s] = 0
  /\ pc[s] \notin {"idle", "done"} => gen[s] <= generation[query[s].key.model]
  /\ pc[s] \in {"drop", "verify", "build"} => Valid(generation, vectors, query[s].key, gen[s], loaded[s])
  /\ pc[s] = "search" =>
       /\ index[s].key = query[s].key
       /\ Valid(generation, vectors, index[s].key, index[s].generation, index[s].content)
RequestsValid == \A s \in Searchers : RequestValid(s)

\* With one connection no retention stops halfway.
NoHalfSweep == Serial => sweep = NoSweep

SoundInv == SearchTypeInv /\ NoHalfSweep /\ CacheValid /\ RequestsValid

\* A step that keeps the contract of the generations keeps valid what was.
LEMMA ValidKept ==
  ASSUME VectorTypeOK, VectorTypeOK', Generations,
         NEW key \in IndexKeys, NEW g \in Nat, NEW content,
         Valid(generation, vectors, key, g, content)
  PROVE  Valid(generation', vectors', key, g, content)
  <1>1. key.model \in Models /\ generation[key.model] \in Nat /\ generation'[key.model] \in Nat
    BY DEF VectorTypeOK, IndexKeys
  <1>2. generation'[key.model] >= generation[key.model]
    BY <1>1 DEF Generations
  <1>3. ASSUME g = generation'[key.model] PROVE content = RowsOf(vectors', key)
    <2>1. g = generation[key.model] /\ ~(generation'[key.model] > generation[key.model])
      BY <1>1, <1>2, <1>3 DEF Valid
    <2>2. \A r \in Runs : vectors'[r][key.model] = vectors[r][key.model]
      BY <1>1, <2>1 DEF Generations
    <2>3. RowsOf(vectors', key) = RowsOf(vectors, key)
      BY <2>2 DEF RowsOf
    <2> QED BY <2>1, <2>3 DEF Valid
  <1> QED BY <1>1, <1>2, <1>3 DEF Valid

\* Nothing is cached or asked at first.
LEMMA SoundInit == Init => SoundInv
  <1> SUFFICES ASSUME Init PROVE SoundInv
    OBVIOUS
  <1>1. NoHalfSweep /\ CacheValid /\ RequestsValid
    BY DEF Init, VectorInit, NoHalfSweep, CacheValid, RequestsValid, RequestValid
  <1> QED BY <1>1, SearchInitType DEF SoundInv

\* With one connection every step keeps the contract of the generations.
LEMMA StepAdvances ==
  ASSUME SoundInv, [Next]_vars, Serial PROVE Generations
  <1>1. VectorTypeOK /\ sweep = NoSweep /\ NoSweep.run = {}
    BY DEF SoundInv, SearchTypeInv, TypeOK, NoHalfSweep, NoSweep
  <1>2. CASE UNCHANGED <<vectors, generation>>
    BY <1>1, <1>2, KeptAdvances
  <1>3. ASSUME NEW r \in Runs, NEW m \in Models, NEW d \in Dims, Put(r, m, d) PROVE Generations
    BY <1>1, <1>3, StoreAdvances DEF Put
  <1>4. ASSUME NEW r \in Runs, RetainRun(r) \/ RetainCommit(r) PROVE Generations
    <2>1. ~RetainCommit(r)
      BY <1>1 DEF RetainCommit
    <2> QED BY <1>1, <1>4, <2>1, RetainAdvances
  <1> QED
    BY <1>2, <1>3, <1>4
       DEF Next, Store, Retain, InsertRun, RetainSelect, SearchStep, Begin, Count, ReadGeneration,
           Lookup, Acquire, Scan, Drop, Verify, Build, Search, Exact, Respond, Cancel,
           vars, vectorVars

\* A cached graph that is found again is valid.
LEMMA CachedStaysValid ==
  ASSUME SoundInv, [Next]_vars, Serial, NEW m \in 1..Len(cache)
  PROVE  Valid(generation', vectors', cache[m].key, cache[m].generation, cache[m].content)
  <1>1. cache[m] \in Indexes
    BY DEF SoundInv, SearchTypeInv, TypeOK
  <1>2. cache[m].key \in IndexKeys /\ cache[m].generation \in Nat
    BY <1>1 DEF Indexes
  <1>3. VectorTypeOK /\ VectorTypeOK' /\ Generations
    BY StepAdvances, SearchNextType DEF SoundInv, SearchTypeInv, TypeOK
  <1> QED BY <1>2, <1>3, ValidKept DEF SoundInv, CacheValid

\* Every step keeps the cache valid: a graph enters it with the generation that
\* was read before its rows were scanned.
LEMMA CacheKept ==
  ASSUME SoundInv, [Next]_vars, Serial PROVE CacheValid'
  <1>1. cache \in Seq(Indexes)
    BY DEF SoundInv, SearchTypeInv, TypeOK
  <1>2. SUFFICES ASSUME NEW n \in 1..Len(cache')
                 PROVE  Valid(generation', vectors', cache'[n].key, cache'[n].generation, cache'[n].content)
    BY DEF CacheValid
  <1>3. CASE \E m \in 1..Len(cache) : cache'[n] = cache[m]
    BY <1>3, CachedStaysValid
  <1>4. ASSUME NEW s \in Searchers, Lookup(s) PROVE \E m \in 1..Len(cache) : cache'[n] = cache[m]
    <2>1. CASE UNCHANGED cache
      BY <2>1
    <2>2. CASE \E m \in 1..Len(cache) : Hit(s, m)
      <3>1. PICK m \in 1..Len(cache) : cache' = Append(RemoveAt(cache, m), cache[m])
        BY <2>2 DEF Hit
      <3>2. RemoveAt(cache, m) \in Seq(Indexes) /\ From(RemoveAt(cache, m), cache) /\ cache[m] \in Indexes
        BY <1>1, RemoveAtFrom
      <3> DEFINE rest == RemoveAt(cache, m)
      <3> HIDE DEF rest
      <3>3. \A k \in 1..Len(Append(rest, cache[m])) :
              \/ Append(rest, cache[m])[k] = cache[m]
              \/ \E x \in 1..Len(cache) : Append(rest, cache[m])[k] = cache[x]
        BY <1>1, <3>2, AppendFrom DEF rest
      <3>4. cache' = Append(rest, cache[m])
        BY <3>1 DEF rest
      <3> QED BY <3>3, <3>4
    <2> QED BY <1>4, <2>1, <2>2 DEF Lookup
  <1>5. ASSUME NEW s \in Searchers, Build(s)
        PROVE  Valid(generation', vectors', cache'[n].key, cache'[n].generation, cache'[n].content)
    <2> DEFINE built == [key |-> query[s].key, generation |-> gen[s], content |-> loaded[s]]
    <2>1. cache' = Inserted(built) /\ UNCHANGED vectorVars /\ pc[s] = "build"
      BY <1>5 DEF Build
    <2>2. built \in Indexes
      BY <2>1 DEF SoundInv, SearchTypeInv, TypeOK, Asking, Indexes
    <2>3. Valid(generation', vectors', built.key, built.generation, built.content)
      BY <2>1 DEF SoundInv, RequestsValid, RequestValid, vectorVars
    <2> HIDE DEF built
    <2>4. cache'[n] = built \/ \E m \in 1..Len(cache) : cache'[n] = cache[m]
      BY <1>1, <2>1, <2>2, InsertedFrom
    <2> QED BY <1>3, <2>3, <2>4
  <1>6. CASE UNCHANGED cache
    BY <1>3, <1>6
  <1> QED
    BY <1>3, <1>4, <1>5, <1>6
       DEF Next, Store, Put, Retain, SearchStep, Begin, Count, ReadGeneration, Acquire, Scan, Drop,
           Verify, Search, Exact, Respond, Cancel, vars, searchVars

\* A request that does not step stays valid whatever the others do.
LEMMA WaitingValid ==
  ASSUME SoundInv, [Next]_vars, Serial, NEW s \in Searchers,
         pc'[s] = pc[s], query'[s] = query[s], gen'[s] = gen[s], loaded'[s] = loaded[s],
         index'[s] = index[s]
  PROVE  RequestValid(s)'
  <1>1. VectorTypeOK /\ VectorTypeOK' /\ Generations /\ RequestValid(s)
    BY StepAdvances, SearchNextType DEF SoundInv, SearchTypeInv, TypeOK, RequestsValid
  <1>2. gen[s] \in Nat /\ (pc[s] \notin {"idle", "done"} => query[s].key \in IndexKeys)
    BY DEF SoundInv, SearchTypeInv, TypeOK, Asking
  <1>3. pc[s] \notin {"idle", "done"} => gen[s] <= generation'[query[s].key.model]
    BY <1>1, <1>2 DEF RequestValid, Generations, VectorTypeOK, IndexKeys
  <1>4. pc[s] \in {"drop", "verify", "build"} => Valid(generation', vectors', query[s].key, gen[s], loaded[s])
    BY <1>1, <1>2, ValidKept DEF RequestValid
  <1>5. pc[s] = "search" =>
          Valid(generation', vectors', index[s].key, index[s].generation, index[s].content)
    <2>1. pc[s] = "search" => index[s].key \in IndexKeys /\ index[s].generation \in Nat
      BY DEF SoundInv, SearchTypeInv, Searching, Indexes
    <2> QED BY <1>1, <2>1, ValidKept DEF RequestValid
  <1> QED BY <1>1, <1>3, <1>4, <1>5 DEF RequestValid

\* A request's own step keeps it valid.
LEMMA SteppingValid ==
  ASSUME SoundInv, NEW s \in Searchers,
         \/ \E key \in IndexKeys, mode \in Modes : Begin(s, key, mode)
         \/ SearchStep(s) \/ Cancel(s)
  PROVE  RequestValid(s)'
  <1> USE DEF RequestValid, Goto
  <1>1. TypeOK /\ VectorTypeOK /\ Asking /\ RequestValid(s) /\ CacheValid
    BY DEF SoundInv, SearchTypeInv, TypeOK, RequestsValid
  <1>2. UNCHANGED <<vectors, generation>>
    BY DEF SearchStep, Begin, Count, ReadGeneration, Lookup, Acquire, Scan, Drop, Verify, Build,
           Search, Exact, Respond, Cancel, vectorVars
  <1>3. ASSUME NEW key \in IndexKeys, NEW mode \in Modes, Begin(s, key, mode) PROVE RequestValid(s)'
    <2>1. gen[s] = 0 /\ generation[key.model] \in Nat
      BY <1>1, <1>3 DEF Begin, VectorTypeOK, IndexKeys
    <2> QED BY <1>1, <1>2, <1>3, <2>1 DEF Begin, TypeOK
  <1>4. ASSUME Count(s) PROVE RequestValid(s)'
    BY <1>1, <1>2, <1>4 DEF Count, TypeOK
  <1>5. ASSUME ReadGeneration(s) PROVE RequestValid(s)'
    <2>1. generation[query[s].key.model] \in Nat
      BY <1>1, <1>5 DEF ReadGeneration, VectorTypeOK, Asking, IndexKeys
    <2> QED BY <1>1, <1>2, <1>5, <2>1 DEF ReadGeneration, TypeOK
  <1>6. ASSUME Lookup(s) PROVE RequestValid(s)'
    <2>1. pc[s] \in {"lookup", "recheck"} /\ UNCHANGED <<query, loaded>>
      BY <1>6 DEF Lookup
    <2>2. generation[query[s].key.model] \in Nat
      BY <1>1, <2>1 DEF VectorTypeOK, Asking, IndexKeys
    <2>3. ASSUME NEW n \in 1..Len(cache), Matches(cache[n], s), Hit(s, n),
                 gen' = [gen EXCEPT ![s] = 0], Goto(s, "search")
          PROVE  RequestValid(s)'
      <3>1. cache[n].key = query[s].key
            /\ Valid(generation, vectors, cache[n].key, cache[n].generation, cache[n].content)
        BY <1>1, <2>3 DEF Matches, CacheValid
      <3> QED BY <1>1, <1>2, <2>1, <2>2, <2>3, <3>1 DEF Hit, TypeOK
    <2>4. CASE /\ Goto(s, IF pc[s] = "lookup" THEN "permit" ELSE "scan")
               /\ UNCHANGED <<cache, permit, gen, index>>
      BY <1>1, <1>2, <2>1, <2>4 DEF TypeOK
    <2> QED BY <1>6, <2>3, <2>4 DEF Lookup
  <1>7. ASSUME Acquire(s) PROVE RequestValid(s)'
    BY <1>1, <1>2, <1>7 DEF Acquire, TypeOK
  <1>8. ASSUME Scan(s) PROVE RequestValid(s)'
    <2>1. Content(query[s].key) = RowsOf(vectors, query[s].key)
      BY DEF Content, RowsOf
    <2>2. Valid(generation, vectors, query[s].key, gen[s], Content(query[s].key))
      BY <1>1, <1>8, <2>1 DEF Scan, Valid
    <2> QED BY <1>1, <1>2, <1>8, <2>2 DEF Scan, TypeOK
  <1>9. ASSUME Drop(s) PROVE RequestValid(s)'
    BY <1>1, <1>2, <1>9 DEF Drop, TypeOK
  <1>10. ASSUME Verify(s) PROVE RequestValid(s)'
    BY <1>1, <1>2, <1>10 DEF Verify, TypeOK
  <1>11. ASSUME Build(s) PROVE RequestValid(s)'
    <2>1. generation[query[s].key.model] \in Nat
      BY <1>1, <1>11 DEF Build, VectorTypeOK, Asking, IndexKeys
    <2> QED BY <1>1, <1>2, <1>11, <2>1 DEF Build, TypeOK
  <1>12. ASSUME Search(s) PROVE RequestValid(s)'
    BY <1>1, <1>2, <1>12 DEF Search, Leave, TypeOK
  <1>13. ASSUME Exact(s) PROVE RequestValid(s)'
    BY <1>1, <1>2, <1>13 DEF Exact, Leave, TypeOK
  <1>14. ASSUME Respond(s) PROVE RequestValid(s)'
    BY <1>1, <1>2, <1>14 DEF Respond, TypeOK
  <1>15. ASSUME Cancel(s) PROVE RequestValid(s)'
    BY <1>1, <1>2, <1>15 DEF Cancel, Leave, TypeOK
  <1> QED
    BY <1>3, <1>4, <1>5, <1>6, <1>7, <1>8, <1>9, <1>10, <1>11, <1>12, <1>13, <1>14, <1>15
       DEF SearchStep

\* A request's step leaves the other requests alone.
LEMMA OthersWait ==
  ASSUME SoundInv, NEW s \in Searchers, NEW v \in Searchers \ {s},
         \/ \E key \in IndexKeys, mode \in Modes : Begin(s, key, mode)
         \/ SearchStep(s) \/ Cancel(s)
  PROVE  /\ pc'[v] = pc[v] /\ query'[v] = query[v] /\ gen'[v] = gen[v]
         /\ loaded'[v] = loaded[v] /\ index'[v] = index[v]
  <1> USE DEF SoundInv, SearchTypeInv, TypeOK, Goto
  <1>1. ASSUME NEW key \in IndexKeys, NEW mode \in Modes, Begin(s, key, mode)
        PROVE  /\ pc'[v] = pc[v] /\ query'[v] = query[v] /\ gen'[v] = gen[v]
               /\ loaded'[v] = loaded[v] /\ index'[v] = index[v]
    BY <1>1 DEF Begin
  <1>2. ASSUME Search(s) \/ Exact(s) \/ Cancel(s)
        PROVE  /\ pc'[v] = pc[v] /\ query'[v] = query[v] /\ gen'[v] = gen[v]
               /\ loaded'[v] = loaded[v] /\ index'[v] = index[v]
    BY <1>2 DEF Search, Exact, Cancel, Leave
  <1>3. ASSUME Count(s) \/ ReadGeneration(s) \/ Lookup(s) \/ Acquire(s) \/ Scan(s)
        PROVE  /\ pc'[v] = pc[v] /\ query'[v] = query[v] /\ gen'[v] = gen[v]
               /\ loaded'[v] = loaded[v] /\ index'[v] = index[v]
    BY <1>3 DEF Count, ReadGeneration, Lookup, Hit, Acquire, Scan
  <1>4. ASSUME Drop(s) \/ Verify(s) \/ Build(s) \/ Respond(s)
        PROVE  /\ pc'[v] = pc[v] /\ query'[v] = query[v] /\ gen'[v] = gen[v]
               /\ loaded'[v] = loaded[v] /\ index'[v] = index[v]
    BY <1>4 DEF Drop, Verify, Build, Respond
  <1> QED BY <1>1, <1>2, <1>3, <1>4 DEF SearchStep

\* Every step keeps the invariant.
LEMMA SoundNext == ASSUME Serial PROVE SoundInv /\ [Next]_vars => SoundInv'
  <1> SUFFICES ASSUME SoundInv, [Next]_vars PROVE SoundInv'
    OBVIOUS
  <1>1. SearchTypeInv' /\ CacheValid'
    BY SearchNextType, CacheKept, Serial DEF SoundInv
  <1>2. NoHalfSweep'
    BY Serial DEF SoundInv, NoHalfSweep, Next, Store, Put, Retain, RetainRun, RetainCommit, InsertRun,
           RetainSelect, SearchStep, Begin, Count, ReadGeneration, Lookup, Acquire, Scan, Drop,
           Verify, Build, Search, Exact, Respond, Cancel, vars, vectorVars
  <1>3. ASSUME NEW v \in Searchers PROVE RequestValid(v)'
    <2>1. ASSUME NEW s \in Searchers,
                 \/ \E key \in IndexKeys, mode \in Modes : Begin(s, key, mode)
                 \/ SearchStep(s) \/ Cancel(s)
          PROVE  RequestValid(v)'
      <3>1. CASE v = s
        BY <2>1, <3>1, SteppingValid
      <3>2. CASE v # s
        BY <2>1, <3>2, OthersWait, WaitingValid, Serial
      <3> QED BY <3>1, <3>2
    <2>2. CASE UNCHANGED <<pc, query, gen, loaded, index>>
      BY <2>2, WaitingValid, Serial
    <2> QED BY <2>1, <2>2 DEF Next, Store, Put, Retain, searchVars, vars
  <1> QED BY <1>1, <1>2, <1>3 DEF SoundInv, RequestsValid

\* On a database with one connection a cached graph of the generation in force
\* holds the rows of its namespace, whatever is stored, replaced or retained
\* while it is built.
THEOREM CachedGraphsSound == ASSUME Serial PROVE Spec => []CacheSound
  <1>1. SoundInv => CacheSound
    <2> SUFFICES ASSUME SoundInv, NEW n \in 1..Len(cache),
                        cache[n].generation = generation[cache[n].key.model]
                 PROVE  cache[n].content = Content(cache[n].key)
      BY DEF CacheSound
    <2>1. RowsOf(vectors, cache[n].key) = Content(cache[n].key)
      BY DEF RowsOf, Content
    <2> QED BY <2>1 DEF SoundInv, CacheValid, Valid
  <1> QED BY <1>1, SoundInit, SoundNext, Serial, PTL DEF Spec

\* There every search answers with the vectors stored at the instant of its
\* last statement: "Do not serve an index made stale by a concurrent vector
\* replacement or retention pass".
THEOREM AnswersAreCurrent == ASSUME Serial PROVE Spec => AnswersCurrent
  <1>1. SoundInv /\ [Next]_vars =>
          [\A s \in Searchers :
             pc[s] # "done" /\ pc'[s] = "done" => answer'[s] = Content(query[s].key)]_vars
    <2> SUFFICES ASSUME SoundInv, [Next]_vars, NEW s \in Searchers, pc[s] # "done", pc'[s] = "done"
                 PROVE  answer'[s] = Content(query[s].key)
      OBVIOUS
    <2>1. ASSUME Search(s) PROVE answer'[s] = Content(query[s].key)
      <3>1. SameGeneration(s, index[s].generation) /\ answer'[s] = index[s].content
        BY <2>1 DEF Search, Goto, SoundInv, SearchTypeInv, TypeOK
      <3>2. /\ index[s].key = query[s].key
            /\ Valid(generation, vectors, index[s].key, index[s].generation, index[s].content)
        BY <2>1 DEF Search, SoundInv, RequestsValid, RequestValid
      <3>3. RowsOf(vectors, query[s].key) = Content(query[s].key)
        BY DEF RowsOf, Content
      <3> QED BY <3>1, <3>2, <3>3 DEF SameGeneration, Valid
    <2>2. ASSUME Exact(s) PROVE answer'[s] = Content(query[s].key)
      BY <2>2 DEF Exact, SoundInv, SearchTypeInv, TypeOK
    <2>3. Search(s) \/ Exact(s)
      <3>1. ASSUME NEW v \in Searchers,
                   \/ \E key \in IndexKeys, mode \in Modes : Begin(v, key, mode)
                   \/ SearchStep(v) \/ Cancel(v)
            PROVE  v = s
        BY <3>1, OthersWait
      <3>2. ~UNCHANGED pc
        OBVIOUS
      <3>3. (\E key \in IndexKeys, mode \in Modes : Begin(s, key, mode)) \/ SearchStep(s) \/ Cancel(s)
        BY <3>1, <3>2 DEF Next, Store, Put, Retain, searchVars, vars
      <3> QED
        BY <3>3 DEF SearchStep, Begin, Count, ReadGeneration, Lookup, Acquire, Scan, Drop, Verify,
               Build, Respond, Cancel, Goto, SoundInv, SearchTypeInv, TypeOK
    <2> QED BY <2>1, <2>2, <2>3
  <1> QED BY <1>1, SoundInit, SoundNext, Serial, PTL DEF Spec, AnswersCurrent
-----------------------------------------------------------------------------
(* Sums.                                                                   *)

Part(f, A) == [x \in A |-> f[x]]

\* The pairs a sum counts, written without UNION.
LEMMA PairsMember ==
  ASSUME NEW D, NEW f \in [D -> Nat]
  PROVE  \A p : p \in Pairs(f) <=> \E x \in D : \E b \in 1..f[x] : p = <<x, b>>
<1>1. DOMAIN f = D
  OBVIOUS
<1>2. \A p : p \in Pairs(f) <=> \E x \in D : p \in {x} \X (1..f[x])
  BY <1>1 DEF Pairs
<1> QED BY <1>2

\* A sum over a finite set is a number.
LEMMA TotalNat ==
  ASSUME NEW D, IsFiniteSet(D), NEW f \in [D -> Nat]
  PROVE  IsFiniteSet(Pairs(f)) /\ Total(f) \in Nat
<1> DEFINE Rows == {{x} \X (1..f[x]) : x \in D}
           g == [x \in D |-> {x} \X (1..f[x])]
<1>1. Pairs(f) = UNION Rows
  BY DEF Pairs
<1>2. IsFiniteSet(Rows)
  <2>1. g \in Surjection(D, Rows)
    BY DEF Surjection
  <2> HIDE DEF Rows, g
  <2> QED BY <2>1, FS_Surjection
<1>3. \A row \in Rows : IsFiniteSet(row)
  <2> SUFFICES ASSUME NEW x \in D PROVE IsFiniteSet({x} \X (1..f[x]))
    OBVIOUS
  <2>1. IsFiniteSet({x})
    BY FS_Singleton
  <2>2. 1 \in Int /\ f[x] \in Int
    OBVIOUS
  <2>3. IsFiniteSet(1..f[x])
    BY <2>2, FS_Interval
  <2> QED BY <2>1, <2>3, FS_Product
<1>4. IsFiniteSet(UNION Rows)
  <2> HIDE DEF Rows
  <2> QED BY <1>2, <1>3, FS_UNION
<1>5. IsFiniteSet(Pairs(f))
  BY <1>1, <1>4
<1> QED BY <1>5, FS_CardinalityType DEF Total

\* The sum of nothing, and of one number.
LEMMA TotalOne ==
  ASSUME NEW f
  PROVE  /\ DOMAIN f = {} => Total(f) = 0
         /\ \A x : DOMAIN f = {x} /\ f[x] \in Nat => Total(f) = f[x]
<1>1. CASE DOMAIN f = {}
  <2>1. Pairs(f) = {}
    BY <1>1 DEF Pairs
  <2> QED BY <1>1, <2>1, FS_EmptySet DEF Total
<1>2. ASSUME NEW x, DOMAIN f = {x}, f[x] \in Nat PROVE Total(f) = f[x]
  <2>1. Pairs(f) = {x} \X (1..f[x])
    BY <1>2 DEF Pairs
  <2>2. IsFiniteSet({x}) /\ Cardinality({x}) = 1
    BY FS_Singleton
  <2>3. IsFiniteSet(1..f[x]) /\ Cardinality(1..f[x]) = f[x]
    BY <1>2, FS_Interval
  <2>4. Cardinality({x} \X (1..f[x])) = Cardinality({x}) * Cardinality(1..f[x])
    BY <2>2, <2>3, FS_Product
  <2> QED BY <2>1, <2>2, <2>3, <2>4, <1>2 DEF Total
<1> QED BY <1>1, <1>2

\* The sum over two disjoint parts.
LEMMA TotalSplit ==
  ASSUME NEW D, IsFiniteSet(D), NEW f \in [D -> Nat], NEW A, NEW B,
         D = A \cup B, A \cap B = {}
  PROVE  Total(f) = Total(Part(f, A)) + Total(Part(f, B))
<1> DEFINE fA == Part(f, A)
           fB == Part(f, B)
<1>1. fA \in [A -> Nat] /\ fB \in [B -> Nat]
  BY DEF Part
<1>2. IsFiniteSet(A) /\ IsFiniteSet(B)
  BY FS_Subset
<1>3. \A x \in A : fA[x] = f[x]
  BY DEF Part
<1>4. \A x \in B : fB[x] = f[x]
  BY DEF Part
<1> HIDE DEF fA, fB
<1>5. Pairs(f) = Pairs(fA) \cup Pairs(fB) /\ Pairs(fA) \cap Pairs(fB) = {}
  BY <1>1, <1>3, <1>4, PairsMember
<1>6. IsFiniteSet(Pairs(fA)) /\ IsFiniteSet(Pairs(fB))
  BY <1>1, <1>2, TotalNat
<1>7. Total(fA) \in Nat /\ Total(fB) \in Nat
  BY <1>1, <1>2, TotalNat
<1>8. Cardinality(Pairs(f)) = Cardinality(Pairs(fA)) + Cardinality(Pairs(fB)) - Cardinality({})
  BY <1>5, <1>6, FS_Union
<1> QED BY <1>7, <1>8, FS_EmptySet DEF Total, fA, fB

\* A sum over different indexes with the same values is no larger than the sum
\* over a set that has all of them.
LEMMA TotalInjection ==
  ASSUME NEW D, IsFiniteSet(D), NEW f \in [D -> Nat],
         NEW E, IsFiniteSet(E), NEW g \in [E -> Nat],
         NEW h \in [D -> E],
         \A x, y \in D : h[x] = h[y] => x = y,
         \A x \in D : g[h[x]] = f[x]
  PROVE  Total(f) <= Total(g)
<1> DEFINE F == [p \in Pairs(f) |-> <<h[p[1]], p[2]>>]
<1>1. \A p \in Pairs(f) : p[1] \in D /\ p[2] \in 1..f[p[1]] /\ p = <<p[1], p[2]>>
  BY PairsMember
<1>2. \A p \in Pairs(f) : <<h[p[1]], p[2]>> \in Pairs(g)
  BY <1>1, PairsMember
<1>3. \A p, q \in Pairs(f) : F[p] = F[q] => p = q
  BY <1>1
<1>4. F \in [Pairs(f) -> Pairs(g)]
  BY <1>2
<1>5. F \in Injection(Pairs(f), Pairs(g))
  BY <1>3, <1>4 DEF Injection, IsInjective
<1>6. IsFiniteSet(Pairs(g))
  BY TotalNat
<1> HIDE DEF F
<1> QED BY <1>5, <1>6, FS_Injection DEF Total

\* One more value.
LEMMA TotalAppend ==
  ASSUME NEW k \in Nat, NEW f \in [1..(k + 1) -> Nat]
  PROVE  Total(f) = Total(Part(f, 1..k)) + f[k + 1]
<1> DEFINE last == Part(f, {k + 1})
<1>1. 1..(k + 1) = (1..k) \cup {k + 1} /\ (1..k) \cap {k + 1} = {}
  OBVIOUS
<1>2. IsFiniteSet(1..(k + 1))
  BY FS_Interval
<1>3. Total(f) = Total(Part(f, 1..k)) + Total(last)
  BY <1>1, <1>2, TotalSplit
<1>4. DOMAIN last = {k + 1} /\ last[k + 1] = f[k + 1] /\ f[k + 1] \in Nat
  BY DEF Part
<1>5. Total(last) = f[k + 1]
  <2> HIDE DEF last
  <2> QED BY <1>4, TotalOne
<1> QED BY <1>3, <1>5

-----------------------------------------------------------------------------
(* The budget of the cache.                                                *)

\* A graph is built from finitely many vectors.
Graphs == {i \in Indexes : IsFiniteSet(i.content)}
Distinct(s) == \A m, n \in 1..Len(s) : s[m].key = s[n].key => m = n

\* A graph of no more vectors than its namespace may hold fits the budget.
LEMMA FittingSize ==
  ASSUME NEW i \in Graphs
  PROVE  /\ Size(i) \in Nat
         /\ Cardinality(i.content) <= Capacity(i.key) => Size(i) <= Budget
<1>1. Cardinality(i.content) \in Nat /\ Weight[i.key.dim] \in Nat \ {0} /\ Budget \in Nat
  BY FS_CardinalityType, SearchAssumption DEF Graphs, Indexes, IndexKeys
<1>2. \A a, b \in Nat : a * b \in Nat
  OBVIOUS
<1>3. \A a \in Nat, b \in Nat \ {0} : a \div b \in Nat /\ (a \div b) * b <= a
  OBVIOUS
<1>4. \A a, b, c \in Nat : a <= b => a * c <= b * c
  OBVIOUS
<1> DEFINE n == Cardinality(i.content)
           w == Weight[i.key.dim]
           most == Budget \div w
<1> HIDE DEF n, w
<1>5. n \in Nat /\ w \in Nat \ {0} /\ most \in Nat /\ most * w <= Budget
  BY <1>1, <1>3 DEF n, w
<1>6. n <= most => n * w <= most * w
  <2> HIDE DEF most
  <2> QED BY <1>4, <1>5
<1>7. n * w \in Nat /\ most * w \in Nat
  <2> HIDE DEF most
  <2> QED BY <1>2, <1>5
<1>8. n <= most => n * w <= Budget
  <2> HIDE DEF most
  <2> QED BY <1>1, <1>5, <1>6, <1>7
<1> QED BY <1>7, <1>8 DEF n, w, Size, Capacity

\* The estimate of the cached bytes is a number, and grows by what is pushed.
LEMMA TotalSizeLaws ==
  ASSUME NEW s \in Seq(Graphs)
  PROVE  /\ TotalSize(s) \in Nat /\ (s = <<>> => TotalSize(s) = 0)
         /\ \A i \in Graphs : TotalSize(Append(s, i)) = TotalSize(s) + Size(i)
<1> DEFINE f == [n \in DOMAIN s |-> Size(s[n])]
<1>1. Len(s) \in Nat /\ DOMAIN s = 1..Len(s)
  OBVIOUS
<1>2. f \in [1..Len(s) -> Nat] /\ IsFiniteSet(1..Len(s))
  BY <1>1, FittingSize, FS_Interval
<1>3. Total(f) \in Nat
  <2> HIDE DEF f
  <2> QED BY <1>2, TotalNat
<1>4. s = <<>> => Total(f) = 0
  <2>1. s = <<>> => DOMAIN f = {}
    OBVIOUS
  <2> HIDE DEF f
  <2> QED BY <2>1, TotalOne
<1>5. ASSUME NEW i \in Graphs PROVE TotalSize(Append(s, i)) = TotalSize(s) + Size(i)
  <2> DEFINE t == Append(s, i)
             g == [n \in DOMAIN t |-> Size(t[n])]
  <2>1. DOMAIN t = 1..(Len(s) + 1) /\ t[Len(s) + 1] = i /\ \A n \in 1..Len(s) : t[n] = s[n]
    OBVIOUS
  <2> HIDE DEF t
  <2>2. g[Len(s) + 1] = Size(i) /\ \A n \in 1..Len(s) : g[n] = Size(s[n])
    BY <1>1, <2>1
  <2>3. \A n \in 1..(Len(s) + 1) : n \in 1..Len(s) \/ n = Len(s) + 1
    BY <1>1
  <2>4. \A n \in 1..(Len(s) + 1) : g[n] \in Nat
    <3> HIDE DEF g
    <3>1. \A n \in 1..Len(s) : s[n] \in Graphs
      BY <1>1
    <3> QED BY <2>2, <2>3, <3>1, FittingSize
  <2>5. g \in [1..(Len(s) + 1) -> Nat]
    BY <2>1, <2>4
  <2>6. Part(g, 1..Len(s)) = f
    BY <1>1, <2>2 DEF Part
  <2>7. Total(g) = Total(Part(g, 1..Len(s))) + g[Len(s) + 1]
    <3> HIDE DEF g
    <3> QED BY <1>1, <2>5, TotalAppend
  <2> QED BY <2>2, <2>6, <2>7 DEF TotalSize, t
<1> QED BY <1>3, <1>4, <1>5 DEF TotalSize

\* What is removed is taken off the estimate.
LEMMA TotalSizeRemove ==
  ASSUME NEW s \in Seq(Graphs), NEW i \in 1..Len(s)
  PROVE  TotalSize(RemoveAt(s, i)) + Size(s[i]) <= TotalSize(s)
<1> DEFINE t == RemoveAt(s, i)
           f == [n \in DOMAIN s |-> Size(s[n])]
           g == [n \in DOMAIN t |-> Size(t[n])]
           rest == (1..Len(s)) \ {i}
           h == [n \in 1..(Len(s) - 1) |-> IF n < i THEN n ELSE n + 1]
<1>1. Len(s) \in Nat \ {0} /\ i \in Nat /\ DOMAIN s = 1..Len(s)
  OBVIOUS
<1>2. /\ t \in Seq(Graphs) /\ Len(t) = Len(s) - 1 /\ DOMAIN t = 1..(Len(s) - 1)
      /\ \A n \in 1..(Len(s) - 1) : t[n] = IF n < i THEN s[n] ELSE s[n + 1]
  <2>1. /\ t \in Seq(Graphs) /\ Len(t) = Len(s) - 1
        /\ \A n \in 1..(Len(s) - 1) : t[n] = IF n < i THEN s[n] ELSE s[n + 1]
    BY RemoveAtElements
  <2> HIDE DEF t
  <2> QED BY <2>1
<1> HIDE DEF t
<1>3. f \in [1..Len(s) -> Nat] /\ \A n \in 1..Len(s) : f[n] = Size(s[n])
  BY <1>1, FittingSize
<1>4. g \in [1..(Len(s) - 1) -> Nat] /\ \A n \in 1..(Len(s) - 1) : g[n] = Size(t[n])
  <2>1. \A n \in 1..(Len(s) - 1) : t[n] \in Graphs
    BY <1>1, <1>2
  <2> QED BY <1>2, <2>1, FittingSize
<1>5. /\ h \in [1..(Len(s) - 1) -> rest]
      /\ \A m, n \in 1..(Len(s) - 1) : h[m] = h[n] => m = n
      /\ \A n \in 1..(Len(s) - 1) : t[n] = s[h[n]]
  <2>1. \A n \in 1..(Len(s) - 1) : h[n] = IF n < i THEN n ELSE n + 1
    OBVIOUS
  <2>2. \A n \in 1..(Len(s) - 1) : (IF n < i THEN n ELSE n + 1) \in rest
    BY <1>1
  <2>3. h \in [1..(Len(s) - 1) -> rest]
    BY <2>2
  <2>4. \A m, n \in 1..(Len(s) - 1) : h[m] = h[n] => m = n
    <3> HIDE DEF h
    <3> QED BY <1>1, <2>1
  <2>5. \A n \in 1..(Len(s) - 1) : t[n] = s[h[n]]
    BY <1>2, <2>1
  <2> QED BY <2>3, <2>4, <2>5
<1> DEFINE others == Part(f, rest)
<1>6. others \in [rest -> Nat] /\ \A n \in rest : others[n] = f[n]
  BY <1>3 DEF Part
<1>7. \A n \in 1..(Len(s) - 1) : others[h[n]] = g[n]
  <2>1. \A n \in 1..(Len(s) - 1) : h[n] \in rest /\ h[n] \in 1..Len(s)
    <3> HIDE DEF h
    <3> QED BY <1>5
  <2> HIDE DEF h, g, f, others, rest
  <2>2. ASSUME NEW n \in 1..(Len(s) - 1) PROVE others[h[n]] = g[n]
    <3>1. others[h[n]] = f[h[n]] /\ f[h[n]] = Size(s[h[n]])
      BY <1>3, <1>6, <2>1
    <3>2. g[n] = Size(t[n]) /\ t[n] = s[h[n]]
      BY <1>4, <1>5
    <3> QED BY <3>1, <3>2
  <2> QED BY <2>2
<1>8. IsFiniteSet(1..(Len(s) - 1)) /\ IsFiniteSet(1..Len(s)) /\ IsFiniteSet(rest)
  <2>1. 1 \in Int /\ Len(s) \in Int /\ Len(s) - 1 \in Int
    BY <1>1
  <2>2. IsFiniteSet(1..(Len(s) - 1)) /\ IsFiniteSet(1..Len(s))
    BY <2>1, FS_Interval
  <2> QED BY <2>2, FS_Subset
<1> HIDE DEF h, f, g, others
<1>9. Total(g) <= Total(others)
  <2> DEFINE left == 1..(Len(s) - 1)
  <2>1. /\ g \in [left -> Nat] /\ others \in [rest -> Nat] /\ h \in [left -> rest]
        /\ IsFiniteSet(left) /\ IsFiniteSet(rest)
    BY <1>4, <1>5, <1>6, <1>8
  <2>2. \A m, n \in left : h[m] = h[n] => m = n
    BY <1>5
  <2>3. \A n \in left : others[h[n]] = g[n]
    BY <1>7
  <2> HIDE DEF rest, left
  <2> QED BY <2>1, <2>2, <2>3, TotalInjection
<1>10. Total(f) = Total(others) + f[i]
  <2> DEFINE one == Part(f, {i})
             all == 1..Len(s)
  <2>1. all = rest \cup {i} /\ rest \cap {i} = {}
    OBVIOUS
  <2>2. Total(f) = Total(others) + Total(one)
    <3>1. f \in [all -> Nat] /\ IsFiniteSet(all)
      BY <1>3, <1>8
    <3> HIDE DEF rest, all
    <3> QED BY <2>1, <3>1, TotalSplit DEF others
  <2>3. DOMAIN one = {i} /\ one[i] = f[i] /\ f[i] \in Nat
    BY <1>3 DEF Part
  <2>4. Total(one) = f[i]
    <3> HIDE DEF one
    <3> QED BY <2>3, TotalOne
  <2> QED BY <2>2, <2>4
<1>11. Total(g) \in Nat /\ Total(others) \in Nat
  BY <1>4, <1>6, <1>8, TotalNat
<1>12. f[i] = Size(s[i]) /\ f[i] \in Nat
  BY <1>3
<1>13. TotalSize(t) = Total(g) /\ TotalSize(s) = Total(f)
  BY DEF TotalSize, f, g
<1> QED BY <1>9, <1>10, <1>11, <1>12, <1>13 DEF t

\* The namespaces of the other graphs.
LEMMA DistinctRemove ==
  ASSUME NEW s \in Seq(Graphs), Distinct(s), NEW i \in 1..Len(s)
  PROVE  /\ Distinct(RemoveAt(s, i))
         /\ \A n \in 1..Len(RemoveAt(s, i)) : RemoveAt(s, i)[n].key # s[i].key
<1> DEFINE t == RemoveAt(s, i)
<1>1. /\ Len(t) = Len(s) - 1
      /\ \A n \in 1..(Len(s) - 1) : t[n] = IF n < i THEN s[n] ELSE s[n + 1]
  BY RemoveAtElements
<1> HIDE DEF t
<1>2. Len(s) \in Nat
  OBVIOUS
<1>3. \A n \in 1..Len(t) : \E m \in (1..Len(s)) \ {i} : t[n] = s[m] /\ m = (IF n < i THEN n ELSE n + 1)
  BY <1>1, <1>2
<1>4. Distinct(t)
  <2> SUFFICES ASSUME NEW m \in 1..Len(t), NEW n \in 1..Len(t), t[m].key = t[n].key PROVE m = n
    BY DEF Distinct
  <2>1. PICK a \in (1..Len(s)) \ {i} : t[m] = s[a] /\ a = (IF m < i THEN m ELSE m + 1)
    BY <1>3
  <2>2. PICK b \in (1..Len(s)) \ {i} : t[n] = s[b] /\ b = (IF n < i THEN n ELSE n + 1)
    BY <1>3
  <2>3. a = b
    BY <2>1, <2>2 DEF Distinct
  <2> QED BY <1>1, <1>2, <2>1, <2>2, <2>3
<1>5. \A n \in 1..Len(t) : t[n].key # s[i].key
  BY <1>3 DEF Distinct
<1> QED BY <1>4, <1>5 DEF t

\* A graph of another namespace is pushed.
LEMMA DistinctAppend ==
  ASSUME NEW s \in Seq(Graphs), Distinct(s), NEW i \in Graphs,
         \A n \in 1..Len(s) : s[n].key # i.key
  PROVE  Distinct(Append(s, i))
<1> DEFINE t == Append(s, i)
<1>1. Len(t) = Len(s) + 1 /\ t[Len(s) + 1] = i /\ Len(s) \in Nat /\ \A n \in 1..Len(s) : t[n] = s[n]
  OBVIOUS
<1> HIDE DEF t
<1>2. \A n \in 1..Len(t) : n \in 1..Len(s) \/ n = Len(s) + 1
  BY <1>1
<1> QED BY <1>1, <1>2 DEF Distinct, t

\* The newest graphs.
LEMMA DistinctSuffix ==
  ASSUME NEW s \in Seq(Graphs), Distinct(s), NEW e \in 0..Len(s)
  PROVE  Distinct(SubSeq(s, e + 1, Len(s)))
<1> DEFINE t == SubSeq(s, e + 1, Len(s))
<1>1. Len(t) = Len(s) - e /\ \A n \in 1..(Len(s) - e) : t[n] = s[e + n]
  OBVIOUS
<1> HIDE DEF t
<1>2. \A n \in 1..(Len(s) - e) : e + n \in 1..Len(s) /\ n \in Int
  OBVIOUS
<1>3. ASSUME NEW m \in 1..Len(t), NEW n \in 1..Len(t), t[m].key = t[n].key PROVE m = n
  <2>1. e + m = e + n
    BY <1>1, <1>2, <1>3 DEF Distinct
  <2> QED BY <2>1
<1> QED BY <1>3 DEF Distinct, t

\* VectorCache::insert of a graph that fits the budget leaves a cache that fits,
\* one graph per namespace: with everything else evicted there is room for it.
LEMMA InsertedFits ==
  ASSUME cache \in Seq(Graphs), Distinct(cache), NEW i \in Graphs, Size(i) <= Budget
  PROVE  /\ Inserted(i) \in Seq(Graphs) /\ Distinct(Inserted(i))
         /\ TotalSize(Inserted(i)) <= Budget
<1> DEFINE same == {n \in 1..Len(cache) : cache[n].key = i.key}
           old == CHOOSE n \in same : TRUE
           others == IF same = {} THEN cache ELSE RemoveAt(cache, old)
           fitting == {n \in 0..Len(others) :
                         TotalSize(SubSeq(others, n + 1, Len(others))) + Size(i) <= Budget}
           evicted == IF fitting = {} THEN Len(others) ELSE Min(fitting)
           kept == SubSeq(others, evicted + 1, Len(others))
<1>1. /\ others \in Seq(Graphs) /\ Distinct(others)
      /\ \A n \in 1..Len(others) : others[n].key # i.key
  <2>1. CASE same = {}
    BY <2>1
  <2>2. CASE same # {}
    <3>1. old \in 1..Len(cache) /\ cache[old].key = i.key
      BY <2>2
    <3> HIDE DEF same, old
    <3>2. RemoveAt(cache, old) \in Seq(Graphs)
      BY <3>1, RemoveAtElements
    <3>3. /\ Distinct(RemoveAt(cache, old))
          /\ \A n \in 1..Len(RemoveAt(cache, old)) : RemoveAt(cache, old)[n].key # i.key
      BY <3>1, DistinctRemove
    <3> QED BY <2>2, <3>2, <3>3
  <2> QED BY <2>1, <2>2
<1>2. Inserted(i) = Append(kept, i)
  BY DEF Inserted
<1> HIDE DEF others
<1>3. Len(others) \in Nat /\ Size(i) \in Nat /\ Budget \in Nat
  BY <1>1, FittingSize, SearchAssumption
<1>4. Len(others) \in fitting
  <2>1. SubSeq(others, Len(others) + 1, Len(others)) = <<>>
    BY <1>1, <1>3
  <2>2. <<>> \in Seq(Graphs)
    OBVIOUS
  <2>3. TotalSize(<<>>) = 0
    BY <2>2, TotalSizeLaws
  <2>4. TotalSize(SubSeq(others, Len(others) + 1, Len(others))) = 0
    BY <2>1, <2>3, Zenon
  <2>5. TotalSize(SubSeq(others, Len(others) + 1, Len(others))) + Size(i) <= Budget
    <3> DEFINE n == TotalSize(SubSeq(others, Len(others) + 1, Len(others)))
    <3> HIDE DEF n
    <3>1. n = 0
      BY <2>4 DEF n
    <3>2. n + Size(i) <= Budget
      BY <1>3, <3>1
    <3> QED BY <3>2 DEF n
  <2> QED BY <1>3, <2>5
<1>5. evicted \in fitting
  <2>1. fitting \in SUBSET (0..Len(others)) /\ fitting # {}
    BY <1>4
  <2> HIDE DEF fitting
  <2> QED BY <1>3, <2>1, MinType
<1>6. evicted \in 0..Len(others) /\ TotalSize(kept) + Size(i) <= Budget
  <2> HIDE DEF evicted
  <2> QED BY <1>5
<1> HIDE DEF evicted
<1>7. kept \in Seq(Graphs) /\ From(kept, others) /\ Distinct(kept)
  BY <1>1, <1>6, SuffixFrom, DistinctSuffix
<1> HIDE DEF kept
<1>8. \A n \in 1..Len(kept) : kept[n].key # i.key
  BY <1>1, <1>7 DEF From
<1>9. Append(kept, i) \in Seq(Graphs)
  BY <1>7
<1>10. Distinct(Append(kept, i))
  BY <1>7, <1>8, DistinctAppend
<1>11. TotalSize(Append(kept, i)) = TotalSize(kept) + Size(i)
  BY <1>7, TotalSizeLaws
<1> QED BY <1>2, <1>6, <1>9, <1>10, <1>11

\* What a scan has loaded is finite, and it fits once the loop has ended with
\* fewer rows than too_large.
ScansFit ==
  \A s \in Searchers :
    /\ IsFiniteSet(loaded[s])
    /\ pc[s] \in {"verify", "build"} => Cardinality(loaded[s]) <= Capacity(query[s].key)

BudgetInv ==
  /\ SearchTypeInv /\ ScansFit
  /\ cache \in Seq(Graphs) /\ Distinct(cache) /\ TotalSize(cache) <= Budget

\* A namespace has finitely many vectors.
LEMMA ContentFinite == ASSUME NEW key PROVE IsFiniteSet(Content(key))
<1> DEFINE S == {x \in Runs : vectors[x][key.model].dim = key.dim}
           f == [r \in S |-> [run |-> r, of |-> vectors[r][key.model].of]]
<1>1. IsFiniteSet(S)
  BY SearchAssumption, FS_Subset
<1>2. f \in Surjection(S, Content(key))
  BY DEF Surjection, Content
<1> HIDE DEF S, f
<1> QED BY <1>1, <1>2, FS_Surjection

\* The cache is empty at first.
LEMMA BudgetInit == Init => BudgetInv
<1> SUFFICES ASSUME Init PROVE BudgetInv
  OBVIOUS
<1>1. cache = <<>> /\ <<>> \in Seq(Graphs) /\ Budget \in Nat
  BY SearchAssumption DEF Init
<1>2. TotalSize(cache) = 0
  BY <1>1, TotalSizeLaws
<1>3. Distinct(cache)
  BY <1>1 DEF Distinct
<1>4. ScansFit
  BY FS_EmptySet DEF Init, ScansFit
<1> QED BY <1>1, <1>2, <1>3, <1>4, SearchInitType DEF BudgetInv

\* A hit moves a graph to the other end of the cache.
LEMMA HitBudget ==
  ASSUME BudgetInv, NEW s, NEW n \in 1..Len(cache), Hit(s, n)
  PROVE  cache' \in Seq(Graphs) /\ Distinct(cache') /\ TotalSize(cache') <= Budget
<1> DEFINE rest == RemoveAt(cache, n)
<1>1. /\ cache \in Seq(Graphs) /\ cache[n] \in Graphs /\ Distinct(cache)
      /\ TotalSize(cache) <= Budget /\ Budget \in Nat
  BY SearchAssumption DEF BudgetInv
<1>2. rest \in Seq(Graphs)
  BY <1>1, RemoveAtElements
<1>3. Distinct(rest) /\ \A k \in 1..Len(rest) : rest[k].key # cache[n].key
  BY <1>1, DistinctRemove
<1>4. TotalSize(rest) + Size(cache[n]) <= TotalSize(cache)
  BY <1>1, TotalSizeRemove
<1>5. cache' = Append(rest, cache[n])
  BY DEF Hit
<1> HIDE DEF rest
<1>6. TotalSize(cache') = TotalSize(rest) + Size(cache[n])
  BY <1>1, <1>2, <1>5, TotalSizeLaws
<1>7. TotalSize(rest) \in Nat /\ Size(cache[n]) \in Nat /\ TotalSize(cache) \in Nat
  BY <1>1, <1>2, TotalSizeLaws, FittingSize
<1>8. TotalSize(cache') <= Budget
  BY <1>1, <1>4, <1>6, <1>7
<1>9. Distinct(cache') /\ cache' \in Seq(Graphs)
  BY <1>1, <1>2, <1>3, <1>5, DistinctAppend
<1> QED BY <1>8, <1>9

\* Every step keeps what the requests have scanned within their namespace's
\* capacity, and the cache within the budget.
LEMMA BudgetNext == BudgetInv /\ [Next]_vars => BudgetInv'
<1> SUFFICES ASSUME BudgetInv, [Next]_vars PROVE BudgetInv'
  OBVIOUS
<1>1. SearchTypeInv /\ SearchTypeInv' /\ TypeOK /\ ScansFit
  BY SearchNextType DEF BudgetInv, SearchTypeInv
<1>2. ScansFit'
  <2>1. ASSUME NEW s \in Searchers, Scan(s) PROVE ScansFit'
    BY <1>1, <2>1, ContentFinite DEF Scan, Goto, ScansFit, TypeOK
  <2>2. ASSUME NEW s \in Searchers, Drop(s) PROVE ScansFit'
    BY <1>1, <2>2 DEF Drop, Fits, Goto, ScansFit, TypeOK
  <2>3. ASSUME NEW s \in Searchers, Verify(s) PROVE ScansFit'
    BY <1>1, <2>3 DEF Verify, Goto, ScansFit, TypeOK
  <2>4. ASSUME NEW s \in Searchers, Build(s) \/ Search(s) \/ Exact(s) \/ Cancel(s) PROVE ScansFit'
    BY <1>1, <2>4, FS_EmptySet DEF Build, Search, Exact, Cancel, Leave, Goto, ScansFit, TypeOK
  <2>5. ASSUME NEW s \in Searchers,
               \/ \E key \in IndexKeys, mode \in Modes : Begin(s, key, mode)
               \/ Count(s) \/ ReadGeneration(s) \/ Lookup(s) \/ Acquire(s) \/ Respond(s)
        PROVE  ScansFit'
    BY <1>1, <2>5 DEF Begin, Count, ReadGeneration, Lookup, Acquire, Respond, Goto, ScansFit, TypeOK
  <2>6. CASE UNCHANGED <<pc, query, loaded>>
    BY <1>1, <2>6 DEF ScansFit, Capacity
  <2> QED
    BY <2>1, <2>2, <2>3, <2>4, <2>5, <2>6
       DEF Next, Store, Put, Retain, SearchStep, vars, searchVars
<1>3. cache' \in Seq(Graphs) /\ Distinct(cache') /\ TotalSize(cache') <= Budget
  <2>1. CASE UNCHANGED cache
    BY <2>1 DEF BudgetInv
  <2>2. ASSUME NEW s \in Searchers, Lookup(s)
        PROVE  cache' \in Seq(Graphs) /\ Distinct(cache') /\ TotalSize(cache') <= Budget
    BY <2>1, <2>2, HitBudget DEF Lookup
  <2>3. ASSUME NEW s \in Searchers, Build(s)
        PROVE  cache' \in Seq(Graphs) /\ Distinct(cache') /\ TotalSize(cache') <= Budget
    <3> DEFINE built == [key |-> query[s].key, generation |-> gen[s], content |-> loaded[s]]
    <3>1. cache' = Inserted(built) /\ pc[s] = "build"
      BY <2>3 DEF Build
    <3>2. built \in Indexes
      BY <1>1, <3>1 DEF SearchTypeInv, TypeOK, Asking, Indexes
    <3>3. built \in Graphs /\ Cardinality(built.content) <= Capacity(built.key)
      BY <1>1, <3>1, <3>2 DEF ScansFit, Graphs
    <3> HIDE DEF built
    <3>4. Size(built) <= Budget
      BY <3>3, FittingSize
    <3> QED BY <3>1, <3>3, <3>4, InsertedFits DEF BudgetInv
  <2> QED
    BY <2>1, <2>2, <2>3
       DEF Next, Store, Put, Retain, SearchStep, Begin, Count, ReadGeneration, Acquire, Scan, Drop,
           Verify, Search, Exact, Respond, Cancel, vars, searchVars
<1> QED BY <1>1, <1>2, <1>3 DEF BudgetInv

\* VectorCache::insert keeps the estimated bytes of the cache within
\* REFRACT_VECTOR_CACHE_MB and one graph per namespace, for every budget and
\* every order of lookups, builds, uploads, retention and cancelled requests:
\* what is built was checked against the whole budget while it was scanned.
THEOREM CacheWithinBudget == Spec => []CacheBudget
<1>1. BudgetInv => CacheBudget
  BY DEF BudgetInv, CacheBudget, Distinct
<1> QED BY <1>1, BudgetInit, BudgetNext, PTL DEF Spec
=============================================================================
