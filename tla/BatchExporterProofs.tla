------------------------ MODULE BatchExporterProofs ------------------------
(***************************************************************************)
(* The queue limit of BatchExporter, the durability of what it accepts,    *)
(* what a drain leaves behind and the size of the spool, for every finite  *)
(* set of runs, every limit and any number of calls and failures.          *)
(***************************************************************************)
EXTENDS BatchExporter, FiniteSetTheorems, TLAPS

-----------------------------------------------------------------------------
(* Sums.                                                                   *)

Part(f, A) == [x \in A |-> f[x]]

\* The pairs a sum counts, written without UNION.
LEMMA PairsMember ==
  ASSUME NEW D, NEW f \in [D -> Nat]
  PROVE  \A p : p \in Pairs(f) <=> \E x \in D : \E b \in 1..f[x] : p = <<x, b>>
<1>1. DOMAIN f = D
  OBVIOUS
<1>2. \A p : p \in Pairs(f) <=> \E x \in D : p \in {x} \X (1..f[x])
  BY <1>1 DEF Pairs
<1> QED BY <1>2

\* A sum over a finite set is a number.
LEMMA TotalNat ==
  ASSUME NEW D, IsFiniteSet(D), NEW f \in [D -> Nat]
  PROVE  IsFiniteSet(Pairs(f)) /\ Total(f) \in Nat
<1> DEFINE Rows == {{x} \X (1..f[x]) : x \in D}
           g == [x \in D |-> {x} \X (1..f[x])]
<1>1. Pairs(f) = UNION Rows
  BY DEF Pairs
<1>2. IsFiniteSet(Rows)
  <2>1. g \in Surjection(D, Rows)
    BY DEF Surjection
  <2> HIDE DEF Rows, g
  <2> QED BY <2>1, FS_Surjection
<1>3. \A row \in Rows : IsFiniteSet(row)
  <2> SUFFICES ASSUME NEW x \in D PROVE IsFiniteSet({x} \X (1..f[x]))
    OBVIOUS
  <2>1. IsFiniteSet({x})
    BY FS_Singleton
  <2>2. 1 \in Int /\ f[x] \in Int
    OBVIOUS
  <2>3. IsFiniteSet(1..f[x])
    BY <2>2, FS_Interval
  <2> QED BY <2>1, <2>3, FS_Product
<1>4. IsFiniteSet(UNION Rows)
  <2> HIDE DEF Rows
  <2> QED BY <1>2, <1>3, FS_UNION
<1>5. IsFiniteSet(Pairs(f))
  BY <1>1, <1>4
<1> QED BY <1>5, FS_CardinalityType DEF Total

\* The sum of nothing, and of one number.
LEMMA TotalOne ==
  ASSUME NEW f
  PROVE  /\ DOMAIN f = {} => Total(f) = 0
         /\ \A x : DOMAIN f = {x} /\ f[x] \in Nat => Total(f) = f[x]
<1>1. CASE DOMAIN f = {}
  <2>1. Pairs(f) = {}
    BY <1>1 DEF Pairs
  <2> QED BY <1>1, <2>1, FS_EmptySet DEF Total
<1>2. ASSUME NEW x, DOMAIN f = {x}, f[x] \in Nat PROVE Total(f) = f[x]
  <2>1. Pairs(f) = {x} \X (1..f[x])
    BY <1>2 DEF Pairs
  <2>2. IsFiniteSet({x}) /\ Cardinality({x}) = 1
    BY FS_Singleton
  <2>3. IsFiniteSet(1..f[x]) /\ Cardinality(1..f[x]) = f[x]
    BY <1>2, FS_Interval
  <2>4. Cardinality({x} \X (1..f[x])) = Cardinality({x}) * Cardinality(1..f[x])
    BY <2>2, <2>3, FS_Product
  <2> QED BY <2>1, <2>2, <2>3, <2>4, <1>2 DEF Total
<1> QED BY <1>1, <1>2

\* The sum over two disjoint parts.
LEMMA TotalSplit ==
  ASSUME NEW D, IsFiniteSet(D), NEW f \in [D -> Nat], NEW A, NEW B,
         D = A \cup B, A \cap B = {}
  PROVE  Total(f) = Total(Part(f, A)) + Total(Part(f, B))
<1> DEFINE fA == Part(f, A)
           fB == Part(f, B)
<1>1. fA \in [A -> Nat] /\ fB \in [B -> Nat]
  BY DEF Part
<1>2. IsFiniteSet(A) /\ IsFiniteSet(B)
  BY FS_Subset
<1>3. \A x \in A : fA[x] = f[x]
  BY DEF Part
<1>4. \A x \in B : fB[x] = f[x]
  BY DEF Part
<1> HIDE DEF fA, fB
<1>5. Pairs(f) = Pairs(fA) \cup Pairs(fB) /\ Pairs(fA) \cap Pairs(fB) = {}
  BY <1>1, <1>3, <1>4, PairsMember
<1>6. IsFiniteSet(Pairs(fA)) /\ IsFiniteSet(Pairs(fB))
  BY <1>1, <1>2, TotalNat
<1>7. Total(fA) \in Nat /\ Total(fB) \in Nat
  BY <1>1, <1>2, TotalNat
<1>8. Cardinality(Pairs(f)) = Cardinality(Pairs(fA)) + Cardinality(Pairs(fB)) - Cardinality({})
  BY <1>5, <1>6, FS_Union
<1> QED BY <1>7, <1>8, FS_EmptySet DEF Total, fA, fB

\* A sum over different indexes with the same values is no larger than the sum
\* over a set that has all of them.
LEMMA TotalInjection ==
  ASSUME NEW D, IsFiniteSet(D), NEW f \in [D -> Nat],
         NEW E, IsFiniteSet(E), NEW g \in [E -> Nat],
         NEW h \in [D -> E],
         \A x, y \in D : h[x] = h[y] => x = y,
         \A x \in D : g[h[x]] = f[x]
  PROVE  Total(f) <= Total(g)
<1> DEFINE F == [p \in Pairs(f) |-> <<h[p[1]], p[2]>>]
<1>1. \A p \in Pairs(f) : p[1] \in D /\ p[2] \in 1..f[p[1]] /\ p = <<p[1], p[2]>>
  BY PairsMember
<1>2. \A p \in Pairs(f) : <<h[p[1]], p[2]>> \in Pairs(g)
  BY <1>1, PairsMember
<1>3. \A p, q \in Pairs(f) : F[p] = F[q] => p = q
  BY <1>1
<1>4. F \in [Pairs(f) -> Pairs(g)]
  BY <1>2
<1>5. F \in Injection(Pairs(f), Pairs(g))
  BY <1>3, <1>4 DEF Injection, IsInjective
<1>6. IsFiniteSet(Pairs(g))
  BY TotalNat
<1> HIDE DEF F
<1> QED BY <1>5, <1>6, FS_Injection DEF Total

\* What the files of disjoint sets of runs hold is added.
LEMMA WeightSplit ==
  ASSUME NEW S \in SUBSET Runs, NEW T \in SUBSET Runs, S \cap T = {}
  PROVE  Weight(S) \in Nat /\ Weight(S \cup T) = Weight(S) + Weight(T)
<1> DEFINE f == [r \in S \cup T |-> Size[r]]
           g == [r \in S |-> Size[r]]
<1>1. IsFiniteSet(S \cup T) /\ IsFiniteSet(S)
  BY FS_Subset, ExporterAssumption
<1>2. f \in [S \cup T -> Nat] /\ g \in [S -> Nat]
  BY ExporterAssumption
<1>3. Part(f, S) = [r \in S |-> Size[r]] /\ Part(f, T) = [r \in T |-> Size[r]]
  BY DEF Part
<1>4. Total(f) = Total(Part(f, S)) + Total(Part(f, T))
  <2> HIDE DEF f
  <2> QED BY <1>1, <1>2, TotalSplit
<1>5. Total(g) \in Nat
  <2> HIDE DEF g
  <2> QED BY <1>1, <1>2, TotalNat
<1> QED BY <1>3, <1>4, <1>5 DEF Weight

\* The empty set, one run, more runs, and the runs of two sets.
LEMMA WeightLaws ==
  ASSUME NEW S \in SUBSET Runs, NEW T \in SUBSET Runs
  PROVE  /\ Weight(S) \in Nat /\ Weight({}) = 0
         /\ \A r \in Runs : Size[r] \in Nat /\ Weight({r}) = Size[r]
         /\ S \subseteq T => Weight(S) <= Weight(T)
         /\ Weight(S \cup T) <= Weight(S) + Weight(T)
<1>1. \A A, B \in SUBSET Runs : A \cap B = {} => /\ Weight(A) \in Nat
                                                 /\ Weight(A \cup B) = Weight(A) + Weight(B)
  BY WeightSplit
<1>2. Weight({}) = 0
  BY TotalOne DEF Weight
<1>3. ASSUME NEW r \in Runs PROVE Size[r] \in Nat /\ Weight({r}) = Size[r]
  <2> DEFINE f == [x \in {r} |-> Size[x]]
  <2>1. DOMAIN f = {r} /\ f[r] = Size[r] /\ Size[r] \in Nat
    BY ExporterAssumption
  <2>2. Total(f) = f[r]
    <3> HIDE DEF f
    <3> QED BY <2>1, TotalOne
  <2> QED BY <2>1, <2>2 DEF Weight
<1>4. /\ Weight(S) \in Nat /\ Weight(T) \in Nat
      /\ Weight(T \ S) \in Nat /\ Weight(S \cap T) \in Nat
  <2>1. ASSUME NEW A \in SUBSET Runs PROVE Weight(A) \in Nat
    <3>1. {} \in SUBSET Runs /\ A \cap {} = {}
      OBVIOUS
    <3> QED BY <1>1, <3>1
  <2>2. T \ S \in SUBSET Runs /\ S \cap T \in SUBSET Runs
    OBVIOUS
  <2> QED BY <2>1, <2>2
<1>5. Weight(S \cup T) = Weight(S) + Weight(T \ S)
  <2>1. S \cup (T \ S) = S \cup T /\ S \cap (T \ S) = {} /\ T \ S \in SUBSET Runs
    OBVIOUS
  <2> QED BY <1>1, <2>1
<1>6. Weight(T) = Weight(S \cap T) + Weight(T \ S)
  <2>1. /\ (S \cap T) \cup (T \ S) = T /\ (S \cap T) \cap (T \ S) = {}
        /\ S \cap T \in SUBSET Runs /\ T \ S \in SUBSET Runs
    OBVIOUS
  <2> QED BY <1>1, <2>1
<1>7. S \subseteq T => Weight(S) <= Weight(T)
  <2>1. S \subseteq T => S \cap T = S
    OBVIOUS
  <2> QED BY <1>4, <1>6, <2>1
<1>8. Weight(S \cup T) <= Weight(S) + Weight(T)
  BY <1>4, <1>5, <1>6
<1> QED BY <1>2, <1>3, <1>4, <1>7, <1>8

\* The bytes of a queue, and of one without repeated runs.
LEMMA BytesLaws ==
  ASSUME NEW q \in Seq(Runs)
  PROVE  /\ Bytes(q) \in Nat /\ Bytes(<<>>) = 0
         /\ (\A i, j \in DOMAIN q : q[i] = q[j] => i = j) => Bytes(q) <= Weight(Queued(q))
<1> DEFINE f == [i \in DOMAIN q |-> Size[q[i]]]
           g == [r \in Queued(q) |-> Size[r]]
           h == [i \in DOMAIN q |-> q[i]]
<1>1. DOMAIN q = 1..Len(q) /\ Len(q) \in Nat
  OBVIOUS
<1>2. IsFiniteSet(DOMAIN q)
  BY <1>1, FS_Interval
<1>3. Queued(q) \subseteq Runs
  BY DEF Queued
<1>4. IsFiniteSet(Queued(q))
  BY <1>3, FS_Subset, ExporterAssumption
<1>5. f \in [DOMAIN q -> Nat] /\ g \in [Queued(q) -> Nat]
  BY <1>3, ExporterAssumption
<1>6. h \in [DOMAIN q -> Queued(q)] /\ \A i \in DOMAIN q : g[h[i]] = f[i] /\ h[i] = q[i]
  BY DEF Queued
<1>7. Bytes(q) = Total(f) /\ Weight(Queued(q)) = Total(g)
  BY DEF Bytes, Weight
<1>8. Bytes(<<>>) = 0
  BY TotalOne DEF Bytes
<1> HIDE DEF f, g, h
<1>9. Total(f) \in Nat
  BY <1>2, <1>5, TotalNat
<1>10. ASSUME \A i, j \in DOMAIN q : q[i] = q[j] => i = j
       PROVE  Total(f) <= Total(g)
  <2> DEFINE D == DOMAIN q
             E == Queued(q)
  <2>1. /\ IsFiniteSet(D) /\ f \in [D -> Nat] /\ IsFiniteSet(E) /\ g \in [E -> Nat]
        /\ h \in [D -> E]
    BY <1>2, <1>4, <1>5, <1>6
  <2>2. \A x, y \in D : h[x] = h[y] => x = y
    BY <1>6, <1>10
  <2>3. \A x \in D : g[h[x]] = f[x]
    BY <1>6
  <2> HIDE DEF D, E
  <2> QED BY <2>1, <2>2, <2>3, TotalInjection
<1> QED BY <1>7, <1>8, <1>9, <1>10

-----------------------------------------------------------------------------
(* The queue limit.                                                        *)

InFlight == IF accepting = "start" THEN 0 ELSE 1
Reading == IF recovery = "read" THEN 1 ELSE 0

\* What the limit rests on: a call that passed the check and a file that is
\* read each add one entry, and each saw one free place.
CallsInv ==
  /\ queue \in Seq(Runs) /\ calls \in Seq(Runs)
  /\ files \subseteq Runs /\ reading \in Runs \cup {NoRun}
  /\ recovery = "read" => reading \in Runs
  /\ accepting # "start" => calls # <<>>
QueueInv == CallsInv /\ Len(queue) + InFlight + Reading <= MaxQueueSize + 1

\* The limits are numbers and no run is NoRun.
LEMMA Limits == MaxQueueSize \in Nat \ {0} /\ BatchSize \in Nat \ {0} /\ NoRun \notin Runs
  BY ExporterAssumption

\* A call settles: the next one is the oldest.
LEMMA SettleCalls ==
  ASSUME calls \in Seq(Runs), calls # <<>>, NEW ok, Settle(ok)
  PROVE  calls' \in Seq(Runs) /\ accepting' = "start"
  BY DEF Settle

\* What recover() adds is a run, and it reads on only below the limit.
LEMMA ProceedReads ==
  ASSUME NEW q \in Seq(Runs), NEW F \in SUBSET Runs, Proceed(q, F)
  PROVE  /\ files' \subseteq Runs /\ reading' \in Runs \cup {NoRun}
         /\ \/ recovery' = "read" /\ reading' \in Runs /\ Len(q) < MaxQueueSize
            \/ recovery' = "off"
<1> USE Limits
<1>1. CASE \E f \in Readable(q, F) :
             /\ recovery' = "read" /\ reading' = f /\ files' = F \ {f}
             /\ UNCHANGED <<initialized, drain>>
  <2>1. Len(q) \in Nat
    OBVIOUS
  <2> QED BY <1>1, <2>1 DEF Readable, Full
<1>2. CASE recovery' = "off" /\ reading' = NoRun /\ files' = {}
  BY <1>2
<1> QED BY <1>1, <1>2 DEF Proceed

\* The types the limit needs are kept by every step.
LEMMA CallsNext == CallsInv /\ [Next]_vars => CallsInv'
<1> SUFFICES ASSUME CallsInv, [Next]_vars PROVE CallsInv'
  OBVIOUS
<1> USE DEF CallsInv
<1>1. CASE Check
  <2>1. CASE \E ok \in BOOLEAN : Settle(ok)
    BY <1>1, <2>1, SettleCalls DEF Check, recoverVars
  <2>2. CASE ~ \E ok \in BOOLEAN : Settle(ok)
    BY <1>1, <2>2 DEF Check, recoverVars
  <2> QED BY <2>1, <2>2
<1>2. CASE ReadExisting
  <2>1. CASE \E ok \in BOOLEAN : Settle(ok)
    BY <1>2, <2>1, SettleCalls DEF ReadExisting, recoverVars
  <2>2. CASE ~ \E ok \in BOOLEAN : Settle(ok)
    BY <1>2, <2>2 DEF ReadExisting, recoverVars
  <2> QED BY <2>1, <2>2
<1>3. CASE Rename \/ SyncRename
  BY <1>3 DEF Rename, SyncRename, recoverVars
<1>4. CASE Push
  <2>1. calls # <<>> /\ Head(calls) \in Runs
    BY <1>4 DEF Push
  <2>2. calls' \in Seq(Runs) /\ accepting' = "start"
    BY <1>4, <2>1, SettleCalls DEF Push
  <2>3. queue' \in Seq(Runs)
    BY <1>4, <2>1 DEF Push
  <2> QED BY <1>4, <2>2, <2>3 DEF Push, recoverVars
<1>5. CASE Initialize \/ List
  BY <1>5 DEF Initialize, List, callVars, Spooled
<1>6. CASE Scan
  BY <1>6, ProceedReads DEF Scan, callVars
<1>7. CASE ReadSpooled
  <2>1. Append(queue, reading) \in Seq(Runs)
    BY <1>7 DEF ReadSpooled
  <2> QED BY <1>7, <2>1, ProceedReads DEF ReadSpooled, callVars
<1>8. CASE Splice
  <2>1. queue' \in Seq(Runs)
    BY <1>8 DEF Splice
  <2> QED BY <1>8, <2>1 DEF Splice, Refill, callVars
<1>9. CASE Start \/ Slice \/ Unlink \/ SyncUnlink \/ \E answer \in Answers : Send(answer)
  BY <1>9 DEF Start, Slice, Unlink, SyncUnlink, Send, callVars, recoverVars
<1>10. CASE \E r \in Runs : Export(r)
  <2> PICK r \in Runs : Export(r)
    BY <1>10
  <2>1. calls' \in Seq(Runs) /\ calls' # <<>>
    BY DEF Export
  <2> QED BY <2>1 DEF Export, recoverVars
<1>11. CASE Flush \/ Shutdown
  BY <1>11 DEF Flush, Shutdown, callVars, recoverVars
<1>12. CASE Kill \/ PowerFailure
  <2>1. Fresh
    BY <1>12 DEF Kill, PowerFailure
  <2>2. <<>> \in Seq(Runs)
    OBVIOUS
  <2> QED BY <2>1, <2>2 DEF Fresh
<1>13. CASE UNCHANGED vars
  BY <1>13 DEF vars, processVars, callVars, recoverVars
<1> QED
  BY <1>1, <1>2, <1>3, <1>4, <1>5, <1>6, <1>7, <1>8, <1>9, <1>10, <1>11, <1>12, <1>13
  DEF Next, Accepting, Recovering, Draining

\* Neither a passed check nor a started read leaves more than one place short.
LEMMA QueueNext == QueueInv /\ [Next]_vars => QueueInv'
<1> SUFFICES ASSUME QueueInv, [Next]_vars
             PROVE  Len(queue') + InFlight' + Reading' <= MaxQueueSize + 1
  BY CallsNext DEF QueueInv
<1> USE Limits
<1>a. /\ Len(queue) \in Nat /\ Len(calls) \in Nat
      /\ calls # <<>> => Len(calls) > 0
      /\ InFlight \in 0..1 /\ Reading \in 0..1
      /\ Len(queue) + InFlight + Reading <= MaxQueueSize + 1
  <2>1. Len(queue) \in Nat
    BY DEF QueueInv, CallsInv
  <2>2. Len(calls) \in Nat /\ (calls # <<>> => Len(calls) > 0)
    BY DEF QueueInv, CallsInv
  <2>3. InFlight \in 0..1 /\ Reading \in 0..1
    BY DEF InFlight, Reading
  <2> QED BY <2>1, <2>2, <2>3 DEF QueueInv
<1>b. ASSUME queue' = queue, accepting' = accepting, recovery' = recovery
      PROVE  Len(queue') + InFlight' + Reading' <= MaxQueueSize + 1
  BY <1>a, <1>b DEF InFlight, Reading
<1>1. CASE Check \/ ReadExisting
  <2>1. UNCHANGED <<queue, recovery>>
    BY <1>1 DEF Check, ReadExisting, recoverVars
  <2>2. \/ InFlight' = 0
        \/ InFlight' = 1 /\ InFlight = 1
        \/ InFlight' = 1 /\ Len(queue) + Len(calls) <= MaxQueueSize /\ Len(calls) > 0
    BY <1>1, <1>a DEF Check, ReadExisting, Settle, Crowded, InFlight
  <2>3. Reading' = Reading
    BY <2>1 DEF Reading
  <2> QED BY <1>a, <2>1, <2>2, <2>3
<1>2. CASE Rename \/ SyncRename
  BY <1>2, <1>a DEF Rename, SyncRename, recoverVars, InFlight, Reading
<1>3. CASE Push
  <2>1. Len(queue') = Len(queue) + 1 /\ Reading' = Reading
    BY <1>3 DEF Push, recoverVars, Reading, QueueInv, CallsInv
  <2>2. InFlight = 1 /\ InFlight' = 0
    BY <1>3 DEF Push, Settle, InFlight
  <2> QED BY <1>a, <2>1, <2>2
<1>4. CASE Initialize \/ List
  <2>1. InFlight' = InFlight /\ queue' = queue
    BY <1>4 DEF Initialize, List, callVars, InFlight
  <2>2. Reading' = 0
    BY <1>4 DEF Initialize, List, Reading
  <2> QED BY <1>a, <2>1, <2>2
<1>5. CASE Scan
  <2>1. InFlight' = InFlight /\ queue' = queue
    BY <1>5 DEF Scan, callVars, InFlight
  <2>2. Reading' = 0 \/ (Reading' = 1 /\ Len(queue) < MaxQueueSize)
    BY <1>5, ProceedReads DEF Scan, Reading, QueueInv, CallsInv
  <2> QED BY <1>a, <2>1, <2>2
<1>6. CASE ReadSpooled
  <2>1. InFlight' = InFlight /\ Reading = 1
    BY <1>6 DEF ReadSpooled, callVars, InFlight, Reading
  <2>2. queue' \in Seq(Runs) /\ Len(queue') = Len(queue) + 1
    BY <1>6 DEF ReadSpooled, QueueInv, CallsInv
  <2>3. Reading' = 0 \/ (Reading' = 1 /\ Len(queue') < MaxQueueSize)
    BY <1>6, <2>2, ProceedReads DEF ReadSpooled, Reading, QueueInv, CallsInv
  <2> QED BY <1>a, <2>1, <2>2, <2>3
<1>7. CASE Splice
  <2>1. Len(queue') \in Nat /\ Len(queue') <= Len(queue)
    <3>1. queue \in Seq(Runs) /\ queue' = SubSeq(queue, Len(batch) + 1, Len(queue))
      BY <1>7 DEF Splice, QueueInv, CallsInv
    <3>2. Len(batch) \in Nat
      BY DEF QueueInv, CallsInv
    <3> QED BY <3>1, <3>2, <1>a
  <2>2. InFlight' = InFlight /\ Reading' = 0
    BY <1>7 DEF Splice, Refill, callVars, InFlight, Reading
  <2> QED BY <1>a, <2>1, <2>2
<1>8. CASE Start \/ Slice \/ Unlink \/ SyncUnlink \/ \E answer \in Answers : Send(answer)
  BY <1>8, <1>b DEF Start, Slice, Unlink, SyncUnlink, Send, callVars, recoverVars
<1>9. CASE \/ \E r \in Runs : Export(r)
           \/ Flush \/ Shutdown
  BY <1>9, <1>b DEF Export, Flush, Shutdown, callVars, recoverVars
<1>10. CASE Kill \/ PowerFailure
  <2>1. InFlight' = 0 /\ Reading' = 0 /\ queue' = <<>>
    BY <1>10 DEF Kill, PowerFailure, Fresh, InFlight, Reading
  <2>2. Len(queue') = 0
    BY <2>1
  <2> QED BY <2>1, <2>2, Limits
<1>11. CASE UNCHANGED vars
  BY <1>11, <1>b DEF vars, processVars, callVars, recoverVars
<1> QED
  BY <1>1, <1>2, <1>3, <1>4, <1>5, <1>6, <1>7, <1>8, <1>9, <1>10, <1>11
  DEF Next, Accepting, Recovering, Draining

\* QueueBounded: the queue outgrows maxQueueSize by one entry at most, although
\* export() and recover() push after an await.
THEOREM QueueLimit == Spec => []QueueBounded
<1>1. Init => QueueInv
  BY Limits DEF Init, QueueInv, CallsInv, InFlight, Reading
<1>2. QueueInv => QueueBounded
  <2>1. InFlight \in 0..1 /\ Reading \in 0..1
    BY DEF InFlight, Reading
  <2>2. ASSUME QueueInv PROVE Len(queue) \in Nat
    BY <2>2 DEF QueueInv, CallsInv
  <2> QED BY <2>1, <2>2, Limits DEF QueueInv, QueueBounded
<1> QED BY <1>1, <1>2, QueueNext, PTL DEF Spec

-----------------------------------------------------------------------------
(* What is accepted survives.                                              *)

Kept == {r \in Runs : disk[r] = "kept"}
\* What a kill cannot take, and what nothing can take.
Safe == received \cup Spooled
Sure == IF kills = 0 THEN received \cup Kept ELSE Safe

FilesType ==
  /\ disk \in [Runs -> {"none", "new", "kept", "gone"}]
  /\ kills \in Nat
  /\ received \subseteq Runs
  /\ batch \in Seq(Runs) /\ unlinked \in Nat

\* Only what the server has is unlinked.
BatchInv ==
  /\ drain = "send" => Len(batch) > 0
  /\ drain = "unlink" => unlinked < Len(batch) /\ Queued(batch) \subseteq received
\* The snapshots a process knows of are safe, and no other call writes the
\* file of the oldest one.
KnownInv ==
  /\ Queued(queue) \subseteq Safe /\ files \subseteq Safe
  /\ recovery = "read" => reading \in Safe
  /\ accepting = "write" => Head(calls) \notin Spooled
  /\ accepting = "sync" => Head(calls) \in Safe
\* Before any kill, only the file of the oldest call waits for its sync.
SyncedInv ==
  kills = 0 => \A r \in Runs : disk[r] = "new" => accepting = "sync" /\ r = Head(calls)
SureInv ==
  /\ accepted \subseteq Sure
  /\ accepting = "push" => Head(calls) \in Sure

DurableInv == CallsInv /\ FilesType /\ BatchInv /\ KnownInv /\ SyncedInv /\ SureInv

\* The types of the files and the batch are kept by every step.
LEMMA FilesNext == CallsInv /\ FilesType /\ BatchInv /\ [Next]_vars => FilesType'
<1> SUFFICES ASSUME CallsInv, FilesType, BatchInv, [Next]_vars PROVE FilesType'
  OBVIOUS
<1> USE DEF FilesType
<1>e. <<>> \in Seq(Runs)
  OBVIOUS
<1>1. CASE Check \/ ReadExisting \/ Push \/ Initialize \/ List \/ Scan \/ ReadSpooled
  BY <1>1 DEF Check, ReadExisting, Push, Initialize, List, Scan, ReadSpooled, outside, drainVars
<1>2. CASE Rename \/ SyncRename
  BY <1>2 DEF Rename, SyncRename, Synced, drainVars, CallsInv
<1>3. CASE Start \/ Flush \/ Shutdown \/ \E r \in Runs : Export(r)
  BY <1>3 DEF Start, Flush, Shutdown, Export, outside, drainVars
<1>4. CASE Slice
  <2>1. batch' \in Seq(Runs)
    <3>1. CASE queue = <<>>
      BY <1>4, <3>1 DEF Slice
    <3>2. CASE queue # <<>>
      <4> DEFINE n == IF Len(queue) < BatchSize THEN Len(queue) ELSE BatchSize
      <4>1. queue \in Seq(Runs) /\ n \in 1..Len(queue)
        BY <3>2, Limits DEF CallsInv
      <4>2. SubSeq(queue, 1, n) \in Seq(Runs)
        BY <4>1
      <4> QED BY <1>4, <3>2, <4>2 DEF Slice
    <3> QED BY <3>1, <3>2
  <2> QED BY <1>4, <2>1 DEF Slice, outside
<1>5. CASE \E answer \in Answers : Send(answer)
  <2>1. received' \subseteq Runs
    BY <1>5 DEF Send, Queued
  <2>2. batch' \in Seq(Runs)
    BY <1>5, <1>e DEF Send
  <2> QED BY <1>5, <2>1, <2>2 DEF Send
<1>6. CASE Unlink
  <2>1. batch' \in Seq(Runs)
    BY <1>6, <1>e DEF Unlink
  <2> QED BY <1>6, <2>1 DEF Unlink
<1>7. CASE SyncUnlink
  BY <1>7 DEF SyncUnlink, Synced
<1>8. CASE Splice
  <2>1. batch' \in Seq(Runs)
    BY <1>8 DEF Splice
  <2> QED BY <1>8, <2>1 DEF Splice, outside
<1>9. CASE Kill \/ PowerFailure
  <2>0. Fresh
    BY <1>9 DEF Kill, PowerFailure
  <2>1. batch' \in Seq(Runs) /\ unlinked' \in Nat
    BY <2>0, <1>e DEF Fresh
  <2> QED BY <1>9, <2>1 DEF Kill, PowerFailure
<1>10. CASE UNCHANGED vars
  BY <1>10 DEF vars, outside, processVars, drainVars
<1> QED
  BY <1>1, <1>2, <1>3, <1>4, <1>5, <1>6, <1>7, <1>8, <1>9, <1>10
  DEF Next, Accepting, Recovering, Draining

\* A batch is unlinked once the server has it.
LEMMA BatchNext == CallsInv /\ FilesType /\ BatchInv /\ [Next]_vars => BatchInv'
<1> SUFFICES ASSUME CallsInv, FilesType, BatchInv, [Next]_vars PROVE BatchInv'
  OBVIOUS
<1> USE DEF BatchInv, FilesType
<1>1. CASE Accepting
  <2>1. drain' = drain \/ drain' = "off"
    BY <1>1 DEF Accepting, Check, ReadExisting, Rename, SyncRename, Push, Settle, drainVars
  <2>2. UNCHANGED <<batch, unlinked, received>>
    BY <1>1 DEF Accepting, Check, ReadExisting, Rename, SyncRename, Push, drainVars
  <2> QED BY <2>1, <2>2 DEF Queued
<1>2. CASE Recovering
  <2>1. drain' = drain \/ drain' = "loop"
    BY <1>2 DEF Recovering, Initialize, List, Scan, ReadSpooled, Proceed, drainVars
  <2>2. UNCHANGED <<batch, unlinked, received>>
    BY <1>2 DEF Recovering, Initialize, List, Scan, ReadSpooled, outside, drainVars
  <2> QED BY <2>1, <2>2 DEF Queued
<1>3. CASE Start \/ Splice \/ SyncUnlink \/ Flush \/ Kill \/ PowerFailure
  BY <1>3 DEF Start, Splice, Refill, SyncUnlink, Flush, Drain, Kill, PowerFailure, Fresh
<1>4. CASE Slice
  <2>1. CASE queue = <<>>
    BY <1>4, <2>1 DEF Slice
  <2>2. CASE queue # <<>>
    <3>1. queue \in Seq(Runs) /\ Len(queue) > 0
      BY <2>2 DEF CallsInv
    <3>2. Len(batch') > 0 /\ drain' = "send"
      BY <1>4, <2>2, <3>1, Limits DEF Slice
    <3> QED BY <3>2
  <2> QED BY <2>1, <2>2
<1>5. CASE \E answer \in Answers : Send(answer)
  BY <1>5 DEF Send, Queued
<1>6. CASE Unlink
  BY <1>6 DEF Unlink, Queued
<1>7. CASE Shutdown \/ \E r \in Runs : Export(r)
  BY <1>7 DEF Shutdown, Drain, Export, drainVars, outside, Queued
<1>8. CASE UNCHANGED vars
  BY <1>8 DEF vars, outside, processVars, drainVars, Queued
<1> QED
  BY <1>1, <1>2, <1>3, <1>4, <1>5, <1>6, <1>7, <1>8 DEF Next, Draining

\* Every other step finds no unsynced file, or leaves it to the oldest call.
LEMMA SyncedNext ==
  CallsInv /\ FilesType /\ BatchInv /\ KnownInv /\ SyncedInv /\ [Next]_vars => SyncedInv'
<1> SUFFICES ASSUME CallsInv, FilesType, KnownInv, SyncedInv, [Next]_vars PROVE SyncedInv'
  OBVIOUS
<1> USE DEF SyncedInv, FilesType
<1>1. CASE Check \/ ReadExisting \/ Push
  BY <1>1 DEF Check, ReadExisting, Push, Settle
<1>2. CASE Rename
  BY <1>2 DEF Rename
<1>3. CASE SyncRename \/ SyncUnlink
  BY <1>3 DEF SyncRename, SyncUnlink, Synced
<1>4. CASE Recovering
  BY <1>4 DEF Recovering, Initialize, List, Scan, ReadSpooled, outside, callVars
<1>5. CASE Start \/ Slice \/ Splice \/ Flush \/ Shutdown
  BY <1>5 DEF Start, Slice, Splice, Flush, Shutdown, outside, callVars
<1>6. CASE \E answer \in Answers : Send(answer)
  BY <1>6 DEF Send, callVars
<1>7. CASE Unlink
  BY <1>7 DEF Unlink, callVars
<1>8. CASE \E r \in Runs : Export(r)
  <2> PICK r \in Runs : Export(r)
    BY <1>8
  <2>1. calls # <<>> => Head(calls') = Head(calls)
    BY DEF Export, CallsInv
  <2> QED BY <2>1 DEF Export, outside, CallsInv
<1>9. CASE Kill
  BY <1>9 DEF Kill
<1>10. CASE PowerFailure
  BY <1>10 DEF PowerFailure
<1>11. CASE UNCHANGED vars
  BY <1>11 DEF vars, outside, processVars, callVars
<1> QED
  BY <1>1, <1>2, <1>3, <1>4, <1>5, <1>6, <1>7, <1>8, <1>9, <1>10, <1>11
  DEF Next, Accepting, Draining

\* Nothing but a power failure takes a snapshot that is safe or sure.
LEMMA SafeGrows ==
  ASSUME CallsInv, FilesType, BatchInv, KnownInv, [Next]_vars, ~PowerFailure
  PROVE  Safe \subseteq Safe' /\ Sure \subseteq Sure'
<1> USE DEF Safe, Sure, Spooled, Kept, FilesType
<1>1. CASE UNCHANGED <<disk, received, kills>>
  BY <1>1
<1>2. CASE Rename
  <2>1. Head(calls) \notin Spooled /\ Head(calls) \notin Kept
    BY <1>2 DEF Rename, KnownInv
  <2>2. UNCHANGED <<received, kills>> /\ disk' = [disk EXCEPT ![Head(calls)] = "new"]
    BY <1>2 DEF Rename
  <2>3. Spooled \subseteq Spooled' /\ Kept \subseteq Kept'
    BY <2>1, <2>2
  <2> QED BY <2>2, <2>3
<1>3. CASE SyncRename \/ SyncUnlink
  <2>1. UNCHANGED <<received, kills>> /\ disk' = Synced(disk)
    BY <1>3 DEF SyncRename, SyncUnlink
  <2>2. Spooled \subseteq Spooled' /\ Kept \subseteq Kept'
    BY <2>1 DEF Synced
  <2> QED BY <2>1, <2>2
<1>4. CASE \E answer \in Answers : Send(answer)
  <2>1. UNCHANGED <<disk, kills>> /\ received \subseteq received'
    BY <1>4 DEF Send
  <2> QED BY <2>1
<1>5. CASE Unlink
  <2>1. UNCHANGED <<received, kills>>
    BY <1>5 DEF Unlink
  <2>2. \/ disk' = disk
        \/ disk' = [disk EXCEPT ![batch[unlinked + 1]] = "gone"]
    BY <1>5 DEF Unlink
  <2>3. batch[unlinked + 1] \in received
    BY <1>5 DEF Unlink, BatchInv, Queued
  <2>4. Spooled \subseteq Spooled' \cup received /\ Kept \subseteq Kept' \cup received
    BY <2>2, <2>3
  <2> QED BY <2>1, <2>4
<1>6. CASE Kill
  BY <1>6 DEF Kill
<1>7. CASE \/ Check \/ ReadExisting \/ Push \/ Recovering \/ Start \/ Slice \/ Splice
           \/ Flush \/ Shutdown \/ \E r \in Runs : Export(r)
  BY <1>1, <1>7 DEF Check, ReadExisting, Push, Recovering, Initialize, List, Scan, ReadSpooled,
    Start, Slice, Splice, Flush, Shutdown, Export, outside
<1>8. CASE UNCHANGED vars
  BY <1>1, <1>8 DEF vars, outside
<1> QED
  BY <1>2, <1>3, <1>4, <1>5, <1>6, <1>7, <1>8 DEF Next, Accepting, Draining

\* What was sure was safe, and the other way round where no file is unsynced.
LEMMA SureSafe ==
  ASSUME FilesType, SyncedInv
  PROVE  Sure \subseteq Safe /\ (accepting # "sync" => Safe \subseteq Sure)
  BY DEF FilesType, SyncedInv, Sure, Safe, Spooled, Kept

\* The entries after an append.
LEMMA QueuedAppend ==
  ASSUME NEW q \in Seq(Runs), NEW r \in Runs
  PROVE  Queued(Append(q, r)) = Queued(q) \cup {r}
<1>1. \A i \in DOMAIN Append(q, r) :
        Append(q, r)[i] = r \/ (i \in DOMAIN q /\ Append(q, r)[i] = q[i])
  OBVIOUS
<1>2. \A i \in DOMAIN q : i \in DOMAIN Append(q, r) /\ Append(q, r)[i] = q[i]
  OBVIOUS
<1>3. Len(q) + 1 \in DOMAIN Append(q, r) /\ Append(q, r)[Len(q) + 1] = r
  OBVIOUS
<1> QED BY <1>1, <1>2, <1>3 DEF Queued

\* The entries left when k are taken from the front.
LEMMA QueuedRest ==
  ASSUME NEW q \in Seq(Runs), NEW k \in Nat
  PROVE  Queued(SubSeq(q, k + 1, Len(q))) \subseteq Queued(q)
<1>1. \A i \in DOMAIN SubSeq(q, k + 1, Len(q)) :
        k + i \in DOMAIN q /\ SubSeq(q, k + 1, Len(q))[i] = q[k + i]
  OBVIOUS
<1> QED BY <1>1 DEF Queued

\* What a process knows of is safe, after every step.
LEMMA KnownNext ==
  ASSUME CallsInv, FilesType, BatchInv, KnownInv, SyncedInv, SureInv, [Next]_vars
  PROVE  KnownInv'
<1> USE DEF KnownInv
<1>p. CASE PowerFailure
  BY <1>p DEF PowerFailure, Fresh, Queued
<1>k. CASE Kill
  BY <1>k DEF Kill, Fresh, Queued
<1> SUFFICES ASSUME ~PowerFailure, ~Kill PROVE KnownInv'
  BY <1>p, <1>k
<1>g. Safe \subseteq Safe'
  BY SafeGrows
<1>1. CASE Check
  BY <1>1, <1>g DEF Check, Settle, recoverVars, Queued
<1>2. CASE ReadExisting
  <2>1. UNCHANGED <<queue, files, recovery, reading, disk>>
    BY <1>2 DEF ReadExisting, recoverVars
  <2>2. accepting' # "sync" /\ (accepting' = "write" => Head(calls') \notin Spooled')
    BY <1>2 DEF ReadExisting, Settle, Spooled
  <2> QED BY <2>1, <2>2, <1>g DEF Queued
<1>3. CASE Rename
  <2>1. Head(calls) \in Spooled'
    BY <1>3 DEF Rename, Spooled, CallsInv, FilesType
  <2>2. UNCHANGED <<queue, files, recovery, reading, calls>> /\ accepting' = "sync"
    BY <1>3 DEF Rename, recoverVars
  <2> QED BY <2>1, <2>2, <1>g DEF Queued, Safe
<1>4. CASE SyncRename
  BY <1>4, <1>g DEF SyncRename, recoverVars, Queued
<1>5. CASE Push
  <2>1. Head(calls) \in Safe /\ Head(calls) \in Runs
    BY <1>5, SureSafe DEF Push, SureInv, CallsInv
  <2>2. Queued(queue') \subseteq Queued(queue) \cup {Head(calls)}
    BY <1>5, <2>1, QueuedAppend DEF Push, CallsInv
  <2>3. UNCHANGED <<files, recovery, reading>> /\ accepting' = "start"
    BY <1>5 DEF Push, Settle, recoverVars
  <2> QED BY <2>1, <2>2, <2>3, <1>g
<1>6. CASE Recovering
  <2>1. UNCHANGED <<disk, calls, accepting>>
    BY <1>6 DEF Recovering, Initialize, List, Scan, ReadSpooled, outside, callVars
  <2>2. Queued(queue') \subseteq Safe
    <3>1. CASE queue' = queue
      BY <3>1 DEF Queued
    <3>2. CASE ReadSpooled
      BY <3>2, QueuedAppend DEF ReadSpooled, CallsInv
    <3> QED BY <1>6, <3>1, <3>2 DEF Recovering, Initialize, List, Scan
  <2>3. files' \subseteq Safe /\ (recovery' = "read" => reading' \in Safe)
    BY <1>6 DEF Recovering, Initialize, List, Scan, ReadSpooled, Proceed, Readable, Safe
  <2>4. accepting' = "write" => Head(calls') \notin Spooled'
    BY <2>1 DEF Spooled
  <2> QED BY <2>1, <2>2, <2>3, <2>4, <1>g
<1>7. CASE Splice
  <2>1. Queued(queue') \subseteq Queued(queue)
    <3>1. Len(batch) \in Nat /\ queue \in Seq(Runs)
      BY DEF FilesType, CallsInv
    <3>2. Queued(SubSeq(queue, Len(batch) + 1, Len(queue))) \subseteq Queued(queue)
      BY <3>1, QueuedRest
    <3> QED BY <3>2, <1>7 DEF Splice
  <2>2. UNCHANGED <<files, reading, disk, calls, accepting>> /\ recovery' = "list"
    BY <1>7 DEF Splice, Refill, outside, callVars
  <2> QED BY <2>1, <2>2, <1>g DEF Spooled
<1>8. CASE Unlink
  <2>1. UNCHANGED <<queue, files, recovery, reading, calls, accepting>>
    BY <1>8 DEF Unlink, callVars, recoverVars
  <2>2. Spooled' \subseteq Spooled
    BY <1>8 DEF Unlink, Spooled, FilesType
  <2> QED BY <2>1, <2>2, <1>g DEF Queued
<1>9. CASE SyncUnlink
  <2>1. UNCHANGED <<queue, files, recovery, reading, calls, accepting>>
    BY <1>9 DEF SyncUnlink, callVars, recoverVars
  <2>2. Spooled' \subseteq Spooled
    BY <1>9 DEF SyncUnlink, Synced, Spooled, FilesType
  <2> QED BY <2>1, <2>2, <1>g DEF Queued
<1>10. CASE \/ Start \/ Slice \/ Flush \/ Shutdown
            \/ \E answer \in Answers : Send(answer)
            \/ UNCHANGED vars
  <2>1. UNCHANGED <<queue, files, recovery, reading, calls, accepting, disk>>
    BY <1>10 DEF Start, Slice, Flush, Shutdown, Send, vars, outside, processVars, callVars, recoverVars
  <2> QED BY <2>1, <1>g DEF Queued, Spooled
<1>11. CASE \E r \in Runs : Export(r)
  <2> PICK r \in Runs : Export(r)
    BY <1>11
  <2>1. calls # <<>> => Head(calls') = Head(calls)
    BY DEF Export, CallsInv
  <2>2. UNCHANGED <<queue, files, recovery, reading, accepting, disk>>
    BY DEF Export, outside, recoverVars
  <2> QED BY <2>1, <2>2, <1>g DEF Queued, Spooled, CallsInv
<1> QED
  BY <1>1, <1>2, <1>3, <1>4, <1>5, <1>6, <1>7, <1>8, <1>9, <1>10, <1>11
  DEF Next, Accepting, Draining

\* A run is accepted when nothing can take its snapshot any more.
LEMMA SureNext ==
  ASSUME CallsInv, FilesType, BatchInv, KnownInv, SyncedInv, SureInv, [Next]_vars
  PROVE  SureInv'
<1> USE DEF SureInv
<1>p. CASE PowerFailure
  <2>1. Kept \subseteq Kept' /\ received' = received /\ accepted' = accepted /\ kills = 0 /\ kills' = 0
    BY <1>p DEF PowerFailure, Kept, FilesType
  <2>2. accepting' = "start"
    BY <1>p DEF PowerFailure, Fresh
  <2> QED BY <2>1, <2>2 DEF Sure
<1> SUFFICES ASSUME ~PowerFailure PROVE SureInv'
  BY <1>p
<1>g. Sure \subseteq Sure'
  BY SafeGrows
<1>1. CASE Check
  <2>1. accepting' # "push"
    BY <1>1 DEF Check, Settle
  <2>2. accepted' \subseteq accepted \cup {Head(calls)}
    BY <1>1 DEF Check, Settle
  <2>3. Head(calls) \in Sure \/ accepted' = accepted
    BY <1>1, SureSafe DEF Check, Settle, KnownInv
  <2> QED BY <2>1, <2>2, <2>3, <1>g
<1>2. CASE ReadExisting
  <2>1. accepting' # "push"
    BY <1>2 DEF ReadExisting, Settle
  <2>2. accepted' \subseteq accepted \cup {Head(calls)}
    BY <1>2 DEF ReadExisting, Settle
  <2>3. Head(calls) \in Sure \/ accepted' = accepted
    BY <1>2, SureSafe DEF ReadExisting, Settle, Safe
  <2> QED BY <2>1, <2>2, <2>3, <1>g
<1>3. CASE Rename
  BY <1>3, <1>g DEF Rename
<1>4. CASE SyncRename
  <2>1. Head(calls) \in Safe /\ Head(calls) \in Runs
    BY <1>4 DEF SyncRename, KnownInv, CallsInv
  <2>2. Head(calls) \in received' \cup Kept' /\ Kept' \subseteq Spooled'
    BY <1>4, <2>1 DEF SyncRename, Synced, Safe, Spooled, Kept, FilesType
  <2>3. Head(calls') \in Sure'
    BY <1>4, <2>2 DEF SyncRename, Sure, Safe
  <2> QED BY <1>4, <2>3, <1>g DEF SyncRename
<1>5. CASE Push
  BY <1>5, <1>g DEF Push, Settle
<1>6. CASE Recovering
  BY <1>6, <1>g DEF Recovering, Initialize, List, Scan, ReadSpooled, outside, callVars
<1>7. CASE Draining
  BY <1>7, <1>g DEF Draining, Start, Slice, Unlink, SyncUnlink, Splice, Send, outside, callVars
<1>8. CASE \E r \in Runs : Export(r)
  <2> PICK r \in Runs : Export(r)
    BY <1>8
  <2>1. calls # <<>> => Head(calls') = Head(calls)
    BY DEF Export, CallsInv
  <2> QED BY <2>1, <1>g DEF Export, outside, CallsInv
<1>9. CASE Flush \/ Shutdown \/ UNCHANGED vars
  BY <1>9, <1>g DEF Flush, Shutdown, vars, outside, processVars, callVars
<1>10. CASE Kill
  BY <1>10, <1>g DEF Kill, Fresh
<1> QED
  BY <1>1, <1>2, <1>3, <1>4, <1>5, <1>6, <1>7, <1>8, <1>9, <1>10 DEF Next, Accepting

\* AcceptedSurvives: whatever is killed, and whenever the power fails before
\* any kill, a run whose export() resolved is at the server or in the spool.
THEOREM AcceptedRunsSurvive == Spec => []AcceptedSurvives
<1>1. Init => DurableInv
  <2> SUFFICES ASSUME Init PROVE DurableInv
    OBVIOUS
  <2>1. <<>> \in Seq(Runs) /\ Queued(<<>>) = {}
    BY DEF Queued
  <2>2. CallsInv /\ BatchInv /\ KnownInv
    BY <2>1 DEF Init, CallsInv, BatchInv, KnownInv
  <2>3. FilesType
    BY <2>1 DEF Init, FilesType
  <2>4. SyncedInv /\ SureInv
    BY DEF Init, SyncedInv, SureInv, Sure, Kept
  <2> QED BY <2>2, <2>3, <2>4 DEF DurableInv
<1>2. DurableInv /\ [Next]_vars => DurableInv'
  BY CallsNext, FilesNext, BatchNext, KnownNext, SyncedNext, SureNext DEF DurableInv
<1>3. DurableInv => AcceptedSurvives
  BY SureSafe DEF DurableInv, SureInv, AcceptedSurvives, Safe
<1> QED BY <1>1, <1>2, <1>3, PTL DEF Spec

-----------------------------------------------------------------------------
(* What a drain leaves behind.                                             *)

\* Every snapshot has room in an empty queue.
EveryRunFits == \A r \in Runs : Size[r] <= MaxQueueBytes

\* The file of a call that has renamed it and not pushed its run yet.
Underway(r) == calls # <<>> /\ accepting \in {"sync", "push"} /\ r = Head(calls)

\* Where drain(), initialize() and recover() can be at the same time: an
\* initialized process recovers inside its drain only, and a call that rejects
\* ends no drain but one that has not started.
PhaseInv ==
  /\ awaited \in Nat /\ initialized \in {"no", "running", "yes"}
  /\ awaited > 0 => drain = "pending"
  /\ initialized # "yes" => drain \in {"off", "pending"}
  /\ initialized = "no" => recovery = "off"
  /\ initialized = "yes" /\ recovery # "off" => drain = "recover"
  /\ recovery \in {"off", "list", "scan", "read"}
  /\ drain = "recover" => recovery # "off"
\* An empty queue that nobody refills stands for an empty spool.
LeftInv ==
  queue = <<>> =>
    /\ recovery = "off" /\ initialized = "yes" => \A r \in Spooled : Underway(r)
    /\ recovery = "scan" => \A r \in Spooled : r \in files \/ Underway(r)

BacklogInv == CallsInv /\ FilesType /\ BatchInv /\ PhaseInv /\ LeftInv

\* A call settles and leaves a started drain alone.
LEMMA SettlePhase ==
  ASSUME PhaseInv, calls \in Seq(Runs), NEW ok, Settle(ok)
  PROVE  /\ awaited' \in Nat
         /\ awaited' > 0 => drain' = "pending"
         /\ drain' = drain \/ (drain = "pending" /\ drain' = "off")
  BY DEF PhaseInv, Settle

\* The phases are kept by every step.
LEMMA PhaseNext == CallsInv /\ PhaseInv /\ [Next]_vars => PhaseInv'
<1> SUFFICES ASSUME CallsInv, PhaseInv, [Next]_vars PROVE PhaseInv'
  OBVIOUS
<1> USE DEF PhaseInv
<1>1. CASE Check \/ ReadExisting \/ Push
  <2>1. UNCHANGED <<initialized, recovery>>
    BY <1>1 DEF Check, ReadExisting, Push, recoverVars
  <2>2. CASE \E ok \in BOOLEAN : Settle(ok)
    BY <2>1, <2>2, SettlePhase DEF CallsInv
  <2>3. CASE ~ \E ok \in BOOLEAN : Settle(ok)
    BY <1>1, <2>1, <2>3 DEF Check, ReadExisting, Push
  <2> QED BY <2>2, <2>3
<1>2. CASE Rename \/ SyncRename
  BY <1>2 DEF Rename, SyncRename, drainVars, recoverVars
<1>3. CASE Initialize \/ List
  BY <1>3 DEF Initialize, List, drainVars
<1>4. CASE Scan \/ ReadSpooled
  BY <1>4 DEF Scan, ReadSpooled, Proceed
<1>5. CASE Start \/ Slice \/ Unlink \/ SyncUnlink \/ Splice
  BY <1>5 DEF Start, Slice, Unlink, SyncUnlink, Splice, Refill, recoverVars
<1>6. CASE \E answer \in Answers : Send(answer)
  BY <1>6 DEF Send, recoverVars
<1>7. CASE Flush \/ Shutdown
  <2>1. Len(calls) \in Nat
    BY DEF CallsInv
  <2> QED BY <1>7, <2>1 DEF Flush, Shutdown, Drain, recoverVars
<1>8. CASE \E r \in Runs : Export(r)
  BY <1>8 DEF Export, drainVars, recoverVars
<1>9. CASE Kill \/ PowerFailure
  BY <1>9 DEF Kill, PowerFailure, Fresh
<1>10. CASE UNCHANGED vars
  BY <1>10 DEF vars, processVars, drainVars, recoverVars
<1> QED
  BY <1>1, <1>2, <1>3, <1>4, <1>5, <1>6, <1>7, <1>8, <1>9, <1>10
  DEF Next, Accepting, Recovering, Draining

\* Nothing but recover() ends with an empty queue and files beside it.
LEMMA LeftNext ==
  ASSUME EveryRunFits, CallsInv, FilesType, BatchInv, PhaseInv, LeftInv, [Next]_vars
  PROVE  LeftInv'
<1> USE DEF LeftInv
<1>1. CASE Check
  <2>1. UNCHANGED <<disk, queue, initialized, recovery, files>> /\ accepting = "start"
    BY <1>1 DEF Check, recoverVars
  <2> QED BY <2>1 DEF Spooled, Underway
<1>2. CASE ReadExisting
  <2>1. UNCHANGED <<disk, queue, initialized, recovery, files>> /\ accepting = "read"
    BY <1>2 DEF ReadExisting, recoverVars
  <2> QED BY <2>1 DEF Spooled, Underway
<1>3. CASE Rename
  <2>1. /\ UNCHANGED <<queue, initialized, recovery, files, calls>>
        /\ accepting = "write" /\ accepting' = "sync" /\ calls # <<>>
    BY <1>3 DEF Rename, recoverVars, CallsInv
  <2>2. Spooled' \subseteq Spooled \cup {Head(calls)}
    BY <1>3 DEF Rename, Spooled, FilesType
  <2> QED BY <2>1, <2>2 DEF Underway
<1>4. CASE SyncRename
  <2>1. /\ UNCHANGED <<queue, initialized, recovery, files, calls>>
        /\ accepting = "sync" /\ accepting' = "push"
    BY <1>4 DEF SyncRename, recoverVars
  <2>2. Spooled' \subseteq Spooled
    BY <1>4 DEF SyncRename, Synced, Spooled, FilesType
  <2> QED BY <2>1, <2>2 DEF Underway
<1>5. CASE Push \/ ReadSpooled
  <2>1. PICK r \in Runs : queue' = Append(queue, r)
    <3>1. CASE Push
      <4>1. calls # <<>> /\ Head(calls) \in Runs
        BY <3>1 DEF Push, CallsInv
      <4> QED BY <3>1, <4>1 DEF Push
    <3>2. CASE ReadSpooled
      BY <3>2 DEF ReadSpooled, CallsInv
    <3> QED BY <1>5, <3>1, <3>2
  <2>2. Len(queue') = Len(queue) + 1 /\ Len(queue) \in Nat
    BY <2>1 DEF CallsInv
  <2>3. queue' # <<>>
    BY <2>2
  <2> QED BY <2>3
<1>6. CASE Initialize \/ List
  <2>1. recovery' = "list" \/ (recovery' = "scan" /\ files' = Spooled /\ disk' = disk)
    BY <1>6 DEF Initialize, List, outside
  <2> QED BY <2>1 DEF Spooled
<1>7. CASE Scan
  <2>1. /\ UNCHANGED <<disk, queue, calls, accepting>>
        /\ recovery = "scan" /\ Proceed(queue, files)
    BY <1>7 DEF Scan, outside, callVars
  <2>2. CASE queue = <<>> /\ recovery' # "read"
    <3>1. Readable(<<>>, files) = {} /\ files' = {} /\ recovery' = "off"
      BY <2>1, <2>2 DEF Proceed
    <3>2. Len(<<>>) = 0 /\ Queued(<<>>) = {}
      BY DEF Queued
    <3>3. \A r \in Runs : Size[r] + Bytes(<<>>) = Size[r]
      BY BytesLaws, ExporterAssumption DEF CallsInv
    <3>4. Readable(<<>>, files) = files
      BY <3>2, <3>3, Limits DEF Readable, Full, EveryRunFits, CallsInv
    <3> QED BY <2>1, <2>2, <3>1, <3>4 DEF Spooled, Underway
  <2> QED BY <2>1, <2>2
<1>8. CASE Splice
  BY <1>8 DEF Splice, Refill
<1>9. CASE Unlink \/ SyncUnlink
  <2>1. UNCHANGED <<queue, initialized, recovery, files, calls, accepting>>
    BY <1>9 DEF Unlink, SyncUnlink, callVars, recoverVars
  <2>2. Spooled' \subseteq Spooled
    BY <1>9 DEF Unlink, SyncUnlink, Synced, Spooled, FilesType
  <2> QED BY <2>1, <2>2 DEF Underway
<1>10. CASE \/ Start \/ Slice \/ Flush \/ Shutdown
            \/ \E answer \in Answers : Send(answer)
            \/ UNCHANGED vars
  <2>1. UNCHANGED <<disk, queue, initialized, recovery, files, calls, accepting>>
    BY <1>10 DEF Start, Slice, Flush, Shutdown, Send, vars, outside, processVars, callVars, recoverVars
  <2> QED BY <2>1 DEF Spooled, Underway
<1>11. CASE \E r \in Runs : Export(r)
  <2> PICK r \in Runs : Export(r)
    BY <1>11
  <2>1. calls # <<>> => calls' # <<>> /\ Head(calls') = Head(calls)
    BY DEF Export, CallsInv
  <2>2. UNCHANGED <<disk, queue, initialized, recovery, files, accepting>>
    BY DEF Export, outside, recoverVars
  <2> QED BY <2>1, <2>2 DEF Spooled, Underway
<1>12. CASE Kill \/ PowerFailure
  BY <1>12 DEF Kill, PowerFailure, Fresh
<1> QED
  BY <1>1, <1>2, <1>3, <1>4, <1>5, <1>6, <1>7, <1>8, <1>9, <1>10, <1>11, <1>12
  DEF Next, Accepting, Recovering, Draining

\* BacklogDrained: where every snapshot has room in an empty queue, a drain that
\* finds the queue empty has nothing left in the spool, whatever was spooled
\* before, but for the file of an export in progress.
THEOREM BacklogsDrained ==
  ASSUME EveryRunFits
  PROVE  Spec => []BacklogDrained
<1>1. Init => BacklogInv
  <2> SUFFICES ASSUME Init PROVE BacklogInv
    OBVIOUS
  <2>1. <<>> \in Seq(Runs)
    OBVIOUS
  <2>2. CallsInv /\ BatchInv /\ PhaseInv /\ LeftInv
    BY <2>1 DEF Init, CallsInv, BatchInv, PhaseInv, LeftInv
  <2>3. FilesType
    BY <2>1 DEF Init, FilesType
  <2> QED BY <2>2, <2>3 DEF BacklogInv
<1>2. BacklogInv /\ [Next]_vars => BacklogInv'
  BY EveryRunFits, CallsNext, FilesNext, BatchNext, PhaseNext, LeftNext DEF BacklogInv
<1>3. BacklogInv => BacklogDrained
  BY DEF BacklogInv, PhaseInv, LeftInv, Underway, BacklogDrained
<1> QED BY <1>1, <1>2, <1>3, PTL DEF Spec

-----------------------------------------------------------------------------
(* The size of the spool.                                                  *)

\* Files whose unlink a power failure may undo, the entries of the batch that
\* are unlinked, and what the count of bytes still owes for both.
Gone == {r \in Runs : kills = 0 /\ disk[r] = "gone"}
Cleared == {batch[i] : i \in 1..unlinked}
Removed == Gone \cup Cleared
\* The bytes of a renamed file that are not counted yet, and those its call
\* may still add.
Uncounted == IF accepting \in {"sync", "push"} THEN Size[Head(calls)] ELSE 0
Reserve == IF accepting \in {"write", "sync", "push"} THEN Size[Head(calls)] ELSE 0
\* The files an earlier process left are counted by the first List.
Counted == initialized = "yes" \/ (initialized = "running" /\ recovery # "list")

\* While a drain has a batch, it is the front of the queue.
FrontInv ==
  /\ drain \notin {"unlink", "sync", "splice"} => unlinked = 0
  /\ drain \in {"sync", "splice"} => unlinked = Len(batch)
  /\ unlinked <= Len(batch)
  /\ drain \in {"send", "unlink", "sync", "splice"} =>
       Len(batch) <= Len(queue) /\ \A i \in 1..Len(batch) : batch[i] = queue[i]
  /\ drain = "splice" => Gone = {}
\* A call past its check writes a file that the queue names at most once.
OnceInv ==
  accepting # "start" =>
    /\ \A i, j \in 1..Len(queue) : queue[i] = Head(calls) /\ queue[j] = Head(calls) => i = j
    /\ recovery = "read" /\ reading = Head(calls) => Head(calls) \notin Queued(queue)
\* No run is unlinked twice in one batch: its second unlink finds no file.
ApartInv ==
  /\ \A i, j \in 1..unlinked : batch[i] = batch[j] => i = j
  /\ \A i \in 1..unlinked, j \in 1..Len(batch) :
       j > unlinked /\ batch[i] = batch[j] => batch[i] \notin Spooled
\* spoolBytes is never too low but for the renamed file of the oldest call.
ChargeInv ==
  /\ spoolBytes \in Nat
  /\ initialized # "yes" => accepting = "start"
  /\ ~Counted => spoolBytes = 0 /\ Gone = {} /\ Weight(Spooled) <= MaxSpoolBytes
  /\ Counted => /\ Weight(Spooled) + Weight(Removed) <= spoolBytes + Uncounted
                /\ spoolBytes + Reserve <= MaxSpoolBytes

SpoolInv ==
  /\ CallsInv /\ FilesType /\ BatchInv /\ KnownInv /\ SyncedInv /\ SureInv /\ PhaseInv
  /\ FrontInv /\ OnceInv /\ ApartInv /\ ChargeInv

\* An append leaves the entries before it alone.
LEMMA AppendKeeps ==
  ASSUME NEW q \in Seq(Runs), NEW r \in Runs
  PROVE  /\ Append(q, r) \in Seq(Runs) /\ Len(Append(q, r)) = Len(q) + 1
         /\ \A i \in 1..Len(q) : Append(q, r)[i] = q[i]
         /\ Append(q, r)[Len(q) + 1] = r
  OBVIOUS

\* How the queue changes: it is kept, it gets one more run, or its front goes.
LEMMA QueueSteps ==
  ASSUME CallsInv, [Next]_vars
  PROVE  \/ queue' = queue
         \/ Push /\ Head(calls) \in Runs /\ queue' = Append(queue, Head(calls))
         \/ ReadSpooled /\ reading \in Runs /\ queue' = Append(queue, reading)
         \/ Splice
         \/ Kill \/ PowerFailure
<1>1. CASE Push
  <2>1. calls # <<>> /\ Head(calls) \in Runs
    BY <1>1 DEF Push, CallsInv
  <2> QED BY <1>1, <2>1 DEF Push
<1>2. CASE ReadSpooled
  BY <1>2 DEF ReadSpooled, CallsInv
<1>3. CASE Check \/ ReadExisting \/ Rename \/ SyncRename
  BY <1>3 DEF Check, ReadExisting, Rename, SyncRename
<1>4. CASE Initialize \/ List \/ Scan
  BY <1>4 DEF Initialize, List, Scan
<1>5. CASE Start \/ Slice \/ Unlink \/ SyncUnlink \/ \E answer \in Answers : Send(answer)
  BY <1>5 DEF Start, Slice, Unlink, SyncUnlink, Send
<1>6. CASE Flush \/ Shutdown \/ \E r \in Runs : Export(r)
  BY <1>6 DEF Flush, Shutdown, Export
<1>7. CASE UNCHANGED vars
  BY <1>7 DEF vars, processVars
<1> QED
  BY <1>1, <1>2, <1>3, <1>4, <1>5, <1>6, <1>7 DEF Next, Accepting, Recovering, Draining

\* The batch stays the front of the queue until both are cut.
LEMMA FrontNext ==
  ASSUME CallsInv, FilesType, BatchInv, PhaseInv, FrontInv, [Next]_vars
  PROVE  FrontInv'
<1> USE DEF FrontInv
<1>a. Len(queue) \in Nat /\ Len(batch) \in Nat /\ unlinked \in Nat
  BY DEF CallsInv, FilesType
<1>b. ASSUME UNCHANGED <<batch, unlinked, drain>>, Gone' \subseteq Gone,
             \/ queue' = queue
             \/ \E r \in Runs : queue' = Append(queue, r)
      PROVE  FrontInv'
  <2>1. CASE queue' = queue
    BY <1>b, <2>1
  <2>2. CASE \E r \in Runs : queue' = Append(queue, r)
    <3> PICK r \in Runs : queue' = Append(queue, r)
      BY <2>2
    <3>1. Len(queue') = Len(queue) + 1 /\ \A i \in 1..Len(queue) : queue'[i] = queue[i]
      BY AppendKeeps DEF CallsInv
    <3> QED BY <1>a, <1>b, <3>1
  <2> QED BY <1>b, <2>1, <2>2
<1>c. ASSUME drain' \notin {"send", "unlink", "sync", "splice"}, unlinked' = 0, Len(batch') \in Nat
      PROVE  FrontInv'
  BY <1>c
<1>1. CASE Check \/ ReadExisting \/ Push
  <2>1. UNCHANGED <<batch, unlinked, disk, kills>>
    BY <1>1 DEF Check, ReadExisting, Push
  <2>2. drain' = drain \/ (drain = "pending" /\ drain' = "off")
    <3>1. CASE \E ok \in BOOLEAN : Settle(ok)
      BY <3>1, SettlePhase DEF CallsInv
    <3>2. CASE ~ \E ok \in BOOLEAN : Settle(ok)
      BY <1>1, <3>2 DEF Check, ReadExisting, Push
    <3> QED BY <3>1, <3>2
  <2>3. queue' = queue \/ \E r \in Runs : queue' = Append(queue, r)
    <3>1. CASE Push
      <4>1. calls # <<>> /\ Head(calls) \in Runs
        BY <3>1 DEF Push, CallsInv
      <4> QED BY <3>1, <4>1 DEF Push
    <3> QED BY <1>1, <3>1 DEF Check, ReadExisting
  <2>4. Gone' \subseteq Gone
    BY <2>1 DEF Gone
  <2>5. CASE drain' = drain
    BY <1>b, <2>1, <2>3, <2>4, <2>5
  <2>6. CASE drain = "pending" /\ drain' = "off"
    BY <1>a, <1>c, <2>1, <2>6
  <2> QED BY <2>2, <2>5, <2>6
<1>2. CASE Rename \/ SyncRename
  <2>1. UNCHANGED <<batch, unlinked, drain, queue, kills>>
    BY <1>2 DEF Rename, SyncRename, drainVars
  <2>2. Gone' \subseteq Gone
    BY <1>2, <2>1 DEF Rename, SyncRename, Synced, Gone, FilesType
  <2> QED BY <1>b, <2>1, <2>2
<1>3. CASE Initialize \/ List
  <2>1. UNCHANGED <<batch, unlinked, drain, queue, disk, kills>>
    BY <1>3 DEF Initialize, List, drainVars, outside
  <2> QED BY <1>b, <2>1 DEF Gone
<1>4. CASE Scan \/ ReadSpooled
  <2>1. UNCHANGED <<batch, unlinked, disk, kills>>
    BY <1>4 DEF Scan, ReadSpooled, outside
  <2>2. drain' = drain \/ (recovery # "off" /\ initialized = "yes" /\ drain' = "loop")
    BY <1>4 DEF Scan, ReadSpooled, Proceed
  <2>3. queue' = queue \/ \E r \in Runs : queue' = Append(queue, r)
    BY <1>4 DEF Scan, ReadSpooled, CallsInv
  <2>4. Gone' \subseteq Gone
    BY <2>1 DEF Gone
  <2>5. CASE drain' = drain
    BY <1>b, <2>1, <2>3, <2>4, <2>5
  <2>6. CASE recovery # "off" /\ initialized = "yes" /\ drain' = "loop"
    BY <1>a, <1>c, <2>1, <2>6 DEF PhaseInv
  <2> QED BY <2>2, <2>5, <2>6
<1>5. CASE Start \/ Flush \/ Shutdown
  <2>1. UNCHANGED <<batch, unlinked, queue, disk, kills>>
    BY <1>5 DEF Start, Flush, Shutdown, outside
  <2>2. \/ drain' = drain
        \/ drain' \in {"loop", "pending"} /\ drain \in {"pending", "off"}
    BY <1>5 DEF Start, Flush, Shutdown, Drain
  <2> QED BY <1>a, <1>b, <1>c, <2>1, <2>2 DEF Gone
<1>6. CASE Slice
  <2>1. CASE queue = <<>>
    BY <1>6, <1>a, <1>c, <2>1 DEF Slice
  <2>2. CASE queue # <<>>
    <3> DEFINE n == IF Len(queue) < BatchSize THEN Len(queue) ELSE BatchSize
    <3>1. queue \in Seq(Runs) /\ n \in 1..Len(queue)
      BY <2>2, Limits DEF CallsInv
    <3>2. Len(SubSeq(queue, 1, n)) = n /\ \A i \in 1..n : SubSeq(queue, 1, n)[i] = queue[i]
      BY <3>1
    <3>3. batch' = SubSeq(queue, 1, n) /\ drain' = "send" /\ UNCHANGED <<queue, unlinked>>
      BY <1>6, <2>2 DEF Slice
    <3>4. unlinked = 0
      BY <1>6 DEF Slice
    <3> HIDE DEF n
    <3> QED BY <1>a, <3>1, <3>2, <3>3, <3>4
  <2> QED BY <2>1, <2>2
<1>7. CASE \E answer \in Answers : Send(answer)
  <2>1. UNCHANGED <<queue, disk, kills>>
    BY <1>7 DEF Send
  <2>2. \/ drain' = "off" /\ unlinked' = unlinked /\ batch' = <<>>
        \/ drain' \in {"send", "unlink"} /\ unlinked' = 0 /\ batch' = batch
    BY <1>7 DEF Send
  <2> QED BY <1>7, <1>a, <1>c, <2>1, <2>2 DEF Send
<1>8. CASE Unlink
  <2>1. unlinked < Len(batch) /\ UNCHANGED queue /\ drain = "unlink"
    BY <1>8 DEF Unlink, BatchInv
  <2>2. \/ drain' = "off" /\ unlinked' = 0 /\ batch' = <<>>
        \/ /\ drain' = IF unlinked + 1 = Len(batch) THEN "sync" ELSE "unlink"
           /\ unlinked' = unlinked + 1 /\ batch' = batch
    BY <1>8 DEF Unlink
  <2> QED BY <1>a, <1>c, <2>1, <2>2
<1>9. CASE SyncUnlink
  <2>1. Gone' = {}
    BY <1>9 DEF SyncUnlink, Synced, Gone, FilesType
  <2> QED BY <1>9, <1>a, <2>1 DEF SyncUnlink
<1>10. CASE Splice
  BY <1>10, <1>c DEF Splice, Refill
<1>11. CASE \E r \in Runs : Export(r)
  <2>1. UNCHANGED <<batch, unlinked, drain, queue, disk, kills>>
    BY <1>11 DEF Export, outside, drainVars
  <2> QED BY <1>b, <2>1 DEF Gone
<1>12. CASE Kill \/ PowerFailure
  BY <1>12, <1>c DEF Kill, PowerFailure, Fresh
<1>13. CASE UNCHANGED vars
  <2>1. UNCHANGED <<batch, unlinked, drain, queue, disk, kills>>
    BY <1>13 DEF vars, processVars, outside, drainVars
  <2> QED BY <1>b, <2>1 DEF Gone
<1> QED
  BY <1>1, <1>2, <1>3, <1>4, <1>5, <1>6, <1>7, <1>8, <1>9, <1>10, <1>11, <1>12, <1>13
  DEF Next, Accepting, Recovering, Draining

\* A run that recover() reads is not in the queue it looked at.
LEMMA ProceedNew ==
  ASSUME NEW q, NEW F, Proceed(q, F), recovery' = "read"
  PROVE  reading' \notin Queued(q)
  BY DEF Proceed, Readable

\* The queue names the run of a call past its check at most once.
LEMMA OnceNext ==
  ASSUME CallsInv, FilesType, OnceInv, [Next]_vars
  PROVE  OnceInv'
<1> USE DEF OnceInv
<1> SUFFICES ASSUME accepting' # "start" PROVE OnceInv'
  OBVIOUS
<1>a. queue \in Seq(Runs) /\ Len(queue) \in Nat /\ (accepting # "start" => calls # <<>>)
  BY DEF CallsInv
<1>b. ASSUME UNCHANGED <<queue, accepting>>, calls # <<>> => Head(calls') = Head(calls),
             recovery' = "read" => recovery = "read" /\ reading' = reading
      PROVE  OnceInv'
  BY <1>a, <1>b DEF Queued
<1>1. CASE Check
  <2>1. Head(calls) \notin Queued(queue) /\ UNCHANGED <<queue, calls>>
    BY <1>1 DEF Check, Settle
  <2> QED BY <2>1 DEF Queued
<1>2. CASE ReadExisting \/ Rename \/ SyncRename
  <2>1. accepting # "start" /\ UNCHANGED <<queue, calls, recovery, reading>>
    BY <1>2 DEF ReadExisting, Rename, SyncRename, Settle, recoverVars
  <2> QED BY <2>1 DEF Queued
<1>3. CASE Push \/ Kill \/ PowerFailure
  BY <1>3 DEF Push, Settle, Kill, PowerFailure, Fresh
<1>4. CASE Initialize \/ List
  BY <1>4, <1>b DEF Initialize, List, callVars
<1>5. CASE Scan
  <2>1. UNCHANGED <<queue, calls, accepting>> /\ Proceed(queue, files)
    BY <1>5 DEF Scan, callVars
  <2> QED BY <2>1, ProceedNew
<1>6. CASE ReadSpooled
  <2>1. /\ UNCHANGED <<calls, accepting>> /\ Proceed(queue', files)
        /\ recovery = "read" /\ reading \in Runs /\ queue' = Append(queue, reading)
    BY <1>6 DEF ReadSpooled, callVars, CallsInv
  <2>2. /\ Len(queue') = Len(queue) + 1 /\ queue'[Len(queue) + 1] = reading
        /\ \A i \in 1..Len(queue) : queue'[i] = queue[i]
    BY <2>1, AppendKeeps, <1>a
  <2>3. Queued(queue) = {queue[i] : i \in 1..Len(queue)}
    BY <1>a DEF Queued
  <2>4. ASSUME NEW i \in 1..Len(queue'), NEW j \in 1..Len(queue'),
               queue'[i] = Head(calls), queue'[j] = Head(calls)
        PROVE  i = j
    <3>1. CASE reading = Head(calls)
      <4>1. Head(calls) \notin Queued(queue)
        BY <2>1, <3>1
      <4>2. \A k \in 1..Len(queue) : queue'[k] # Head(calls)
        BY <2>2, <2>3, <4>1
      <4> QED BY <1>a, <2>2, <2>4, <4>2
    <3>2. CASE reading # Head(calls)
      <4>1. i \in 1..Len(queue) /\ j \in 1..Len(queue)
        BY <1>a, <2>2, <2>4, <3>2
      <4> QED BY <2>1, <2>2, <2>4, <4>1
    <3> QED BY <3>1, <3>2
  <2> QED BY <2>1, <2>4, ProceedNew
<1>7. CASE Splice
  <2> DEFINE k == Len(batch)
             rest == SubSeq(queue, k + 1, Len(queue))
  <2>1. k \in Nat /\ queue' = rest /\ UNCHANGED <<calls, accepting>> /\ recovery' = "list"
    BY <1>7 DEF Splice, Refill, callVars, FilesType
  <2>2. /\ \A i \in 1..Len(rest) : k + i \in 1..Len(queue) /\ rest[i] = queue[k + i]
        /\ Len(rest) \in Nat
    <3> HIDE DEF k
    <3> QED BY <1>a, <2>1
  <2> HIDE DEF k, rest
  <2> QED BY <2>1, <2>2
<1>8. CASE \/ Start \/ Slice \/ Unlink \/ SyncUnlink \/ Flush \/ Shutdown
           \/ \E answer \in Answers : Send(answer)
           \/ UNCHANGED vars
  <2>1. UNCHANGED <<queue, calls, accepting, recovery, reading>>
    BY <1>8 DEF Start, Slice, Unlink, SyncUnlink, Flush, Shutdown, Send, vars, processVars,
      callVars, recoverVars
  <2> QED BY <2>1, <1>b
<1>9. CASE \E r \in Runs : Export(r)
  <2> PICK r \in Runs : Export(r)
    BY <1>9
  <2>1. calls # <<>> => Head(calls') = Head(calls)
    BY DEF Export, CallsInv
  <2>2. UNCHANGED <<queue, accepting, recovery, reading>>
    BY DEF Export, recoverVars
  <2> QED BY <2>1, <2>2, <1>b
<1> QED
  BY <1>1, <1>2, <1>3, <1>4, <1>5, <1>6, <1>7, <1>8, <1>9
  DEF Next, Accepting, Recovering, Draining

\* Within a batch every run is unlinked once: a second unlink finds no file,
\* since the call that could have written another one had found the run queued.
LEMMA ApartNext ==
  ASSUME CallsInv, FilesType, BatchInv, FrontInv, OnceInv, ApartInv, [Next]_vars
  PROVE  ApartInv'
<1> USE DEF ApartInv
<1>a. Len(queue) \in Nat /\ Len(batch) \in Nat /\ unlinked \in Nat
  BY DEF CallsInv, FilesType
<1>b. ASSUME UNCHANGED <<batch, unlinked>>, Spooled' \subseteq Spooled
      PROVE  ApartInv'
  BY <1>b
<1>c. ASSUME unlinked' = 0 PROVE ApartInv'
  BY <1>c
<1>1. CASE \/ Check \/ ReadExisting \/ Push \/ Recovering \/ Start \/ Flush \/ Shutdown
           \/ UNCHANGED vars \/ \E r \in Runs : Export(r)
  <2>1. UNCHANGED <<batch, unlinked, disk>>
    BY <1>1 DEF Check, ReadExisting, Push, Recovering, Initialize, List, Scan, ReadSpooled, Start,
      Flush, Shutdown, vars, outside, processVars, drainVars, Export
  <2> QED BY <2>1, <1>b DEF Spooled
<1>2. CASE SyncRename \/ SyncUnlink
  <2>1. UNCHANGED <<batch, unlinked>>
    BY <1>2 DEF SyncRename, SyncUnlink, drainVars
  <2>2. Spooled' \subseteq Spooled
    BY <1>2 DEF SyncRename, SyncUnlink, Synced, Spooled, FilesType
  <2> QED BY <2>1, <2>2, <1>b
<1>3. CASE Rename
  <2>1. accepting # "start" /\ UNCHANGED <<batch, unlinked>>
    BY <1>3 DEF Rename, drainVars
  <2>2. Spooled' \subseteq Spooled \cup {Head(calls)}
    BY <1>3 DEF Rename, Spooled, FilesType
  <2>3. ASSUME NEW i \in 1..unlinked, NEW j \in 1..Len(batch), j > unlinked, batch[i] = batch[j]
        PROVE  batch[i] # Head(calls)
    <3>1. unlinked # 0 /\ i \in 1..Len(queue) /\ j \in 1..Len(queue) /\ i # j
      BY <1>a, <2>3 DEF FrontInv
    <3>2. batch[i] = queue[i] /\ batch[j] = queue[j]
      BY <1>a, <2>3, <3>1 DEF FrontInv
    <3> QED BY <2>1, <2>3, <3>1, <3>2 DEF OnceInv
  <2> QED BY <2>1, <2>2, <2>3
<1>4. CASE Slice
  BY <1>4, <1>c DEF Slice, FrontInv
<1>5. CASE \E answer \in Answers : Send(answer)
  <2>1. UNCHANGED disk /\ (unlinked' = 0 \/ UNCHANGED <<batch, unlinked>> \/ (drain = "send" /\ unlinked' = unlinked))
    BY <1>5 DEF Send
  <2> QED BY <2>1, <1>b, <1>c DEF FrontInv, Spooled
<1>6. CASE Unlink
  <2> DEFINE n == unlinked + 1
  <2>1. CASE batch[n] \notin Spooled
    BY <1>6, <1>c, <2>1 DEF Unlink
  <2>2. CASE batch[n] \in Spooled
    <3>1. /\ batch' = batch /\ unlinked' = n /\ n \in 1..Len(batch)
          /\ disk' = [disk EXCEPT ![batch[n]] = "gone"]
      BY <1>6, <1>a, <2>2 DEF Unlink, BatchInv
    <3>2. Spooled' = Spooled \ {batch[n]}
      BY <3>1 DEF Spooled, FilesType
    <3>3. \A i \in 1..unlinked : batch[i] # batch[n]
      BY <1>a, <2>2, <3>1
    <3>4. 1..n = 1..unlinked \cup {n}
      BY <1>a
    <3> HIDE DEF n
    <3>5. \A i, j \in 1..n : batch[i] = batch[j] => i = j
      BY <3>3, <3>4
    <3>6. ASSUME NEW i \in 1..n, NEW j \in 1..Len(batch), j > n, batch[i] = batch[j]
          PROVE  batch[i] \notin Spooled'
      <4>1. CASE i = n
        BY <3>2, <4>1
      <4>2. CASE i # n
        <5>1. i \in 1..unlinked /\ j > unlinked
          BY <1>a, <3>4, <3>6, <4>2 DEF n
        <5> QED BY <3>2, <3>6, <5>1
      <4> QED BY <4>1, <4>2
    <3> QED BY <3>1, <3>5, <3>6
  <2> QED BY <2>1, <2>2
<1>7. CASE Splice \/ Kill \/ PowerFailure
  BY <1>7, <1>c DEF Splice, Kill, PowerFailure, Fresh
<1> QED
  BY <1>1, <1>2, <1>3, <1>4, <1>5, <1>6, <1>7 DEF Next, Accepting, Draining

\* The sets and numbers of the account.
LEMMA AccountTypes ==
  ASSUME CallsInv, FilesType, FrontInv
  PROVE  /\ Spooled \subseteq Runs /\ Gone \subseteq Runs /\ Cleared \subseteq Runs
         /\ Removed \subseteq Runs
         /\ Weight(Spooled) \in Nat /\ Weight(Gone) \in Nat /\ Weight(Removed) \in Nat
         /\ accepting # "start" => Head(calls) \in Runs /\ Size[Head(calls)] \in Nat
         /\ Uncounted \in Nat /\ Reserve \in Nat /\ Uncounted <= Reserve
         /\ unlinked = 0 => Cleared = {}
<1>1. Spooled \subseteq Runs /\ Gone \subseteq Runs
  BY DEF Spooled, Gone
<1>2. Cleared \subseteq Runs
  BY DEF Cleared, FilesType, FrontInv
<1>3. Removed \subseteq Runs
  BY <1>1, <1>2 DEF Removed
<1>4. Weight(Spooled) \in Nat /\ Weight(Gone) \in Nat /\ Weight(Removed) \in Nat
  BY <1>1, <1>3, WeightLaws
<1>5. accepting # "start" => Head(calls) \in Runs /\ Size[Head(calls)] \in Nat
  BY ExporterAssumption DEF CallsInv
<1>6. Uncounted \in Nat /\ Reserve \in Nat /\ Uncounted <= Reserve
  BY <1>5 DEF Uncounted, Reserve
<1>7. unlinked = 0 => Cleared = {}
  BY DEF Cleared
<1> QED BY <1>1, <1>2, <1>3, <1>4, <1>5, <1>6, <1>7

\* Sets that only shrink weigh no more.
LEMMA WeightShrinks ==
  ASSUME NEW S \in SUBSET Runs, NEW T, T \subseteq S
  PROVE  Weight(T) \in Nat /\ Weight(T) <= Weight(S)
  BY WeightLaws

\* spoolBytes accounts for every file, after every step.
LEMMA ChargeNext ==
  ASSUME CallsInv, CallsInv', FilesType, FilesType', BatchInv, KnownInv, PhaseInv, FrontInv, FrontInv',
         OnceInv, ApartInv, ChargeInv, [Next]_vars
  PROVE  ChargeInv'
<1> USE DEF ChargeInv
<1>t. /\ Spooled \subseteq Runs /\ Gone \subseteq Runs /\ Cleared \subseteq Runs
      /\ Removed \subseteq Runs
      /\ Weight(Spooled) \in Nat /\ Weight(Gone) \in Nat /\ Weight(Removed) \in Nat
      /\ accepting # "start" => Head(calls) \in Runs /\ Size[Head(calls)] \in Nat
      /\ Uncounted \in Nat /\ Reserve \in Nat /\ Uncounted <= Reserve
      /\ unlinked = 0 => Cleared = {}
  BY AccountTypes
<1>u. /\ Spooled' \subseteq Runs /\ Removed' \subseteq Runs
      /\ Weight(Spooled') \in Nat /\ Weight(Removed') \in Nat
      /\ unlinked' = 0 => Cleared' = {}
  <2>1. Spooled' \subseteq Runs
    BY DEF Spooled
  <2>2. Removed' \subseteq Runs
    BY DEF Removed, Gone, Cleared, FilesType, FrontInv
  <2>3. Weight(Spooled') \in Nat /\ Weight(Removed') \in Nat
    BY <2>1, <2>2, WeightLaws
  <2> QED BY <2>1, <2>2, <2>3 DEF Cleared, Weight
<1>m. MaxSpoolBytes \in Nat
  BY ExporterAssumption
<1>b. ASSUME Spooled' \subseteq Spooled, Gone' \subseteq Gone, Removed' \subseteq Removed,
             UNCHANGED <<spoolBytes, initialized>>, Counted' <=> Counted,
             Uncounted' = Uncounted, Reserve' = Reserve,
             accepting' # "start" => accepting # "start"
      PROVE  ChargeInv'
  <2>1. Weight(Spooled') <= Weight(Spooled) /\ Weight(Removed') <= Weight(Removed)
    BY <1>t, <1>b, WeightShrinks
  <2>2. Gone' = {} \/ Gone # {}
    BY <1>b
  <2> QED BY <1>t, <1>u, <1>b, <1>m, <2>1, <2>2
<1>1. CASE Check
  <2>1. /\ UNCHANGED <<disk, kills, spoolBytes, initialized, recovery, batch, unlinked>>
        /\ accepting = "start" /\ initialized = "yes" /\ accepting' \in {"start", "read"}
    BY <1>1 DEF Check, Settle, recoverVars
  <2>2. Uncounted = 0 /\ Reserve = 0 /\ Uncounted' = 0 /\ Reserve' = 0
    BY <2>1 DEF Uncounted, Reserve
  <2>3. Spooled' = Spooled /\ Gone' = Gone /\ Removed' = Removed /\ Counted /\ Counted'
    BY <2>1 DEF Spooled, Gone, Cleared, Removed, Counted
  <2> QED BY <2>1, <2>2, <2>3
<1>2. CASE ReadExisting
  <2>1. /\ UNCHANGED <<disk, kills, spoolBytes, initialized, recovery, batch, unlinked>>
        /\ accepting = "read"
        /\ \/ accepting' = "start"
           \/ accepting' = "write" /\ calls' = calls /\ Size[Head(calls)] + spoolBytes <= MaxSpoolBytes
    BY <1>2 DEF ReadExisting, Settle, recoverVars, Spare
  <2>2. initialized = "yes" /\ Counted /\ Counted'
    BY <2>1 DEF Counted
  <2>3. Spooled' = Spooled /\ Removed' = Removed /\ Uncounted = 0 /\ Uncounted' = 0 /\ Reserve = 0
    BY <2>1 DEF Spooled, Gone, Cleared, Removed, Uncounted, Reserve
  <2>4. Reserve' = 0 \/ (Reserve' = Size[Head(calls)] /\ Size[Head(calls)] + spoolBytes <= MaxSpoolBytes)
    BY <2>1 DEF Reserve
  <2> QED BY <1>t, <2>1, <2>2, <2>3, <2>4
<1>3. CASE Rename
  <2> DEFINE r == Head(calls)
  <2>1. /\ UNCHANGED <<kills, spoolBytes, initialized, recovery, batch, unlinked, calls>>
        /\ accepting = "write" /\ accepting' = "sync"
        /\ disk' = [disk EXCEPT ![r] = "new"]
    BY <1>3 DEF Rename, recoverVars, drainVars
  <2>2. initialized = "yes" /\ Counted /\ Counted' /\ r \in Runs /\ Size[r] \in Nat
    BY <1>t, <2>1 DEF Counted
  <2>3. Uncounted = 0 /\ Uncounted' = Size[r] /\ Reserve' = Reserve
    BY <2>1 DEF Uncounted, Reserve
  <2>4. Spooled' = Spooled \cup {r} /\ Removed' \subseteq Removed
    BY <2>1, <2>2 DEF Spooled, Gone, Cleared, Removed, FilesType
  <2>5. Weight(Spooled \cup {r}) <= Weight(Spooled) + Size[r]
    <3> HIDE DEF r
    <3>1. {r} \in SUBSET Runs /\ Weight({r}) = Size[r]
      BY <2>2, <1>t, WeightLaws
    <3> QED BY <3>1, <1>t, WeightLaws
  <2>6. Weight(Removed') <= Weight(Removed)
    BY <1>t, <2>4, WeightShrinks
  <2> HIDE DEF r
  <2>7. Weight(Spooled') = Weight(Spooled \cup {r})
    BY <2>4
  <2> QED BY <1>t, <1>u, <1>m, <2>1, <2>2, <2>3, <2>5, <2>6, <2>7
<1>4. CASE SyncRename \/ SyncUnlink
  <2>1. /\ UNCHANGED <<kills, spoolBytes, initialized, recovery, batch, unlinked, calls>>
        /\ disk' = Synced(disk)
        /\ accepting' = accepting \/ (accepting = "sync" /\ accepting' = "push")
    BY <1>4 DEF SyncRename, SyncUnlink, recoverVars, drainVars, callVars
  <2>2. Spooled' = Spooled /\ Gone' \subseteq Gone /\ Removed' \subseteq Removed
    BY <2>1 DEF Spooled, Gone, Cleared, Removed, Synced, FilesType
  <2>3. Uncounted' = Uncounted /\ Reserve' = Reserve /\ (Counted' <=> Counted)
    BY <2>1 DEF Uncounted, Reserve, Counted
  <2> QED BY <1>b, <2>1, <2>2, <2>3
<1>5. CASE Push
  <2>1. /\ UNCHANGED <<disk, kills, initialized, recovery, batch, unlinked>>
        /\ accepting = "push" /\ accepting' = "start"
        /\ spoolBytes' = spoolBytes + Size[Head(calls)]
    BY <1>5 DEF Push, Settle, recoverVars
  <2>2. initialized = "yes" /\ Counted /\ Counted'
    BY <2>1 DEF Counted
  <2>3. /\ Spooled' = Spooled /\ Removed' = Removed /\ Uncounted' = 0 /\ Reserve' = 0
        /\ Uncounted = Size[Head(calls)] /\ Reserve = Size[Head(calls)]
    BY <2>1 DEF Spooled, Gone, Cleared, Removed, Uncounted, Reserve
  <2> QED BY <1>t, <2>1, <2>2, <2>3
<1>6. CASE Initialize
  <2>1. /\ UNCHANGED <<disk, kills, spoolBytes, batch, unlinked, calls, accepting>>
        /\ initialized = "no" /\ initialized' = "running" /\ recovery' = "list"
    BY <1>6 DEF Initialize, outside, drainVars, callVars
  <2>2. ~Counted /\ ~Counted' /\ Spooled' = Spooled /\ Gone' = Gone
    BY <2>1 DEF Counted, Spooled, Gone
  <2> QED BY <2>1, <2>2
<1>7. CASE List
  <2>1. /\ UNCHANGED <<disk, kills, initialized, batch, unlinked, calls, accepting>>
        /\ recovery = "list" /\ recovery' = "scan"
        /\ spoolBytes' = IF initialized = "yes" THEN spoolBytes ELSE spoolBytes + Weight(Spooled)
    BY <1>7 DEF List, outside, drainVars, callVars
  <2>2. Spooled' = Spooled /\ Gone' = Gone /\ Removed' = Removed /\ Uncounted' = Uncounted /\ Reserve' = Reserve
    BY <2>1 DEF Spooled, Gone, Cleared, Removed, Uncounted, Reserve
  <2>3. CASE initialized = "yes"
    BY <1>b, <2>1, <2>2, <2>3 DEF Counted
  <2>4. CASE initialized # "yes"
    <3>1. ~Counted /\ accepting = "start" /\ Reserve = 0 /\ Uncounted = 0
      BY <2>1, <2>4 DEF Counted, Reserve, Uncounted
    <3>2. unlinked = 0
      BY <2>4 DEF PhaseInv, FrontInv
    <3>3. Removed' = {}
      BY <1>t, <2>2, <3>1, <3>2 DEF Removed
    <3>4. Weight({}) = 0
      BY <1>t, WeightLaws
    <3>5. Weight(Removed') = 0
      BY <3>3, <3>4
    <3>6. Counted' /\ spoolBytes = 0 /\ Weight(Spooled) <= MaxSpoolBytes
      BY <2>1, <2>4, <3>1 DEF Counted, PhaseInv
    <3>7. spoolBytes' = Weight(Spooled) /\ Weight(Spooled') = Weight(Spooled)
      BY <1>t, <2>1, <2>2, <2>4, <3>6
    <3> QED BY <1>t, <1>m, <2>1, <2>2, <3>1, <3>5, <3>6, <3>7
  <2> QED BY <2>3, <2>4
<1>8. CASE Scan \/ ReadSpooled
  <2>1. /\ UNCHANGED <<disk, kills, spoolBytes, batch, unlinked, calls, accepting>>
        /\ recovery \in {"scan", "read"}
        /\ \/ recovery' = "read" /\ initialized' = initialized
           \/ recovery' = "off" /\ initialized' = "yes"
    BY <1>8 DEF Scan, ReadSpooled, Proceed, outside, callVars
  <2>2. Spooled' = Spooled /\ Gone' = Gone /\ Removed' = Removed /\ Uncounted' = Uncounted /\ Reserve' = Reserve
    BY <2>1 DEF Spooled, Gone, Cleared, Removed, Uncounted, Reserve
  <2>3. initialized # "no"
    BY <2>1 DEF PhaseInv
  <2>4. Counted => Counted'
    BY <2>1, <2>3 DEF Counted
  <2>5. CASE Counted
    BY <2>1, <2>2, <2>4, <2>5
  <2>6. Counted
    BY <2>1, <2>3 DEF Counted, PhaseInv
  <2> QED BY <2>5, <2>6
<1>9. CASE Start \/ Slice \/ \E answer \in Answers : Send(answer)
  <2>1. UNCHANGED <<disk, kills, spoolBytes, initialized, recovery, calls, accepting>>
    BY <1>9 DEF Start, Slice, Send, outside, callVars, recoverVars
  <2>2. UNCHANGED <<batch, unlinked>> \/ (unlinked = 0 /\ unlinked' = 0) \/ unlinked' = 0
    BY <1>9 DEF Start, Slice, Send, FrontInv
  <2>3. Spooled' = Spooled /\ Gone' = Gone
    BY <2>1 DEF Spooled, Gone
  <2>4. Removed' \subseteq Removed
    BY <1>u, <2>2, <2>3 DEF Removed, Cleared
  <2>5. Uncounted' = Uncounted /\ Reserve' = Reserve /\ (Counted' <=> Counted)
    BY <2>1 DEF Uncounted, Reserve, Counted
  <2> QED BY <1>b, <2>1, <2>3, <2>4, <2>5
<1>10. CASE Unlink
  <2> DEFINE n == unlinked + 1
             r == batch[n]
  <2>1. /\ UNCHANGED <<kills, spoolBytes, initialized, recovery, calls, accepting>>
        /\ drain = "unlink" /\ unlinked < Len(batch)
    BY <1>10 DEF Unlink, callVars, recoverVars, BatchInv
  <2>2. n \in 1..Len(batch) /\ r \in Runs /\ Size[r] \in Nat
    BY <2>1, ExporterAssumption DEF FilesType
  <2>3. initialized = "yes" /\ Counted /\ Counted' /\ Uncounted' = Uncounted /\ Reserve' = Reserve
    BY <2>1 DEF PhaseInv, Counted, Uncounted, Reserve
  <2>4. CASE r \notin Spooled
    <3>1. disk' = disk /\ unlinked' = 0
      BY <1>10, <2>4 DEF Unlink
    <3>2. Spooled' = Spooled /\ Gone' = Gone
      BY <2>1, <3>1 DEF Spooled, Gone
    <3>3. Removed' \subseteq Removed
      BY <1>u, <3>1, <3>2 DEF Removed
    <3> QED BY <1>b, <2>1, <2>3, <3>2, <3>3
  <2>5. CASE r \in Spooled
    <3>1. disk' = [disk EXCEPT ![r] = "gone"] /\ unlinked' = n /\ batch' = batch
      BY <1>10, <2>5 DEF Unlink
    <3>2. Spooled' = Spooled \ {r} /\ Gone' \subseteq Gone \cup {r}
      BY <2>1, <2>2, <3>1 DEF Spooled, Gone, FilesType
    <3>3. Cleared' \subseteq Cleared \cup {r}
      <4>1. \A i \in 1..n : i \in 1..unlinked \/ i = n
        BY DEF FilesType
      <4> HIDE DEF n
      <4>2. \A i \in 1..n : batch[i] \in Cleared \/ batch[i] = batch[n]
        BY <4>1 DEF Cleared
      <4> QED BY <3>1, <4>2 DEF Cleared
    <3>4. Removed' \subseteq Removed \cup {r}
      BY <3>2, <3>3 DEF Removed
    <3> HIDE DEF r
    <3>5. {r} \in SUBSET Runs /\ Weight({r}) = Size[r]
      BY <1>t, <2>2, WeightLaws
    <3>6. Weight(Spooled) <= Weight(Spooled') + Size[r] /\ Weight(Spooled) = Weight(Spooled') + Size[r]
      <4>1. Spooled = Spooled' \cup {r} /\ Spooled' \cap {r} = {}
        BY <2>5, <3>2
      <4>2. Weight(Spooled' \cup {r}) = Weight(Spooled') + Weight({r})
        BY <1>u, <3>5, <4>1, WeightSplit
      <4>3. Weight(Spooled) = Weight(Spooled' \cup {r})
        BY <4>1
      <4> QED BY <1>t, <1>u, <2>2, <3>5, <4>2, <4>3
    <3>7. Weight(Removed \cup {r}) <= Weight(Removed) + Size[r] /\ Removed \cup {r} \in SUBSET Runs
      BY <1>t, <3>5, WeightLaws
    <3>8. Weight(Removed') <= Weight(Removed \cup {r}) /\ Weight(Removed \cup {r}) \in Nat
      BY <1>u, <3>4, <3>7, WeightLaws
    <3> QED BY <1>t, <1>u, <1>m, <2>1, <2>2, <2>3, <3>6, <3>7, <3>8
  <2> QED BY <2>4, <2>5
<1>11. CASE Splice
  <2>1. /\ UNCHANGED <<disk, kills, initialized, calls, accepting>>
        /\ drain = "splice" /\ recovery' = "list" /\ unlinked' = 0
        /\ spoolBytes' = Freed(Bytes(batch))
    BY <1>11 DEF Splice, Refill, outside, callVars
  <2>2. initialized = "yes" /\ Counted /\ Counted' /\ Uncounted' = Uncounted /\ Reserve' = Reserve
    BY <2>1 DEF PhaseInv, Counted, Uncounted, Reserve
  <2>3. Spooled' = Spooled /\ Gone = {} /\ Gone' = {} /\ unlinked = Len(batch)
    BY <2>1 DEF Spooled, Gone, FrontInv
  <2>4. Removed' = {}
    BY <1>u, <2>1, <2>3 DEF Removed
  <2>5. Removed = Queued(batch)
    BY <2>3 DEF Removed, Cleared, Queued, FilesType
  <2>6. batch \in Seq(Runs) /\ \A i, j \in DOMAIN batch : batch[i] = batch[j] => i = j
    BY <2>3 DEF ApartInv, FilesType
  <2>7. Bytes(batch) \in Nat /\ Bytes(batch) <= Weight(Queued(batch))
    BY <2>6, BytesLaws
  <2>8. Weight(Removed') = 0 /\ Weight(Removed) = Weight(Queued(batch)) /\ Weight(Spooled') = Weight(Spooled)
    BY <2>3, <2>4, <2>5, <1>t, WeightLaws
  <2>9. \/ spoolBytes < Bytes(batch) /\ spoolBytes' = 0
        \/ spoolBytes >= Bytes(batch) /\ spoolBytes' = spoolBytes - Bytes(batch)
    BY <2>1, <2>7 DEF Freed
  <2> QED BY <1>t, <1>u, <1>m, <2>1, <2>2, <2>7, <2>8, <2>9
<1>12. CASE Flush \/ Shutdown \/ UNCHANGED vars \/ \E r \in Runs : Export(r)
  <2>1. UNCHANGED <<disk, kills, spoolBytes, initialized, recovery, accepting, batch, unlinked>>
    BY <1>12 DEF Flush, Shutdown, Export, vars, processVars, outside, callVars, drainVars, recoverVars
  <2>2. calls' = calls \/ \E r \in Runs : calls' = Append(calls, r)
    BY <1>12 DEF Flush, Shutdown, Export, vars, processVars, callVars
  <2>3. accepting # "start" => Head(calls') = Head(calls)
    BY <2>2 DEF CallsInv
  <2>4. Uncounted' = Uncounted /\ Reserve' = Reserve /\ (Counted' <=> Counted)
    BY <2>1, <2>3 DEF Uncounted, Reserve, Counted
  <2>5. Spooled' = Spooled /\ Gone' = Gone /\ Removed' = Removed
    BY <2>1 DEF Spooled, Gone, Cleared, Removed
  <2> QED BY <1>b, <2>1, <2>4, <2>5
<1>13. CASE Kill
  <2>1. /\ disk' = disk /\ kills' = kills + 1 /\ kills \in Nat
        /\ initialized' = "no" /\ accepting' = "start" /\ spoolBytes' = 0
    BY <1>13 DEF Kill, Fresh, FilesType
  <2>2. ~Counted' /\ Gone' = {} /\ Spooled' = Spooled
    BY <2>1 DEF Counted, Gone, Spooled
  <2> QED BY <1>t, <1>m, <2>1, <2>2
<1>14. CASE PowerFailure
  <2>1. /\ kills = 0 /\ disk' \in [Runs -> {"none", "kept"}]
        /\ \A r \in Runs : disk[r] \in {"none", "kept"} => disk'[r] = disk[r]
        /\ initialized' = "no" /\ accepting' = "start" /\ spoolBytes' = 0
    BY <1>14 DEF PowerFailure, Fresh
  <2>2. ~Counted' /\ Gone' = {}
    BY <2>1 DEF Counted, Gone
  <2>3. Spooled' \subseteq Spooled \cup Gone
    BY <2>1 DEF Spooled, Gone, FilesType
  <2>4. Weight(Spooled \cup Gone) <= Weight(Spooled) + Weight(Gone) /\ Weight(Gone) <= Weight(Removed)
    BY <1>t, WeightLaws DEF Removed
  <2>5. Weight(Spooled') <= Weight(Spooled \cup Gone) /\ Weight(Spooled \cup Gone) \in Nat
    BY <1>t, <2>3, WeightShrinks
  <2>6. Weight(Spooled') <= Weight(Spooled) + Weight(Gone)
    BY <1>t, <1>u, <2>4, <2>5
  <2>7. CASE Counted
    BY <1>t, <1>u, <1>m, <2>1, <2>2, <2>4, <2>6, <2>7
  <2>8. CASE ~Counted
    <3>1. Weight(Gone) = 0
      BY <2>8, <1>t, WeightLaws
    <3> QED BY <1>t, <1>u, <1>m, <2>1, <2>2, <2>6, <2>8, <3>1
  <2> QED BY <2>7, <2>8
<1> QED
  BY <1>1, <1>2, <1>3, <1>4, <1>5, <1>6, <1>7, <1>8, <1>9, <1>10, <1>11, <1>12, <1>13, <1>14
  DEF Next, Accepting, Recovering, Draining

\* An earlier process left no more than the limit.
LEMMA SpoolInit == Init => SpoolInv
<1> SUFFICES ASSUME Init PROVE SpoolInv
  OBVIOUS
<1> PICK left \in SUBSET Runs :
      /\ disk = [r \in Runs |-> IF r \in left THEN "kept" ELSE "none"]
      /\ accepted = left
      /\ Weight(left) <= MaxSpoolBytes
  BY DEF Init
<1>1. <<>> \in Seq(Runs) /\ Len(<<>>) = 0
  OBVIOUS
<1>2. Spooled = left /\ Kept = left /\ Gone = {}
  BY DEF Spooled, Kept, Gone
<1>3. CallsInv /\ BatchInv /\ PhaseInv /\ OnceInv
  BY <1>1 DEF Init, CallsInv, BatchInv, PhaseInv, OnceInv
<1>4. FilesType
  BY <1>1 DEF Init, FilesType
<1>5. KnownInv /\ SyncedInv /\ SureInv
  BY <1>1, <1>2 DEF Init, KnownInv, SyncedInv, SureInv, Safe, Sure, Queued
<1>6. FrontInv
  BY <1>1, <1>2 DEF Init, FrontInv
<1>7. ApartInv
  BY <1>1 DEF Init, ApartInv
<1>8. ChargeInv
  BY <1>2 DEF Init, ChargeInv, Counted
<1> QED BY <1>3, <1>4, <1>5, <1>6, <1>7, <1>8 DEF SpoolInv

\* Every step keeps the account and what it rests on.
LEMMA SpoolNext == SpoolInv /\ [Next]_vars => SpoolInv'
<1> SUFFICES ASSUME SpoolInv, [Next]_vars PROVE SpoolInv'
  OBVIOUS
<1>1. /\ CallsInv /\ FilesType /\ BatchInv /\ KnownInv /\ SyncedInv /\ SureInv /\ PhaseInv
      /\ FrontInv /\ OnceInv /\ ApartInv /\ ChargeInv
  BY DEF SpoolInv
<1>2. CallsInv' /\ FilesType' /\ BatchInv' /\ PhaseInv'
  BY <1>1, CallsNext, FilesNext, BatchNext, PhaseNext
<1>3. SyncedInv' /\ KnownInv' /\ SureInv'
  BY <1>1, SyncedNext, KnownNext, SureNext DEF DurableInv
<1>4. FrontInv' /\ OnceInv' /\ ApartInv'
  BY <1>1, FrontNext, OnceNext, ApartNext
<1>5. ChargeInv'
  BY <1>1, <1>2, <1>4, ChargeNext
<1> QED BY <1>2, <1>3, <1>4, <1>5 DEF SpoolInv

\* SpoolBounded: the files of the spool never hold more than maxSpoolBytes,
\* whatever is accepted while a drain deletes, and whatever a killed process or
\* a power failure leaves to the next one.
THEOREM SpoolLimit == Spec => []SpoolBounded
<1>1. SpoolInv => SpoolBounded
  <2> SUFFICES ASSUME SpoolInv PROVE SpoolBounded
    OBVIOUS
  <2>1. CallsInv /\ FilesType /\ FrontInv /\ ChargeInv
    BY DEF SpoolInv
  <2>2. /\ Weight(Spooled) \in Nat /\ Weight(Removed) \in Nat
        /\ Uncounted \in Nat /\ Reserve \in Nat /\ Uncounted <= Reserve
        /\ MaxSpoolBytes \in Nat /\ spoolBytes \in Nat
    BY <2>1, AccountTypes, ExporterAssumption DEF ChargeInv
  <2> QED BY <2>1, <2>2 DEF ChargeInv, SpoolBounded
<1> QED BY <1>1, SpoolInit, SpoolNext, PTL DEF Spec

-----------------------------------------------------------------------------
(* Types.                                                                  *)

\* What TypeOK says beyond the parts above.
RestType ==
  /\ accepted \subseteq Runs /\ outages \in Nat /\ closed \in BOOLEAN
  /\ accepting \in {"start", "read", "write", "sync", "push"}
  /\ drain \in {"off", "pending", "loop", "send", "unlink", "sync", "splice", "recover"}
  /\ awaited <= Len(calls)
  /\ attempt \in 0..(MaxAttempts - 1)

\* A call that settles is no longer awaited.
LEMMA RestNext ==
  ASSUME CallsInv, PhaseInv, RestType, [Next]_vars
  PROVE  RestType'
<1> USE DEF RestType
<1>a. Len(calls) \in Nat /\ awaited \in Nat /\ MaxAttempts \in Nat \ {0}
  BY ExporterAssumption DEF CallsInv, PhaseInv
<1>1. CASE Check \/ ReadExisting \/ Push
  <2>1. UNCHANGED <<outages, closed, attempt>> /\ calls # <<>>
    BY <1>1 DEF Check, ReadExisting, Push, CallsInv
  <2>2. CASE \E ok \in BOOLEAN : Settle(ok)
    <3> PICK ok \in BOOLEAN : Settle(ok)
      BY <2>2
    <3>1. Head(calls) \in Runs /\ Len(calls') = Len(calls) - 1
      BY <2>1 DEF Settle, CallsInv
    <3>2. /\ accepted' \subseteq Runs /\ accepting' = "start"
          /\ awaited' = 0 \/ (awaited > 0 /\ awaited' = awaited - 1)
      BY <3>1, <1>a DEF Settle
    <3>3. drain' \in {drain, "off"}
      BY DEF Settle
    <3>4. Len(calls') \in Nat /\ awaited' <= Len(calls')
      BY <1>a, <2>1, <3>1, <3>2 DEF CallsInv
    <3> QED BY <1>a, <2>1, <3>2, <3>3, <3>4
  <2>3. CASE ~ \E ok \in BOOLEAN : Settle(ok)
    BY <1>1, <2>1, <2>3 DEF Check, ReadExisting, Push
  <2> QED BY <2>2, <2>3
<1>2. CASE Rename \/ SyncRename
  BY <1>2 DEF Rename, SyncRename, drainVars
<1>3. CASE Initialize \/ List
  BY <1>3 DEF Initialize, List, outside, callVars, drainVars
<1>4. CASE Scan \/ ReadSpooled
  BY <1>4 DEF Scan, ReadSpooled, Proceed, outside, callVars
<1>5. CASE Start \/ Slice
  BY <1>5, <1>a DEF Start, Slice, outside, callVars
<1>6. CASE Unlink
  BY <1>6, <1>a DEF Unlink, callVars
<1>7. CASE SyncUnlink \/ Splice
  BY <1>7, <1>a DEF SyncUnlink, Splice, Refill, outside, callVars
<1>8. CASE \E answer \in Answers : Send(answer)
  <2>1. UNCHANGED <<accepted, outages, closed, calls, accepting, awaited>>
    BY <1>8 DEF Send, callVars
  <2>2. attempt' \in {attempt, 0, (attempt + 1) % MaxAttempts}
    BY <1>8 DEF Send
  <2>3. (attempt + 1) % MaxAttempts \in 0..(MaxAttempts - 1)
    BY <1>a
  <2>4. drain' \in {"send", "unlink", "off"}
    BY <1>8 DEF Send
  <2> QED BY <1>a, <2>1, <2>2, <2>3, <2>4
<1>9. CASE Flush \/ Shutdown
  <2>1. UNCHANGED <<accepted, outages, calls, accepting, attempt>>
    BY <1>9 DEF Flush, Shutdown, outside, callVars
  <2>2. closed' \in {closed, TRUE}
    BY <1>9 DEF Flush, Shutdown
  <2>3. closed' \in BOOLEAN
    BY <2>2, Zenon
  <2>4. (drain' = "pending" /\ awaited' = Len(calls)) \/ UNCHANGED <<drain, awaited>>
    BY <1>9 DEF Flush, Shutdown, Drain
  <2> QED BY <1>a, <2>1, <2>3, <2>4
<1>10. CASE \E r \in Runs : Export(r)
  <2> PICK r \in Runs : Export(r)
    BY <1>10
  <2>1. Len(calls') = Len(calls) + 1
    BY DEF Export, CallsInv
  <2> QED BY <1>a, <2>1 DEF Export, outside, drainVars
<1>11. CASE Kill \/ PowerFailure
  <2>1. Len(<<>>) = 0
    OBVIOUS
  <2>2. closed' \in BOOLEAN
    BY <1>11, Zenon DEF Kill, PowerFailure, Fresh
  <2>3. /\ accepted' = accepted /\ outages' \in {outages, outages + 1} /\ calls' = <<>>
        /\ accepting' = "start" /\ drain' = "off" /\ awaited' = 0 /\ attempt' = 0
    BY <1>11 DEF Kill, PowerFailure, Fresh
  <2> QED BY <1>a, <2>1, <2>2, <2>3
<1>12. CASE UNCHANGED vars
  BY <1>12 DEF vars, processVars, outside, callVars, drainVars
<1> QED
  BY <1>1, <1>2, <1>3, <1>4, <1>5, <1>6, <1>7, <1>8, <1>9, <1>10, <1>11, <1>12
  DEF Next, Accepting, Recovering, Draining

\* TypeOK: no counter goes below zero, the place in the batch stays inside it,
\* and a drain never awaits more calls than there are.
THEOREM ExporterTypeCorrect == Spec => []TypeOK
<1>1. Init => SpoolInv /\ RestType
  <2> SUFFICES ASSUME Init PROVE SpoolInv /\ RestType
    OBVIOUS
  <2>1. Len(<<>>) = 0 /\ MaxAttempts \in Nat \ {0}
    BY ExporterAssumption
  <2>2. closed \in BOOLEAN
    BY Zenon DEF Init
  <2>3. /\ accepted \subseteq Runs /\ outages = 0 /\ calls = <<>> /\ accepting = "start"
        /\ drain = "off" /\ awaited = 0 /\ attempt = 0
    BY DEF Init
  <2> QED BY <2>1, <2>2, <2>3, SpoolInit DEF RestType
<1>2. SpoolInv /\ RestType /\ [Next]_vars => SpoolInv' /\ RestType'
  BY SpoolNext, RestNext DEF SpoolInv
<1>3. SpoolInv /\ RestType => TypeOK
  BY DEF SpoolInv, CallsInv, FilesType, PhaseInv, FrontInv, ChargeInv, RestType, TypeOK
<1> QED BY <1>1, <1>2, <1>3, PTL DEF Spec

=============================================================================
