------------------------------ MODULE Vectors ------------------------------
(***************************************************************************)
(* The vector tables of refract-storage for one scope: run_embeddings, the *)
(* vector_generations counters that guard every cached index, and the      *)
(* transactions that write them (put_embedding_tx, retain_since).          *)
(*                                                                         *)
(* A run is identified by the number of times its id was stored: what is   *)
(* exported under an id again after retention is another execution.  A     *)
(* vector carries its dimension and the execution it was computed from.    *)
(***************************************************************************)
EXTENDS Integers

CONSTANTS
  Runs, Models,
  Dims,           \* vector dimensions
  Serial,         \* TRUE: one-connection SQLite; FALSE: READ COMMITTED
  MaxInserts,     \* bound on the executions stored under one id
  MaxGeneration   \* bound on the generation counters

ASSUME VectorsAssumption ==
  /\ Dims \subseteq Nat \ {0}
  /\ Serial \in BOOLEAN
  /\ MaxInserts \in Nat /\ MaxGeneration \in Nat

VARIABLES
  runs,        \* runs[r]: the execution stored under id r, 0 when there is none
  inserts,     \* inserts[r]: the executions stored under r so far
  vectors,     \* run_embeddings, by run and model
  generation,  \* vector_generations, by model
  sweep        \* a retention transaction between its SELECT and its writes

vectorVars == <<runs, inserts, vectors, generation, sweep>>

NoVector == [dim |-> 0, of |-> 0]
NoSweep == [run |-> {}, models |-> {}]

VectorTypeOK ==
  /\ runs \in [Runs -> Nat] /\ inserts \in [Runs -> Nat]
  /\ vectors \in [Runs -> [Models -> [dim: Nat, of: Nat]]]
  /\ generation \in [Models -> Nat]
  /\ sweep \in [run: SUBSET Runs, models: SUBSET Models]

VectorInit ==
  /\ runs = [r \in Runs |-> 0] /\ inserts = [r \in Runs |-> 0]
  /\ vectors = [r \in Runs |-> [m \in Models |-> NoVector]]
  /\ generation = [m \in Models |-> 0]
  /\ sweep = NoSweep

\* insert_tx of a run id that is not stored.
InsertRun(r) ==
  /\ runs[r] = 0 /\ inserts[r] < MaxInserts
  /\ inserts' = [inserts EXCEPT ![r] = @ + 1]
  /\ runs' = [runs EXCEPT ![r] = inserts'[r]]
  /\ UNCHANGED <<vectors, generation, sweep>>

\* bump_vector_generation, for each of the models.
Bumped(models) == [m \in Models |-> IF m \in models THEN generation[m] + 1 ELSE generation[m]]
CanBump(models) == \A m \in models : generation[m] < MaxGeneration

\* Fault: a vector is stored without a bump.
StoreVectorSilently(r, m, value) ==
  /\ CanBump({m})
  /\ vectors' = IF runs[r] # 0 THEN [vectors EXCEPT ![r][m] = value] ELSE vectors
  /\ UNCHANGED generation

\* put_embedding_tx: INSERT ... SELECT FROM runs, so nothing when r is gone.
StoreVector(r, m, value) ==
  /\ CanBump({m})
  /\ vectors' = IF runs[r] # 0 THEN [vectors EXCEPT ![r][m] = value] ELSE vectors
  /\ generation' = IF runs[r] # 0 THEN Bumped({m}) ELSE generation

\* SELECT model FROM run_embeddings WHERE run_id=..
ModelsOf(r) == {m \in Models : vectors[r][m] # NoVector}

\* The writes of retain_since for one run whose models were selected before.
DropRun(r, models) ==
  /\ CanBump(models)
  /\ generation' = Bumped(models)
  /\ vectors' = [vectors EXCEPT ![r] = [m \in Models |-> NoVector]]
  /\ runs' = [runs EXCEPT ![r] = 0]
  /\ UNCHANGED inserts

\* retain_since when nothing else can run between its statements.
RetainRun(r) ==
  /\ Serial /\ runs[r] # 0
  /\ DropRun(r, ModelsOf(r))
  /\ UNCHANGED sweep

\* retain_since under READ COMMITTED: the SELECT of the models takes no lock.
RetainSelect(r) ==
  /\ ~Serial /\ runs[r] # 0 /\ sweep = NoSweep
  /\ sweep' = [run |-> {r}, models |-> ModelsOf(r)]
  /\ UNCHANGED <<runs, inserts, vectors, generation>>

RetainCommit(r) ==
  /\ sweep.run = {r}
  /\ DropRun(r, sweep.models)
  /\ sweep' = NoSweep

-----------------------------------------------------------------------------
\* The contract of the counters: whoever changes the vectors of a model leaves
\* a generation that was never in force before.
Generations ==
  \A m \in Models :
    /\ generation'[m] >= generation[m]
    /\ (\E r \in Runs : vectors'[r][m] # vectors[r][m]) => generation'[m] > generation[m]
GenerationsAdvance == [][Generations]_<<vectors, generation>>
=============================================================================
