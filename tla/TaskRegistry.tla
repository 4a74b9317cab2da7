---------------------------- MODULE TaskRegistry ----------------------------
(***************************************************************************)
(* The task registry of one session (src/orchestrator/task_registry.py):   *)
(* the records of the scheduler-owned tasks, the idempotency index over    *)
(* them and the tombstones that terminal records leave behind.             *)
(*                                                                         *)
(* The registry is a passive object: every method runs to completion       *)
(* between two awaits of the event loop.  Its methods are therefore given  *)
(* as operators on the record function, and SessionTasks composes them     *)
(* into the handlers that call several of them in one step.                *)
(*                                                                         *)
(* What a caller fixes when it invents a task id (idempotency key, kind,   *)
(* parent, ...) is the constant Shape: the code derives all of it from the *)
(* same turn or command id the task id is built from.                      *)
(***************************************************************************)
EXTENDS Integers, FiniteSets

CONSTANTS
  Tasks,         \* task ids
  Keys,          \* idempotency keys
  Kinds,         \* the lanes a task can ask for
  Capabilities,  \* capability names
  Sessions,      \* session ids a request may carry
  NoTask,        \* "no task": parent_task_id is None, key not in the index
  Shape,         \* what a request with this task id always carries
  Session,       \* the session that owns the registry
  AllowedKinds,  \* SchedulerTaskConfig.allowed_kinds
  MaxChildren,   \* SchedulerTaskConfig.max_children_per_task
  MaxRetries,    \* SchedulerTaskConfig.max_retries
  TombstoneTtl   \* SchedulerTaskConfig.tombstone_ttl_ms

TaskShape ==
  [key : Keys, session : Sessions, parent : Tasks \cup {NoTask}, kind : Kinds,
   retry : Nat, speech : BOOLEAN]

ASSUME RegistryAssumption ==
  /\ NoTask \notin Tasks
  /\ Shape \in [Tasks -> TaskShape]
  /\ Session \in Sessions
  /\ AllowedKinds \subseteq Kinds
  /\ MaxChildren \in Nat
  /\ MaxRetries \in Nat
  /\ TombstoneTtl \in Nat \ {0}

VARIABLES
  records,      \* TaskRegistry._records; state "absent" for an id not in it
  idempotency,  \* TaskRegistry._idempotency
  now           \* the monotonic clock

registryVars == <<records, idempotency>>

-----------------------------------------------------------------------------
(* Task states.  CREATED is never stored, and CANCELLING only exists       *)
(* inside cancel(), which stores CANCELLED before it returns.              *)

Terminal == {"succeeded", "cancelled", "superseded", "timed_out", "failed"}
Live     == {"admitted", "queued", "running"}

\* TaskStateSnapshot: memory_revision and context_generation are the material
\* a VALIDATED_SPEECH task no longer reads, the other four revisions are trust.
DataSnapshot == [material : Nat, trust : Nat]
InitialData  == [material |-> 0, trust |-> 0]

NotTerminal == -1

Record ==
  [state : Live \cup Terminal \cup {"absent"}, turn : Nat, revision : Nat,
   epoch : Nat, deadline : Nat, data : DataSnapshot,
   caps : SUBSET Capabilities, terminalAt : Nat \cup {NotTerminal}]

Absent ==
  [state |-> "absent", turn |-> 0, revision |-> 0, epoch |-> 0, deadline |-> 0,
   data |-> InitialData, caps |-> {}, terminalAt |-> NotTerminal]

Present(recs) == {t \in Tasks : recs[t].state # "absent"}

\* _store: the first terminal state stamps terminal_at, later ones keep it.
Stored(rec, state) ==
  [rec EXCEPT !.state = state,
              !.terminalAt = IF state \in Terminal /\ @ = NotTerminal
                             THEN now ELSE @]

-----------------------------------------------------------------------------
(* Removing records.  Whatever leaves _records leaves the index as well.   *)

Forget(recs, gone) == [t \in Tasks |-> IF t \in gone THEN Absent ELSE recs[t]]

ForgetKeys(index, gone) ==
  [k \in Keys |-> IF \E t \in gone : Shape[t].key = k THEN NoTask ELSE index[k]]

\* clear_terminal_tombstones
Tombstones(recs) == {t \in Tasks : recs[t].state \in Terminal}

\* Broken: the window is one tick short.
ExpiredTombstonesEarly(recs) ==
  {t \in Present(recs) : /\ recs[t].terminalAt # NotTerminal
                         /\ now - recs[t].terminalAt + 1 >= TombstoneTtl}

\* expire_terminal_tombstones
ExpiredTombstones(recs) ==
  {t \in Present(recs) : /\ recs[t].terminalAt # NotTerminal
                         /\ now - recs[t].terminalAt >= TombstoneTtl}

-----------------------------------------------------------------------------
(* register *)

Children(recs, t) == {u \in Present(recs) : Shape[u].parent = Shape[t].parent}

ParentAdmits(recs, t, turn) ==
  Shape[t].parent # NoTask =>
    /\ Shape[t].parent \in Present(recs)
    /\ recs[Shape[t].parent].turn = turn
    /\ Cardinality(Children(recs, t)) < MaxChildren

Registrable(recs, index, t, turn) ==
  /\ index[Shape[t].key] = NoTask
  /\ Shape[t].session = Session
  /\ t \notin Present(recs)
  /\ Shape[t].kind \in AllowedKinds
  /\ Shape[t].retry <= MaxRetries
  /\ ParentAdmits(recs, t, turn)

Register(recs, t, request) == [recs EXCEPT ![t] = request]

Index(index, t) == [index EXCEPT ![Shape[t].key] = t]

-----------------------------------------------------------------------------
(* State transitions.  A method called in a state it does not accept       *)
(* returns None and leaves the record alone.                               *)

Move(recs, t, from, to) ==
  IF recs[t].state \in from
  THEN [recs EXCEPT ![t] = Stored(recs[t], to)]
  ELSE recs

\* Broken: a provider's late error overwrites how the task was closed.
FailWhateverState(recs, t) == Move(recs, t, Live \cup Terminal, "failed")

Cancel(recs, t)  == Move(recs, t, Live, "cancelled")
Enqueue(recs, t) == Move(recs, t, {"admitted"}, "queued")
Claim(recs, t)   == Move(recs, t, {"queued"}, "running")
Timeout(recs, t) == Move(recs, t, Live, "timed_out")
Fail(recs, t)    == Move(recs, t, {"running"}, "failed")

\* complete() itself tests nothing: its one caller, the reducer, does.
Complete(recs, t) == [recs EXCEPT ![t] = Stored(recs[t], "succeeded")]

\* Broken: a task that already runs is left to finish.
CancelNotRunning(recs) ==
  [t \in Tasks |-> IF recs[t].state \in {"admitted", "queued"}
                   THEN Stored(recs[t], "cancelled") ELSE recs[t]]

CancelPending(recs) ==
  [t \in Tasks |-> IF recs[t].state \in Live
                   THEN Stored(recs[t], "cancelled") ELSE recs[t]]

Supersede(recs, t, replacement) ==
  IF /\ replacement \in Present(recs)
     /\ recs[t].turn # recs[replacement].turn
  THEN Move(recs, t, {"queued", "running"}, "superseded")
  ELSE recs

-----------------------------------------------------------------------------
RegistryTypeOK ==
  /\ records \in [Tasks -> Record]
  /\ idempotency \in [Keys -> Tasks \cup {NoTask}]
  /\ now \in Nat

RegistryInit ==
  /\ records = [t \in Tasks |-> Absent]
  /\ idempotency = [k \in Keys |-> NoTask]
  /\ now = 0

(* The index and the records describe each other: a key leads to a record  *)
(* that is there and that carries the key, and every record is found       *)
(* through its key.  Every `del` and every lookup of task_registry.py that *)
(* indexes one map with an entry of the other relies on it.                *)
IndexMatchesRecords ==
  \A t \in Tasks, k \in Keys :
    idempotency[k] = t <=> t \in Present(records) /\ Shape[t].key = k

(* A record is stamped exactly when it is terminal, so every tombstone,    *)
(* and nothing else, is bounded by the retention window.                   *)
TombstonesAreStamped ==
  \A t \in Tasks :
    records[t].terminalAt # NotTerminal <=> records[t].state \in Terminal
=============================================================================
