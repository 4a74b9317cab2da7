---------------------------- MODULE SessionTasks ----------------------------
(***************************************************************************)
(* The task lifecycle of one session: the registry of TaskRegistry behind  *)
(* the lane executor (task_executor.py), the result reducer                *)
(* (task_reducer.py), the admission guard (task_admission.py), the turn    *)
(* scheduler (sessions.py) and the handlers of SessionRuntime that drive   *)
(* them (scheduler_runtime.py).                                            *)
(*                                                                         *)
(* Every handler below runs without an await, so it is one action.  What   *)
(* interleaves is what happens between them: a provider works on a claimed *)
(* task while turns start, material changes, deadlines and tombstones      *)
(* expire, the session ends, and its answer arrives at any later moment.   *)
(***************************************************************************)
EXTENDS TaskRegistry, SequencesExt

CONSTANTS
  MaxPending,      \* TaskLaneExecutor.max_pending_per_lane
  Priority,        \* _LANE_PRIORITY: Kinds, most urgent first
  TaskTimeout,     \* how far ahead a request sets its deadline
  AnswerDelay,     \* a provider's answer is delivered within this delay
  MaxTurn,         \* bound on the turns started
  MaxNow,          \* bound on the clock
  MaxData,         \* bound on each data revision
  MaxIncarnations  \* bound on how often one task id is registered

ASSUME SessionAssumption ==
  /\ MaxPending \in Nat
  /\ Priority \in [1..Cardinality(Kinds) -> Kinds]
  /\ \A k \in Kinds : \E i \in DOMAIN Priority : Priority[i] = k
  /\ TaskTimeout \in Nat
  /\ AnswerDelay \in Nat
  /\ AnswerDelay < TombstoneTtl
  /\ {MaxTurn, MaxNow, MaxData, MaxIncarnations} \subseteq Nat

VARIABLES
  lanes,         \* TaskLaneExecutor._pending
  revision,      \* SessionSnapshot.revision
  activeTurn,    \* SessionSnapshot.active_turn_id as its sequence, 0 for None
  epoch,         \* SessionRuntime.cancellation_epoch
  data,          \* the data revisions _task_data_snapshot reads
  capabilities,  \* SessionRuntime.agent_capabilities
  ended,         \* SessionRuntime._ended
  answers,       \* provider results still to be delivered
  incarnation    \* history: how often an id was registered

sessionVars == <<revision, activeTurn, epoch>>
workVars == <<answers, incarnation>>
vars == <<records, idempotency, now, lanes, revision, activeTurn, epoch, data,
          capabilities, ended, answers, incarnation>>

LaneEntry == [task : Tasks, deadline : Nat]

Answer == [task : Tasks, turn : Nat, revision : Nat, epoch : Nat,
           incarnation : Nat, since : Nat]

-----------------------------------------------------------------------------
(* schedule_task: admission, registration and the lane, in one step.       *)
(* The caller captured the turn, the revision and the data snapshot before *)
(* an await, so they may be older than the session's.                      *)

Kept      == Forget(records, ExpiredTombstones(records))
KeptIndex == ForgetKeys(idempotency, ExpiredTombstones(records))

CapturedData == [material : 0..data.material, trust : 0..data.trust]

\* with_current_data_snapshot: the initial snapshot means "the current one".
RequestData(captured) == IF captured = InitialData THEN data ELSE captured

Request(turn, rev, captured) ==
  [state |-> "admitted", turn |-> turn, revision |-> rev, epoch |-> epoch,
   deadline |-> now + TaskTimeout, data |-> RequestData(captured),
   caps |-> capabilities, terminalAt |-> NotTerminal]

\* scheduling_rejection, the data check of _admit_task, register, and room in
\* the lane: without it the record registered a moment ago is withdrawn.
Schedulable(t, turn, rev, captured) ==
  /\ turn = activeTurn
  /\ rev = revision
  /\ RequestData(captured) = data
  /\ Registrable(Kept, KeptIndex, t, turn)
  /\ Len(lanes[Shape[t].kind]) < MaxPending

ScheduleTask(t, turn, rev, captured) ==
  /\ incarnation[t] < MaxIncarnations
  /\ Schedulable(t, turn, rev, captured)
  /\ records' = Enqueue(Register(Kept, t, Request(turn, rev, captured)), t)
  /\ idempotency' = Index(KeptIndex, t)
  /\ lanes' = [lanes EXCEPT ![Shape[t].kind] =
                 Append(@, [task |-> t, deadline |-> now + TaskTimeout])]
  /\ incarnation' = [incarnation EXCEPT ![t] = @ + 1]
  /\ UNCHANGED <<now, data, capabilities, ended, answers>>
  /\ UNCHANGED sessionVars

\* task_rejected and task_queue_full: only the expiry in _admit_task remains.
RefuseTask ==
  /\ ~ \A t \in Tasks, turn \in 1..activeTurn, rev \in 1..revision, captured \in CapturedData :
         Schedulable(t, turn, rev, captured)
  /\ records' = Kept
  /\ idempotency' = KeptIndex
  /\ UNCHANGED <<now, lanes, data, capabilities, ended>>
  /\ UNCHANGED sessionVars
  /\ UNCHANGED workVars

-----------------------------------------------------------------------------
(* The executor.                                                           *)

\* What the provider that works on t will report, whenever it does.
Work(t) ==
  [task |-> t, turn |-> records[t].turn, revision |-> records[t].revision,
   epoch |-> records[t].epoch, incarnation |-> incarnation[t], since |-> now]

\* TaskLaneExecutor.claim: the entry leaves the lane even when the task is no
\* longer queued and nothing is claimed.
ClaimTask(t) ==
  LET k == Shape[t].kind IN
  \E i \in DOMAIN lanes[k] :
    /\ lanes[k][i].task = t
    /\ \A j \in 1..(i - 1) : lanes[k][j].task # t
    /\ lanes' = [lanes EXCEPT ![k] = RemoveAt(@, i)]
    /\ records' = Claim(records, t)
    /\ answers' = IF records[t].state = "queued"
                  THEN answers \cup {Work(t)} ELSE answers
    /\ UNCHANGED <<idempotency, now, data, capabilities, ended, incarnation>>
    /\ UNCHANGED sessionVars

\* TaskLaneExecutor.next pops entries whose task is no longer queued, times out
\* those past the deadline they were queued with, and stops at the first that
\* can run; a timed-out task hides the entries behind it that name it again.
Runnable(k, i) ==
  /\ records[lanes[k][i].task].state = "queued"
  /\ now <= lanes[k][i].deadline
  /\ \A j \in 1..(i - 1) : lanes[k][j].task # lanes[k][i].task

Idle(k) == \A i \in DOMAIN lanes[k] : ~ Runnable(k, i)

\* The tasks named by the first cut[k] entries of every lane k.
Popped(cut) == UNION {{lanes[k][i].task : i \in 1..cut[k]} : k \in Kinds}

\* Broken: the entry of an expired task is dropped, the task stays queued.
TimeoutNothing(recs, dropped) == recs

TimeoutQueued(recs, dropped) ==
  [t \in Tasks |-> IF t \in dropped /\ recs[t].state = "queued"
                   THEN Stored(recs[t], "timed_out") ELSE recs[t]]

PopLanes(cut) == lanes' = [k \in Kinds |-> SubSeq(lanes[k], cut[k] + 1, Len(lanes[k]))]

\* Taking entry i of lane Priority[p] empties the more urgent lanes.
CutAt(p, i) ==
  [k \in Kinds |->
    IF k = Priority[p] THEN i
    ELSE IF \E q \in 1..(p - 1) : Priority[q] = k THEN Len(lanes[k]) ELSE 0]

TakeEntry(p, i) ==
  LET t == lanes[Priority[p]][i].task IN
  /\ Runnable(Priority[p], i)
  /\ \A j \in 1..(i - 1) : ~ Runnable(Priority[p], j)
  /\ \A q \in 1..(p - 1) : Idle(Priority[q])
  /\ PopLanes(CutAt(p, i))
  /\ records' = Claim(TimeoutQueued(records, Popped(CutAt(p, i)) \ {t}), t)
  /\ answers' = answers \cup {Work(t)}
  /\ UNCHANGED <<idempotency, now, data, capabilities, ended, incarnation>>
  /\ UNCHANGED sessionVars

NextTask ==
  \E p \in DOMAIN Priority : \E i \in DOMAIN lanes[Priority[p]] : TakeEntry(p, i)

NextFindsNothing ==
  LET cut == [k \in Kinds |-> Len(lanes[k])] IN
  /\ \A k \in Kinds : Idle(k)
  /\ PopLanes(cut)
  /\ records' = TimeoutQueued(records, Popped(cut))
  /\ UNCHANGED <<idempotency, now, data, capabilities, ended>>
  /\ UNCHANGED sessionVars
  /\ UNCHANGED workVars

-----------------------------------------------------------------------------
(* reduce_task.  An answer may be delivered more than once until it is too *)
(* old; an answer refused by a check that changes nothing takes no step.   *)

DataIsCurrent(t) ==
  /\ records[t].data.trust = data.trust
  /\ Shape[t].speech \/ records[t].data.material = data.material

CapabilityRevoked(t) == ~ (records[t].caps \subseteq capabilities)

\* Broken: a result is reduced although its task was closed meanwhile.
ReducibleWhateverState(t) ==
  /\ records[t].state # "absent"
  /\ records[t].revision = revision
  /\ records[t].turn = activeTurn
  /\ DataIsCurrent(t)

\* Broken: a result of an earlier turn is reduced.
ReducibleInAnyTurn(t) ==
  /\ records[t].state = "running"
  /\ DataIsCurrent(t)

\* _lifecycle_rejection and _snapshot_rejection
Reducible(t) ==
  /\ records[t].state = "running"
  /\ records[t].revision = revision
  /\ records[t].turn = activeTurn
  /\ DataIsCurrent(t)

\* _result_rejection; a segment belongs to one turn and tells nothing more.
AnswersRecord(a) ==
  /\ a.turn = records[a.task].turn
  /\ a.revision = records[a.task].revision
  /\ a.epoch = records[a.task].epoch

CommitAnswer(a) ==
  /\ ~ CapabilityRevoked(a.task)
  /\ Reducible(a.task)
  /\ now <= records[a.task].deadline
  /\ AnswersRecord(a)
  /\ records' = Complete(records, a.task)
  /\ UNCHANGED <<idempotency, now, lanes, data, capabilities, ended, answers, incarnation>>
  /\ UNCHANGED sessionVars

RefuseLateAnswer(a) ==
  /\ ~ CapabilityRevoked(a.task)
  /\ Reducible(a.task)
  /\ now > records[a.task].deadline
  /\ records' = Timeout(records, a.task)
  /\ UNCHANGED <<idempotency, now, lanes, data, capabilities, ended>>
  /\ UNCHANGED sessionVars
  /\ UNCHANGED workVars

RefuseRevokedAnswer(a) ==
  /\ a.task \in Present(records)
  /\ CapabilityRevoked(a.task)
  /\ records' = Cancel(records, a.task)
  /\ UNCHANGED <<idempotency, now, lanes, data, capabilities, ended>>
  /\ UNCHANGED sessionVars
  /\ UNCHANGED workVars

-----------------------------------------------------------------------------
(* How the owner of a task closes it without a result.                     *)

CloseTask(t, recs) ==
  /\ records' = recs
  /\ UNCHANGED <<idempotency, now, lanes, data, capabilities, ended>>
  /\ UNCHANGED sessionVars
  /\ UNCHANGED workVars

\* the provider raised, or its effect was refused
FailTask(t) == CloseTask(t, Fail(records, t))

\* _await_response_provider: the time left until the deadline has run out
TimeoutTask(t) ==
  /\ records[t].state = "running"
  /\ now >= records[t].deadline
  /\ CloseTask(t, Timeout(records, t))

CancelTask(t) == records[t].state \in Live /\ CloseTask(t, Cancel(records, t))

SupersedeTask(t, u) ==
  /\ Supersede(records, t, u) # records
  /\ CloseTask(t, Supersede(records, t, u))

-----------------------------------------------------------------------------
(* What moves the session under its tasks.                                 *)

\* SessionScheduler.apply(StartTurn): every caller passes the current revision.
StartTurn ==
  /\ activeTurn < MaxTurn
  /\ activeTurn' = activeTurn + 1
  /\ revision' = revision + 1

\* _admit_comment, _admit_asr_final: the turn and _advance_turn_epoch
AdmitTurn ==
  /\ ~ ended
  /\ StartTurn
  /\ epoch' = epoch + 1
  /\ records' = CancelPending(records)
  /\ UNCHANGED <<idempotency, now, lanes, data, capabilities, ended>>
  /\ UNCHANGED workVars

\* SchedulerOutputFence._start_turn: a turn without an epoch of its own
ReflexTurn ==
  /\ StartTurn
  /\ UNCHANGED <<registryVars, epoch, now, lanes, data, capabilities, ended>>
  /\ UNCHANGED workVars

\* memory and context commits, context reset, memory deletion
ChangeMaterial ==
  /\ data.material < MaxData
  /\ data' = [data EXCEPT !.material = @ + 1]
  /\ UNCHANGED <<registryVars, now, lanes, capabilities, ended>>
  /\ UNCHANGED sessionVars
  /\ UNCHANGED workVars

\* revoke_profile_consent, expire_profiles, delete_profile
RevokeIdentity ==
  /\ data.trust < MaxData
  /\ data' = [data EXCEPT !.trust = @ + 1]
  /\ records' = CancelPending(records)
  /\ UNCHANGED <<idempotency, now, lanes, capabilities, ended>>
  /\ UNCHANGED sessionVars
  /\ UNCHANGED workVars

\* enroll_profile, correct_profile, a new corpus or index: nothing is cancelled
ChangeTrust ==
  /\ data.trust < MaxData
  /\ data' = [data EXCEPT !.trust = @ + 1]
  /\ UNCHANGED <<registryVars, now, lanes, capabilities, ended>>
  /\ UNCHANGED sessionVars
  /\ UNCHANGED workVars

\* agent_capabilities is a public field its owner assigns
AssignCapabilities ==
  /\ capabilities' \in SUBSET Capabilities
  /\ UNCHANGED <<registryVars, now, lanes, data, ended>>
  /\ UNCHANGED sessionVars
  /\ UNCHANGED workVars

\* end_session: everything is cancelled, and then every tombstone goes.
EndSession ==
  LET gone == Tombstones(CancelPending(records)) IN
  /\ ~ ended
  /\ ended' = TRUE
  /\ records' = Forget(CancelPending(records), gone)
  /\ idempotency' = ForgetKeys(idempotency, gone)
  /\ data' = [data EXCEPT !.material = @ + 1]
  /\ UNCHANGED <<now, lanes, capabilities>>
  /\ UNCHANGED sessionVars
  /\ UNCHANGED workVars

Tick ==
  /\ now < MaxNow
  /\ now' = now + 1
  /\ answers' = {a \in answers : now + 1 - a.since <= AnswerDelay}
  /\ UNCHANGED <<registryVars, lanes, data, capabilities, ended, incarnation>>
  /\ UNCHANGED sessionVars

-----------------------------------------------------------------------------
Init ==
  /\ RegistryInit
  /\ lanes = [k \in Kinds |-> << >>]
  /\ revision = 0 /\ activeTurn = 0 /\ epoch = 0
  /\ data = InitialData
  /\ capabilities = Capabilities
  /\ ended = FALSE
  /\ answers = {}
  /\ incarnation = [t \in Tasks |-> 0]

Submit ==
  \/ \E t \in Tasks, turn \in 1..activeTurn, rev \in 1..revision, captured \in CapturedData :
       ScheduleTask(t, turn, rev, captured)
  \/ RefuseTask

Execute == NextTask \/ NextFindsNothing \/ \E t \in Tasks : ClaimTask(t)

Reduce ==
  \E a \in answers :
    CommitAnswer(a) \/ RefuseLateAnswer(a) \/ RefuseRevokedAnswer(a)

Close ==
  \E t \in Tasks :
    \/ FailTask(t)
    \/ TimeoutTask(t)
    \/ CancelTask(t)
    \/ \E u \in Tasks : SupersedeTask(t, u)

Environment ==
  \/ AdmitTurn
  \/ ReflexTurn
  \/ ChangeMaterial
  \/ ChangeTrust
  \/ RevokeIdentity
  \/ AssignCapabilities
  \/ EndSession
  \/ Tick

Next == Submit \/ Execute \/ Reduce \/ Close \/ Environment

Spec == Init /\ [][Next]_vars
-----------------------------------------------------------------------------
TypeOK ==
  /\ RegistryTypeOK
  /\ lanes \in [Kinds -> Seq(LaneEntry)]
  /\ revision \in Nat /\ activeTurn \in Nat /\ epoch \in Nat
  /\ data \in DataSnapshot
  /\ capabilities \subseteq Capabilities
  /\ ended \in BOOLEAN
  /\ answers \subseteq Answer
  /\ incarnation \in [Tasks -> Nat]

(* Work that is still open belongs to the present cancellation epoch: a    *)
(* new turn fences and cancels all of it in the step that opens the epoch. *)
(* The reducer never compares a record's epoch with the session's, so this *)
(* is what keeps an answer of an older epoch out.                          *)
LiveWorkIsOfThisEpoch ==
  \A t \in Tasks : records[t].state \in Live => records[t].epoch = epoch

(* A queued task can still be found by the executor: cancellation, expiry, *)
(* withdrawal and claims of other tasks never lose its lane entry.         *)
QueuedTaskHasEntry ==
  \A t \in Tasks : records[t].state = "queued" =>
    \E i \in DOMAIN lanes[Shape[t].kind] : lanes[Shape[t].kind][i].task = t

(* While the session lasts, an answer the reducer would accept was computed *)
(* for the very registration it would complete.  A task id may be           *)
(* registered again once its tombstone has expired, and every identity      *)
(* field of an old answer can then match the new record: only the retention *)
(* window, longer than any provider may take, keeps the two apart.          *)
AnswersAreNotRevived ==
  \A a \in answers :
    records[a.task].state = "running" /\ AnswersRecord(a) =>
      ended \/ a.incarnation = incarnation[a.task]

(* A result takes effect only in a step that finds its task running, in    *)
(* time, and fenced by the turn, revision, epoch, data and capabilities    *)
(* the session has at that very moment.                                    *)
CommitIsFenced ==
  [][\A t \in Tasks :
       records[t].state # "succeeded" /\ records'[t].state = "succeeded" =>
         /\ records[t].state = "running"
         /\ now <= records[t].deadline
         /\ records[t].turn = activeTurn
         /\ records[t].revision = revision
         /\ records[t].epoch = epoch
         /\ records[t].caps \subseteq capabilities
         /\ DataIsCurrent(t)]_vars

(* A tombstone never comes back to life: a terminal record keeps its state *)
(* and its time stamp until it is removed, and so its commit is its only   *)
(* one, whatever its provider still delivers.                              *)
TerminalIsFinal ==
  [][\A t \in Tasks :
       records[t].state \in Terminal =>
         \/ records'[t].state = records[t].state
            /\ records'[t].terminalAt = records[t].terminalAt
         \/ incarnation'[t] > incarnation[t]
         \/ records'[t] = Absent]_vars

(* Outside the end of the session a tombstone is kept for the whole window *)
(* in which a late result must still meet it.                              *)
TombstoneOutlastsWindow ==
  [][\A t \in Tasks :
       (/\ records[t].state \in Terminal
        /\ records'[t].state \notin Terminal
        /\ ended' = ended)
         => now - records[t].terminalAt >= TombstoneTtl]_vars

-----------------------------------------------------------------------------
(* The session implements the ledger: its fence is the cancellation epoch. *)
Phase(state) ==
  CASE state = "absent"    -> "none"
    [] state \in Live      -> "open"
    [] state = "succeeded" -> "done"
    [] OTHER               -> "closed"

Ledger == INSTANCE TaskLedger WITH
  phase <- [t \in Tasks |-> Phase(records[t].state)],
  stamp <- [t \in Tasks |-> IF records[t].state = "absent" THEN 0 ELSE records[t].epoch],
  fence <- epoch

(* Every step of the session is a step of the ledger: no interleaving of   *)
(* claims, answers, turns, revocations and expiry lets a task take effect  *)
(* twice, after it was closed, or under an older epoch.                    *)
ImplementsLedger == Ledger!LedgerSpec
=============================================================================
