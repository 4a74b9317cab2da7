------------------------- MODULE SessionTasksProofs -------------------------
(***************************************************************************)
(* Theorems about SessionTasks for any set of tasks, keys, lanes and any   *)
(* bounds.  Only the lanes need sequence reasoning; everything else follows *)
(* the records through the few operators of TaskRegistry that rewrite them. *)
(***************************************************************************)
EXTENDS SessionTasks, TLAPS

-----------------------------------------------------------------------------
(* The record operators keep the type and say what they do to one record.  *)

LEMMA AbsentType == Absent \in Record
BY DEF Absent, Record, InitialData, DataSnapshot, NotTerminal

LEMMA StoredType ==
  ASSUME TypeOK, NEW rec \in Record, NEW state \in Live \cup Terminal
  PROVE  /\ Stored(rec, state) \in Record
         /\ Stored(rec, state).state = state
         /\ Stored(rec, state).epoch = rec.epoch
BY DEF Stored, Record, Live, Terminal, TypeOK, RegistryTypeOK, NotTerminal

LEMMA MoveType ==
  ASSUME TypeOK, NEW recs \in [Tasks -> Record], NEW t \in Tasks,
         NEW from, NEW to \in Live \cup Terminal
  PROVE  Move(recs, t, from, to) \in [Tasks -> Record]
BY StoredType DEF Move

LEMMA ForgetType ==
  ASSUME NEW recs \in [Tasks -> Record], NEW gone
  PROVE  Forget(recs, gone) \in [Tasks -> Record]
BY AbsentType DEF Forget

LEMMA ForgetKeysType ==
  ASSUME NEW index \in [Keys -> Tasks \cup {NoTask}], NEW gone
  PROVE  ForgetKeys(index, gone) \in [Keys -> Tasks \cup {NoTask}]
BY DEF ForgetKeys

LEMMA CancelPendingType ==
  ASSUME TypeOK, NEW recs \in [Tasks -> Record]
  PROVE  CancelPending(recs) \in [Tasks -> Record]
BY StoredType DEF CancelPending, Terminal

LEMMA TimeoutQueuedType ==
  ASSUME TypeOK, NEW recs \in [Tasks -> Record], NEW dropped
  PROVE  TimeoutQueued(recs, dropped) \in [Tasks -> Record]
BY StoredType DEF TimeoutQueued, Terminal

LEMMA RequestType ==
  ASSUME TypeOK, NEW turn \in Nat, NEW rev \in Nat, NEW captured \in DataSnapshot
  PROVE  Request(turn, rev, captured) \in Record
<1>1. RequestData(captured) \in DataSnapshot
  BY DEF RequestData, TypeOK
<1>2. now + TaskTimeout \in Nat /\ epoch \in Nat /\ capabilities \in SUBSET Capabilities
  BY SessionAssumption DEF TypeOK, RegistryTypeOK
<1> QED
  BY <1>1, <1>2 DEF Request, Record, Live, NotTerminal

LEMMA RemoveAtType ==
  ASSUME NEW S, NEW s \in Seq(S), NEW i \in DOMAIN s
  PROVE  RemoveAt(s, i) \in Seq(S)
BY DEF RemoveAt

LEMMA InitType == Init => TypeOK
<1> SUFFICES ASSUME Init PROVE TypeOK
  OBVIOUS
<1>1. RegistryTypeOK
  BY AbsentType DEF Init, RegistryInit, RegistryTypeOK
<1>2. lanes \in [Kinds -> Seq(LaneEntry)]
  BY DEF Init
<1>3. data \in DataSnapshot
  BY DEF Init, InitialData, DataSnapshot
<1> QED
  BY <1>1, <1>2, <1>3 DEF Init, TypeOK

-----------------------------------------------------------------------------
(* Type correctness, one lemma per group of handlers.                      *)

LEMMA ScheduleType ==
  ASSUME TypeOK, NEW t \in Tasks, NEW turn \in Nat, NEW rev \in Nat,
         NEW captured \in DataSnapshot, ScheduleTask(t, turn, rev, captured)
  PROVE  TypeOK'
<1> DEFINE admitted == Register(Kept, t, Request(turn, rev, captured))
<1>1. Shape[t].kind \in Kinds /\ Shape[t].key \in Keys
  BY RegistryAssumption DEF TaskShape
<1>2. Kept \in [Tasks -> Record] /\ KeptIndex \in [Keys -> Tasks \cup {NoTask}]
  BY ForgetType, ForgetKeysType DEF Kept, KeptIndex, TypeOK, RegistryTypeOK
<1>3. admitted \in [Tasks -> Record]
  BY <1>2, RequestType DEF Register
<1>4. records' \in [Tasks -> Record]
  BY <1>3, MoveType DEF ScheduleTask, Enqueue, Live
<1>5. idempotency' \in [Keys -> Tasks \cup {NoTask}]
  BY <1>1, <1>2 DEF ScheduleTask, Index
<1>6. [task |-> t, deadline |-> now + TaskTimeout] \in LaneEntry
  BY SessionAssumption DEF LaneEntry, TypeOK, RegistryTypeOK
<1>7. lanes' \in [Kinds -> Seq(LaneEntry)]
  BY <1>1, <1>6 DEF ScheduleTask, TypeOK
<1>8. incarnation' \in [Tasks -> Nat]
  BY DEF ScheduleTask, TypeOK
<1> QED
  BY <1>4, <1>5, <1>7, <1>8 DEF ScheduleTask, TypeOK, RegistryTypeOK, sessionVars

LEMMA RefuseType ==
  ASSUME TypeOK, RefuseTask
  PROVE  TypeOK'
<1>1. records' \in [Tasks -> Record] /\ idempotency' \in [Keys -> Tasks \cup {NoTask}]
  BY ForgetType, ForgetKeysType DEF RefuseTask, Kept, KeptIndex, TypeOK, RegistryTypeOK
<1> QED
  BY <1>1 DEF RefuseTask, TypeOK, RegistryTypeOK, sessionVars, workVars

LEMMA WorkType ==
  ASSUME TypeOK, NEW t \in Tasks
  PROVE  Work(t) \in Answer
BY DEF Work, Answer, TypeOK, RegistryTypeOK, Record

LEMMA ClaimType ==
  ASSUME TypeOK, NEW t \in Tasks, ClaimTask(t)
  PROVE  TypeOK'
<1> DEFINE k == Shape[t].kind
<1>1. k \in Kinds
  BY RegistryAssumption DEF TaskShape
<1>2. lanes' \in [Kinds -> Seq(LaneEntry)]
  BY <1>1, RemoveAtType DEF ClaimTask, TypeOK
<1>3. records' \in [Tasks -> Record]
  BY MoveType DEF ClaimTask, Claim, Live, TypeOK, RegistryTypeOK
<1>4. answers' \subseteq Answer
  BY WorkType DEF ClaimTask, TypeOK
<1> QED
  BY <1>2, <1>3, <1>4 DEF ClaimTask, TypeOK, RegistryTypeOK, sessionVars

LEMMA PopLanesType ==
  ASSUME TypeOK, NEW cut \in [Kinds -> Nat], PopLanes(cut)
  PROVE  lanes' \in [Kinds -> Seq(LaneEntry)]
BY DEF PopLanes, TypeOK

LEMMA TakeEntryType ==
  ASSUME TypeOK, NEW p \in DOMAIN Priority, NEW i \in DOMAIN lanes[Priority[p]],
         TakeEntry(p, i)
  PROVE  TypeOK'
<1> DEFINE t == lanes[Priority[p]][i].task
<1>1. Priority[p] \in Kinds
  BY SessionAssumption
<1>2. lanes[Priority[p]] \in Seq(LaneEntry)
  BY <1>1 DEF TypeOK
<1>3. i \in Nat /\ lanes[Priority[p]][i] \in LaneEntry
  BY <1>2
<1>4. t \in Tasks
  BY <1>3 DEF LaneEntry
<1>5. CutAt(p, i) \in [Kinds -> Nat]
  BY <1>3 DEF CutAt, TypeOK
<1>6. lanes' \in [Kinds -> Seq(LaneEntry)]
  BY <1>5, PopLanesType DEF TakeEntry
<1>7. records' \in [Tasks -> Record]
  <2>1. TimeoutQueued(records, Popped(CutAt(p, i)) \ {t}) \in [Tasks -> Record]
    BY TimeoutQueuedType DEF TypeOK, RegistryTypeOK
  <2> QED
    BY <1>4, <2>1, MoveType DEF TakeEntry, Claim, Live
<1>8. answers' \subseteq Answer
  BY <1>4, WorkType DEF TakeEntry, TypeOK
<1> QED
  BY <1>6, <1>7, <1>8 DEF TakeEntry, TypeOK, RegistryTypeOK, sessionVars

LEMMA FindsNothingType ==
  ASSUME TypeOK, NextFindsNothing
  PROVE  TypeOK'
<1> DEFINE cut == [k \in Kinds |-> Len(lanes[k])]
<1>1. cut \in [Kinds -> Nat]
  BY DEF TypeOK
<1>2. lanes' \in [Kinds -> Seq(LaneEntry)]
  BY <1>1, PopLanesType DEF NextFindsNothing
<1>3. records' \in [Tasks -> Record]
  BY TimeoutQueuedType DEF NextFindsNothing, TypeOK, RegistryTypeOK
<1> QED
  BY <1>2, <1>3 DEF NextFindsNothing, TypeOK, RegistryTypeOK, sessionVars, workVars

LEMMA ReduceType ==
  ASSUME TypeOK, Reduce
  PROVE  TypeOK'
<1>1. PICK a \in answers : CommitAnswer(a) \/ RefuseLateAnswer(a) \/ RefuseRevokedAnswer(a)
  BY DEF Reduce
<1>2. a.task \in Tasks
  BY DEF TypeOK, Answer
<1>3. records' \in [Tasks -> Record]
  <2>1. CASE CommitAnswer(a)
    BY <1>2, <2>1, StoredType DEF CommitAnswer, Complete, TypeOK, RegistryTypeOK, Terminal
  <2>2. CASE RefuseLateAnswer(a)
    BY <1>2, <2>2, MoveType DEF RefuseLateAnswer, Timeout, TypeOK, RegistryTypeOK, Terminal
  <2>3. CASE RefuseRevokedAnswer(a)
    BY <1>2, <2>3, MoveType DEF RefuseRevokedAnswer, Cancel, TypeOK, RegistryTypeOK, Terminal
  <2> QED
    BY <1>1, <2>1, <2>2, <2>3
<1>4. UNCHANGED <<idempotency, now, lanes, data, capabilities, ended, answers,
                  incarnation, revision, activeTurn, epoch>>
  BY <1>1 DEF CommitAnswer, RefuseLateAnswer, RefuseRevokedAnswer, sessionVars, workVars
<1> QED
  BY <1>3, <1>4 DEF TypeOK, RegistryTypeOK

LEMMA CloseType ==
  ASSUME TypeOK, Close
  PROVE  TypeOK'
<1>1. PICK t \in Tasks : \/ FailTask(t) \/ TimeoutTask(t) \/ CancelTask(t)
                         \/ \E u \in Tasks : SupersedeTask(t, u)
  BY DEF Close
<1>2. records \in [Tasks -> Record]
  BY DEF TypeOK, RegistryTypeOK
<1>3. \E recs \in [Tasks -> Record] : CloseTask(t, recs)
  <2>1. CASE FailTask(t)
    BY <1>2, <2>1, MoveType DEF FailTask, Fail, Terminal
  <2>2. CASE TimeoutTask(t)
    BY <1>2, <2>2, MoveType DEF TimeoutTask, Timeout, Terminal
  <2>3. CASE CancelTask(t)
    BY <1>2, <2>3, MoveType DEF CancelTask, Cancel, Terminal
  <2>4. CASE \E u \in Tasks : SupersedeTask(t, u)
    BY <1>2, <2>4, MoveType DEF SupersedeTask, Supersede, Terminal
  <2> QED
    BY <1>1, <2>1, <2>2, <2>3, <2>4
<1> QED
  BY <1>3 DEF CloseTask, TypeOK, RegistryTypeOK, sessionVars, workVars

LEMMA BumpType ==
  ASSUME NEW d \in DataSnapshot
  PROVE  /\ [d EXCEPT !.material = @ + 1] \in DataSnapshot
         /\ [d EXCEPT !.trust = @ + 1] \in DataSnapshot
BY DEF DataSnapshot

LEMMA EnvironmentType ==
  ASSUME TypeOK, Environment
  PROVE  TypeOK'
<1>1. records \in [Tasks -> Record] /\ idempotency \in [Keys -> Tasks \cup {NoTask}]
  BY DEF TypeOK, RegistryTypeOK
<1>2. CancelPending(records) \in [Tasks -> Record]
  BY <1>1, CancelPendingType
<1>3. CASE AdmitTurn
  BY <1>2, <1>3 DEF AdmitTurn, StartTurn, TypeOK, RegistryTypeOK, workVars
<1>4. CASE ReflexTurn
  BY <1>4 DEF ReflexTurn, StartTurn, TypeOK, RegistryTypeOK, registryVars, workVars
<1>5. CASE ChangeMaterial
  BY <1>5, BumpType DEF ChangeMaterial, TypeOK, RegistryTypeOK, registryVars,
                        sessionVars, workVars
<1>6. CASE ChangeTrust
  BY <1>6, BumpType DEF ChangeTrust, TypeOK, RegistryTypeOK, registryVars,
                        sessionVars, workVars
<1>7. CASE RevokeIdentity
  BY <1>2, <1>7, BumpType DEF RevokeIdentity, TypeOK, RegistryTypeOK, sessionVars, workVars
<1>8. CASE AssignCapabilities
  BY <1>8 DEF AssignCapabilities, TypeOK, RegistryTypeOK, registryVars, sessionVars, workVars
<1>9. CASE EndSession
  <2>1. records' \in [Tasks -> Record] /\ idempotency' \in [Keys -> Tasks \cup {NoTask}]
    BY <1>1, <1>2, <1>9, ForgetType, ForgetKeysType DEF EndSession
  <2> QED
    BY <1>9, <2>1, BumpType DEF EndSession, TypeOK, RegistryTypeOK, sessionVars, workVars
<1>10. CASE Tick
  BY <1>10 DEF Tick, TypeOK, RegistryTypeOK, registryVars, sessionVars
<1> QED
  BY <1>3, <1>4, <1>5, <1>6, <1>7, <1>8, <1>9, <1>10 DEF Environment

LEMMA NextType ==
  ASSUME TypeOK, [Next]_vars
  PROVE  TypeOK'
<1>1. CASE Submit
  <2>1. CASE RefuseTask
    BY <2>1, RefuseType
  <2>2. CASE \E t \in Tasks, turn \in 1..activeTurn, rev \in 1..revision,
                captured \in CapturedData : ScheduleTask(t, turn, rev, captured)
    <3>1. CapturedData \subseteq DataSnapshot
      BY DEF CapturedData, DataSnapshot, TypeOK
    <3>2. 1..activeTurn \subseteq Nat /\ 1..revision \subseteq Nat
      BY DEF TypeOK
    <3> QED
      BY <2>2, <3>1, <3>2, ScheduleType
  <2> QED
    BY <1>1, <2>1, <2>2 DEF Submit
<1>2. CASE Execute
  BY <1>2, ClaimType, TakeEntryType, FindsNothingType DEF Execute, NextTask
<1>3. CASE Reduce
  BY <1>3, ReduceType
<1>4. CASE Close
  BY <1>4, CloseType
<1>5. CASE Environment
  BY <1>5, EnvironmentType
<1>6. CASE UNCHANGED vars
  BY <1>6 DEF vars, TypeOK, RegistryTypeOK
<1> QED
  BY <1>1, <1>2, <1>3, <1>4, <1>5, <1>6 DEF Next

(* Every reachable state of the session is well typed: in particular no    *)
(* handler leaves a record in a state it only passes through.              *)
THEOREM TypeCorrect == Spec => []TypeOK
<1> QED
  BY InitType, NextType, PTL DEF Spec

-----------------------------------------------------------------------------
(* What the handlers may do to a record that is there: keep its phase, or  *)
(* close it while it is open.  Only ScheduleTask and CommitAnswer do more; *)
(* expiry and the end of the session also forget closed records.           *)

OnlyCloses(old, new) ==
  \A t \in Tasks :
    /\ new[t].epoch = old[t].epoch
    /\ \/ Phase(new[t].state) = Phase(old[t].state)
       \/ Phase(old[t].state) = "open" /\ Phase(new[t].state) = "closed"

LEMMA PhaseCases ==
  /\ Phase("absent") = "none"
  /\ Phase("succeeded") = "done"
  /\ \A s \in Live : Phase(s) = "open"
  /\ \A s \in Terminal \ {"succeeded"} : Phase(s) = "closed"
BY DEF Phase, Live, Terminal

LEMMA MoveCloses ==
  ASSUME TypeOK, NEW recs \in [Tasks -> Record], NEW t \in Tasks,
         NEW from \in SUBSET Live, NEW to \in Live \cup (Terminal \ {"succeeded"})
  PROVE  OnlyCloses(recs, Move(recs, t, from, to))
<1>1. Stored(recs[t], to).epoch = recs[t].epoch /\ Stored(recs[t], to).state = to
  BY StoredType
<1>2. CASE recs[t].state \in from
  BY <1>1, <1>2, PhaseCases DEF OnlyCloses, Move
<1>3. CASE recs[t].state \notin from
  BY <1>3 DEF OnlyCloses, Move
<1> QED
  BY <1>2, <1>3

LEMMA CancelPendingCloses ==
  ASSUME TypeOK, NEW recs \in [Tasks -> Record]
  PROVE  /\ OnlyCloses(recs, CancelPending(recs))
         /\ \A t \in Tasks : Phase(CancelPending(recs)[t].state) # "open"
<1> SUFFICES ASSUME NEW t \in Tasks
             PROVE  /\ CancelPending(recs)[t].epoch = recs[t].epoch
                    /\ \/ Phase(CancelPending(recs)[t].state) = Phase(recs[t].state)
                       \/ /\ Phase(recs[t].state) = "open"
                          /\ Phase(CancelPending(recs)[t].state) = "closed"
                    /\ Phase(CancelPending(recs)[t].state) # "open"
  BY DEF OnlyCloses
<1>1. "cancelled" \in Terminal \ {"succeeded"}
  BY DEF Terminal
<1>2. /\ Stored(recs[t], "cancelled").epoch = recs[t].epoch
      /\ Stored(recs[t], "cancelled").state = "cancelled"
  BY <1>1, StoredType
<1>3. CASE recs[t].state \in Live
  BY <1>1, <1>2, <1>3, PhaseCases DEF CancelPending
<1>4. CASE recs[t].state \notin Live
  <2>1. recs[t].state \in Terminal \cup {"absent"}
    BY <1>4 DEF Record
  <2>2. Phase(recs[t].state) # "open"
    BY <2>1, PhaseCases
  <2> QED
    BY <1>4, <2>2 DEF CancelPending
<1> QED
  BY <1>3, <1>4

LEMMA TimeoutQueuedCloses ==
  ASSUME TypeOK, NEW recs \in [Tasks -> Record], NEW dropped
  PROVE  OnlyCloses(recs, TimeoutQueued(recs, dropped))
<1> SUFFICES ASSUME NEW t \in Tasks
             PROVE  /\ TimeoutQueued(recs, dropped)[t].epoch = recs[t].epoch
                    /\ \/ Phase(TimeoutQueued(recs, dropped)[t].state) = Phase(recs[t].state)
                       \/ /\ Phase(recs[t].state) = "open"
                          /\ Phase(TimeoutQueued(recs, dropped)[t].state) = "closed"
  BY DEF OnlyCloses
<1>1. "timed_out" \in Terminal \ {"succeeded"} /\ "queued" \in Live
  BY DEF Terminal, Live
<1>2. /\ Stored(recs[t], "timed_out").epoch = recs[t].epoch
      /\ Stored(recs[t], "timed_out").state = "timed_out"
  BY <1>1, StoredType
<1>3. CASE t \in dropped /\ recs[t].state = "queued"
  BY <1>1, <1>2, <1>3, PhaseCases DEF TimeoutQueued
<1>4. CASE ~ (t \in dropped /\ recs[t].state = "queued")
  BY <1>4 DEF TimeoutQueued
<1> QED
  BY <1>3, <1>4

LEMMA ClosesInTwoSteps ==
  ASSUME NEW a, NEW b, NEW c, OnlyCloses(a, b), OnlyCloses(b, c)
  PROVE  OnlyCloses(a, c)
BY DEF OnlyCloses

LEMMA TakeEntryCloses ==
  ASSUME TypeOK, NEW p \in DOMAIN Priority, NEW i \in DOMAIN lanes[Priority[p]],
         TakeEntry(p, i)
  PROVE  OnlyCloses(records, records') /\ UNCHANGED epoch
<1> DEFINE t == lanes[Priority[p]][i].task
           dropped == Popped(CutAt(p, i)) \ {t}
<1>1. Priority[p] \in Kinds
  BY SessionAssumption
<1>2. lanes[Priority[p]] \in Seq(LaneEntry)
  BY <1>1 DEF TypeOK
<1>3. lanes[Priority[p]][i] \in LaneEntry
  BY <1>2
<1>4. t \in Tasks
  BY <1>3 DEF LaneEntry
<1>5. records \in [Tasks -> Record]
  BY DEF TypeOK, RegistryTypeOK
<1>6. TimeoutQueued(records, dropped) \in [Tasks -> Record]
  BY <1>5, TimeoutQueuedType
<1>7. OnlyCloses(records, TimeoutQueued(records, dropped))
  BY <1>5, TimeoutQueuedCloses
<1>8. OnlyCloses(TimeoutQueued(records, dropped), Claim(TimeoutQueued(records, dropped), t))
  BY <1>4, <1>6, MoveCloses DEF Claim, Live
<1>9. records' = Claim(TimeoutQueued(records, dropped), t)
  BY DEF TakeEntry
<1> QED
  BY <1>7, <1>8, <1>9, ClosesInTwoSteps DEF TakeEntry, sessionVars

LEMMA ExecuteCloses ==
  ASSUME TypeOK, Execute
  PROVE  OnlyCloses(records, records') /\ UNCHANGED epoch
<1>1. records \in [Tasks -> Record]
  BY DEF TypeOK, RegistryTypeOK
<1>2. CASE \E t \in Tasks : ClaimTask(t)
  BY <1>1, <1>2, MoveCloses DEF ClaimTask, Claim, Live, sessionVars
<1>3. CASE NextTask
  BY <1>3, TakeEntryCloses DEF NextTask
<1>4. CASE NextFindsNothing
  BY <1>1, <1>4, TimeoutQueuedCloses DEF NextFindsNothing, sessionVars
<1> QED
  BY <1>2, <1>3, <1>4 DEF Execute

LEMMA RefusalCloses ==
  ASSUME TypeOK, NEW a \in answers, RefuseLateAnswer(a) \/ RefuseRevokedAnswer(a)
  PROVE  OnlyCloses(records, records') /\ UNCHANGED epoch
<1>1. records \in [Tasks -> Record] /\ a.task \in Tasks
  BY DEF TypeOK, RegistryTypeOK, Answer
<1>2. CASE RefuseLateAnswer(a)
  BY <1>1, <1>2, MoveCloses DEF RefuseLateAnswer, Timeout, Terminal, sessionVars
<1>3. CASE RefuseRevokedAnswer(a)
  BY <1>1, <1>3, MoveCloses DEF RefuseRevokedAnswer, Cancel, Terminal, sessionVars
<1> QED
  BY <1>2, <1>3

LEMMA CloseCloses ==
  ASSUME TypeOK, Close
  PROVE  OnlyCloses(records, records') /\ UNCHANGED epoch
<1>1. PICK t \in Tasks : \/ FailTask(t) \/ TimeoutTask(t) \/ CancelTask(t)
                         \/ \E u \in Tasks : SupersedeTask(t, u)
  BY DEF Close
<1>2. records \in [Tasks -> Record]
  BY DEF TypeOK, RegistryTypeOK
<1>3. CASE FailTask(t)
  BY <1>2, <1>3, MoveCloses DEF FailTask, Fail, CloseTask, Terminal, Live, sessionVars
<1>4. CASE TimeoutTask(t)
  BY <1>2, <1>4, MoveCloses DEF TimeoutTask, Timeout, CloseTask, Terminal, sessionVars
<1>5. CASE CancelTask(t)
  BY <1>2, <1>5, MoveCloses DEF CancelTask, Cancel, CloseTask, Terminal, sessionVars
<1>6. CASE \E u \in Tasks : SupersedeTask(t, u)
  BY <1>2, <1>6, MoveCloses DEF SupersedeTask, Supersede, CloseTask, Terminal, Live, sessionVars
<1> QED
  BY <1>1, <1>3, <1>4, <1>5, <1>6

LEMMA EnvironmentCloses ==
  ASSUME TypeOK, Environment
  PROVE  \/ OnlyCloses(records, records') /\ UNCHANGED epoch
         \/ AdmitTurn
         \/ EndSession
<1>1. records \in [Tasks -> Record]
  BY DEF TypeOK, RegistryTypeOK
<1>2. OnlyCloses(records, records)
  BY DEF OnlyCloses
<1>3. CASE ReflexTurn \/ ChangeMaterial \/ ChangeTrust \/ AssignCapabilities \/ Tick
  BY <1>2, <1>3 DEF ReflexTurn, ChangeMaterial, ChangeTrust, AssignCapabilities, Tick,
                    registryVars, sessionVars
<1>4. CASE RevokeIdentity
  BY <1>1, <1>4, CancelPendingCloses DEF RevokeIdentity, sessionVars
<1> QED
  BY <1>3, <1>4 DEF Environment

(* What a step of the session may be, seen from its records.               *)
LEMMA StepKinds ==
  ASSUME TypeOK, [Next]_vars
  PROVE  \/ OnlyCloses(records, records') /\ UNCHANGED epoch
         \/ \E t \in Tasks, turn \in Nat, rev \in Nat, captured \in DataSnapshot :
              ScheduleTask(t, turn, rev, captured)
         \/ RefuseTask
         \/ \E a \in answers : CommitAnswer(a)
         \/ AdmitTurn
         \/ EndSession
<1>1. CASE Submit
  <2>1. CapturedData \subseteq DataSnapshot
    BY DEF CapturedData, DataSnapshot, TypeOK
  <2>2. 1..activeTurn \subseteq Nat /\ 1..revision \subseteq Nat
    BY DEF TypeOK
  <2> QED
    BY <1>1, <2>1, <2>2 DEF Submit
<1>2. CASE Execute
  BY <1>2, ExecuteCloses
<1>3. CASE Reduce
  BY <1>3, RefusalCloses DEF Reduce
<1>4. CASE Close
  BY <1>4, CloseCloses
<1>5. CASE Environment
  BY <1>5, EnvironmentCloses
<1>6. CASE UNCHANGED vars
  BY <1>6 DEF vars, OnlyCloses
<1> QED
  BY <1>1, <1>2, <1>3, <1>4, <1>5, <1>6 DEF Next

LEMMA PhaseOf ==
  ASSUME NEW rec \in Record
  PROVE  /\ Phase(rec.state) = "open" <=> rec.state \in Live
         /\ Phase(rec.state) = "done" <=> rec.state = "succeeded"
         /\ Phase(rec.state) = "none" <=> rec.state = "absent"
         /\ Phase(rec.state) \in {"done", "closed"} <=> rec.state \in Terminal
BY DEF Phase, Record, Live, Terminal

LEMMA ScheduleEffect ==
  ASSUME TypeOK, NEW t \in Tasks, NEW turn \in Nat, NEW rev \in Nat,
         NEW captured \in DataSnapshot, ScheduleTask(t, turn, rev, captured)
  PROVE  /\ records'[t].state = "queued"
         /\ records'[t].epoch = epoch
         /\ records'[t].terminalAt = NotTerminal
         /\ \A u \in Tasks \ {t} : records'[u] = Kept[u]
         /\ Kept[t].state = "absent"
         /\ UNCHANGED epoch
<1> DEFINE request == Request(turn, rev, captured)
           admitted == Register(Kept, t, request)
<1>1. Kept \in [Tasks -> Record]
  BY ForgetType DEF Kept, TypeOK, RegistryTypeOK
<1>2. request \in Record /\ request.state = "admitted" /\ request.epoch = epoch
        /\ request.terminalAt = NotTerminal
  BY RequestType DEF Request
<1>3. admitted \in [Tasks -> Record] /\ admitted[t] = request
  BY <1>1, <1>2 DEF Register
<1>4. records' = [admitted EXCEPT ![t] = Stored(request, "queued")]
  BY <1>2, <1>3 DEF ScheduleTask, Enqueue, Move
<1>5. /\ Stored(request, "queued").state = "queued"
      /\ Stored(request, "queued").epoch = epoch
      /\ Stored(request, "queued").terminalAt = NotTerminal
  BY <1>2 DEF Stored, Record, Terminal, NotTerminal
<1>6. Kept[t].state = "absent"
  BY DEF ScheduleTask, Schedulable, Registrable, Present
<1> QED
  BY <1>1, <1>3, <1>4, <1>5, <1>6 DEF Register, ScheduleTask, sessionVars

LEMMA KeptRecords ==
  ASSUME TypeOK, NEW t \in Tasks
  PROVE  /\ Kept[t] = records[t] \/ Kept[t] = Absent
         /\ Absent.state = "absent" /\ Absent.terminalAt = NotTerminal
BY DEF Kept, Forget, TypeOK, RegistryTypeOK, Absent

LEMMA CommitEffect ==
  ASSUME TypeOK, NEW a \in answers, CommitAnswer(a)
  PROVE  /\ a.task \in Tasks
         /\ records[a.task].state = "running"
         /\ records' = [records EXCEPT ![a.task] = Stored(records[a.task], "succeeded")]
         /\ records'[a.task].state = "succeeded"
         /\ records'[a.task].epoch = records[a.task].epoch
         /\ UNCHANGED epoch
<1>1. a.task \in Tasks
  BY DEF TypeOK, Answer
<1> QED
  BY <1>1, StoredType DEF CommitAnswer, Complete, Reducible, Terminal, TypeOK,
                          RegistryTypeOK, sessionVars

LEMMA EndEffect ==
  ASSUME TypeOK, EndSession
  PROVE  (\A t \in Tasks : records'[t].state = "absent") /\ UNCHANGED epoch
<1> DEFINE recs == CancelPending(records)
<1>1. recs \in [Tasks -> Record]
  BY CancelPendingType DEF TypeOK, RegistryTypeOK
<1>2. records' = Forget(recs, Tombstones(recs))
  BY DEF EndSession
<1>3. ASSUME NEW t \in Tasks
      PROVE  records'[t].state = "absent"
  <2>1. recs[t].state \notin Live
    BY <1>1, CancelPendingCloses, PhaseOf DEF TypeOK, RegistryTypeOK
  <2>2. recs[t].state \in Terminal \/ recs[t].state = "absent"
    BY <1>1, <2>1 DEF Record
  <2> QED
    BY <1>2, <2>2 DEF Forget, Tombstones, Absent
<1> QED
  BY <1>3 DEF EndSession, sessionVars

-----------------------------------------------------------------------------
LEMMA LiveWorkStep ==
  ASSUME TypeOK, LiveWorkIsOfThisEpoch, [Next]_vars
  PROVE  LiveWorkIsOfThisEpoch'
<1> SUFFICES ASSUME NEW t \in Tasks, records'[t].state \in Live
             PROVE  records'[t].epoch = epoch'
  BY DEF LiveWorkIsOfThisEpoch
<1>1. TypeOK'
  BY NextType
<1>2. records[t] \in Record /\ records'[t] \in Record
  BY <1>1 DEF TypeOK, RegistryTypeOK
<1>3. Phase(records'[t].state) = "open"
  BY <1>2, PhaseOf
<1>4. records[t].state \in Live => records[t].epoch = epoch
  BY DEF LiveWorkIsOfThisEpoch
<1>5. CASE OnlyCloses(records, records') /\ UNCHANGED epoch
  BY <1>2, <1>3, <1>4, <1>5, PhaseOf DEF OnlyCloses
<1>6. CASE \E u \in Tasks, turn \in Nat, rev \in Nat, captured \in DataSnapshot :
             ScheduleTask(u, turn, rev, captured)
  BY <1>4, <1>6, ScheduleEffect, KeptRecords DEF Live
<1>7. CASE RefuseTask
  BY <1>4, <1>7, KeptRecords DEF RefuseTask, Live, sessionVars
<1>8. CASE \E a \in answers : CommitAnswer(a)
  <2>1. PICK a \in answers : CommitAnswer(a)
    BY <1>8
  <2>2. t # a.task
    BY <2>1, CommitEffect DEF Live
  <2> QED
    BY <1>4, <2>1, <2>2, CommitEffect DEF TypeOK, RegistryTypeOK
<1>9. CASE AdmitTurn
  <2>1. Phase(records'[t].state) # "open"
    BY <1>9, CancelPendingCloses DEF AdmitTurn, TypeOK, RegistryTypeOK
  <2> QED
    BY <1>3, <2>1
<1>10. CASE EndSession
  BY <1>10, EndEffect DEF Live
<1> QED
  BY <1>5, <1>6, <1>7, <1>8, <1>9, <1>10, StepKinds

(* Whatever is still open belongs to the present cancellation epoch, so    *)
(* the reducer, which never looks at the session's epoch, cannot complete  *)
(* a task of an older one.                                                 *)
THEOREM LiveWorkFenced == Spec => []LiveWorkIsOfThisEpoch
<1>1. Init => LiveWorkIsOfThisEpoch
  BY DEF Init, RegistryInit, LiveWorkIsOfThisEpoch, Absent, Live
<1>2. TypeOK /\ LiveWorkIsOfThisEpoch /\ [Next]_vars => LiveWorkIsOfThisEpoch'
  BY LiveWorkStep
<1> QED
  BY <1>1, <1>2, TypeCorrect, PTL DEF Spec

LEMMA CommitStep ==
  ASSUME TypeOK, LiveWorkIsOfThisEpoch, [Next]_vars, NEW t \in Tasks,
         records[t].state # "succeeded", records'[t].state = "succeeded"
  PROVE  /\ records[t].state = "running"
         /\ now <= records[t].deadline
         /\ records[t].turn = activeTurn
         /\ records[t].revision = revision
         /\ records[t].epoch = epoch
         /\ records[t].caps \subseteq capabilities
         /\ DataIsCurrent(t)
<1>1. TypeOK'
  BY NextType
<1>2. records[t] \in Record /\ records'[t] \in Record
  BY <1>1 DEF TypeOK, RegistryTypeOK
<1>3. Phase(records[t].state) # "done" /\ Phase(records'[t].state) = "done"
  BY <1>2, PhaseOf
<1>4. ~ OnlyCloses(records, records')
  BY <1>3 DEF OnlyCloses
<1>5. CASE \E u \in Tasks, turn \in Nat, rev \in Nat, captured \in DataSnapshot :
             ScheduleTask(u, turn, rev, captured)
  BY <1>5, ScheduleEffect, KeptRecords
<1>6. CASE RefuseTask
  BY <1>6, KeptRecords DEF RefuseTask
<1>7. CASE \E a \in answers : CommitAnswer(a)
  <2>1. PICK a \in answers : CommitAnswer(a)
    BY <1>7
  <2>2. t = a.task
    BY <2>1, CommitEffect DEF TypeOK, RegistryTypeOK
  <2>3. records[t].state = "running"
    BY <2>1, <2>2 DEF CommitAnswer, Reducible
  <2>4. records[t].epoch = epoch
    BY <2>3 DEF LiveWorkIsOfThisEpoch, Live
  <2> QED
    BY <2>1, <2>2, <2>3, <2>4 DEF CommitAnswer, Reducible, CapabilityRevoked
<1>8. CASE AdmitTurn
  BY <1>4, <1>8, CancelPendingCloses DEF AdmitTurn, TypeOK, RegistryTypeOK
<1>9. CASE EndSession
  BY <1>9, EndEffect
<1> QED
  BY <1>4, <1>5, <1>6, <1>7, <1>8, <1>9, StepKinds

(* A result takes effect only while its task is running, in time, and      *)
(* fenced by the session's present turn, revision, epoch, data and         *)
(* capabilities.                                                           *)
THEOREM CommitsAreFenced == Spec => CommitIsFenced
<1>1. TypeOK /\ LiveWorkIsOfThisEpoch /\ [Next]_vars =>
        [\A t \in Tasks :
           records[t].state # "succeeded" /\ records'[t].state = "succeeded" =>
             /\ records[t].state = "running"
             /\ now <= records[t].deadline
             /\ records[t].turn = activeTurn
             /\ records[t].revision = revision
             /\ records[t].epoch = epoch
             /\ records[t].caps \subseteq capabilities
             /\ DataIsCurrent(t)]_vars
  BY CommitStep
<1> QED
  BY <1>1, TypeCorrect, LiveWorkFenced, PTL DEF Spec, CommitIsFenced

-----------------------------------------------------------------------------
(* Time stamps: a record carries one exactly when it is terminal, so what  *)
(* expires is terminal.                                                    *)

StampedIn(recs) ==
  \A t \in Tasks : recs[t].terminalAt # NotTerminal <=> recs[t].state \in Terminal

LEMMA StoredStamped ==
  ASSUME TypeOK, NEW rec \in Record, NEW state \in Live \cup Terminal,
         rec.terminalAt # NotTerminal <=> rec.state \in Terminal,
         state \in Live => rec.state \notin Terminal
  PROVE  Stored(rec, state).terminalAt # NotTerminal <=> Stored(rec, state).state \in Terminal
<1>1. now # NotTerminal
  BY DEF TypeOK, RegistryTypeOK, NotTerminal
<1>2. Stored(rec, state).state = state
  BY StoredType
<1>3. Live \cap Terminal = {}
  BY DEF Live, Terminal
<1>4. CASE state \in Terminal
  <2>1. Stored(rec, state).terminalAt = IF rec.terminalAt = NotTerminal THEN now ELSE rec.terminalAt
    BY <1>4 DEF Stored, Record
  <2> QED
    BY <1>1, <1>2, <1>4, <2>1
<1>5. CASE state \notin Terminal
  <2>1. Stored(rec, state).terminalAt = rec.terminalAt
    BY <1>5 DEF Stored, Record
  <2> QED
    BY <1>2, <1>5, <2>1
<1> QED
  BY <1>4, <1>5

LEMMA MoveStamped ==
  ASSUME TypeOK, NEW recs \in [Tasks -> Record], StampedIn(recs), NEW t \in Tasks,
         NEW from \in SUBSET Live, NEW to \in Live \cup Terminal
  PROVE  StampedIn(Move(recs, t, from, to))
<1>1. CASE recs[t].state \in from
  <2>1. recs[t].state \notin Terminal
    BY <1>1 DEF Live, Terminal
  <2>2. Stored(recs[t], to).terminalAt # NotTerminal <=> Stored(recs[t], to).state \in Terminal
    BY <2>1, StoredStamped DEF StampedIn
  <2> QED
    BY <1>1, <2>2 DEF StampedIn, Move
<1>2. CASE recs[t].state \notin from
  BY <1>2 DEF Move
<1> QED
  BY <1>1, <1>2

LEMMA CancelPendingStamped ==
  ASSUME TypeOK, NEW recs \in [Tasks -> Record], StampedIn(recs)
  PROVE  StampedIn(CancelPending(recs))
<1>1. "cancelled" \in Terminal /\ "cancelled" \notin Live
  BY DEF Terminal, Live
<1> QED
  BY <1>1, StoredStamped DEF CancelPending, StampedIn

LEMMA TimeoutQueuedStamped ==
  ASSUME TypeOK, NEW recs \in [Tasks -> Record], StampedIn(recs), NEW dropped
  PROVE  StampedIn(TimeoutQueued(recs, dropped))
<1>1. "timed_out" \in Terminal /\ "timed_out" \notin Live
  BY DEF Terminal, Live
<1> QED
  BY <1>1, StoredStamped DEF TimeoutQueued, StampedIn

LEMMA ForgetStamped ==
  ASSUME NEW recs, StampedIn(recs), NEW gone
  PROVE  StampedIn(Forget(recs, gone))
BY DEF Forget, StampedIn, Absent, Terminal

LEMMA ExecuteStamped ==
  ASSUME TypeOK, StampedIn(records), Execute
  PROVE  StampedIn(records')
<1>1. records \in [Tasks -> Record]
  BY DEF TypeOK, RegistryTypeOK
<1>2. CASE \E t \in Tasks : ClaimTask(t)
  BY <1>1, <1>2, MoveStamped DEF ClaimTask, Claim, Live
<1>3. CASE NextTask
  <2>1. PICK p \in DOMAIN Priority : \E i \in DOMAIN lanes[Priority[p]] : TakeEntry(p, i)
    BY <1>3 DEF NextTask
  <2>2. PICK i \in DOMAIN lanes[Priority[p]] : TakeEntry(p, i)
    BY <2>1
  <2> DEFINE t == lanes[Priority[p]][i].task
             dropped == Popped(CutAt(p, i)) \ {t}
  <2>3. Priority[p] \in Kinds
    BY SessionAssumption
  <2>4. lanes[Priority[p]] \in Seq(LaneEntry)
    BY <2>3 DEF TypeOK
  <2>5. lanes[Priority[p]][i] \in LaneEntry
    BY <2>4
  <2>6. t \in Tasks
    BY <2>5 DEF LaneEntry
  <2>7. /\ TimeoutQueued(records, dropped) \in [Tasks -> Record]
        /\ StampedIn(TimeoutQueued(records, dropped))
    BY <1>1, TimeoutQueuedType, TimeoutQueuedStamped
  <2>8. records' = Claim(TimeoutQueued(records, dropped), t)
    BY <2>2 DEF TakeEntry
  <2> QED
    BY <2>6, <2>7, <2>8, MoveStamped DEF Claim, Live
<1>4. CASE NextFindsNothing
  BY <1>1, <1>4, TimeoutQueuedStamped DEF NextFindsNothing
<1> QED
  BY <1>2, <1>3, <1>4 DEF Execute

LEMMA StampedStep ==
  ASSUME TypeOK, StampedIn(records), [Next]_vars
  PROVE  StampedIn(records')
<1>1. records \in [Tasks -> Record]
  BY DEF TypeOK, RegistryTypeOK
<1>2. StampedIn(Kept)
  BY ForgetStamped DEF Kept
<1>3. CASE Submit
  <2>1. CapturedData \subseteq DataSnapshot
    BY DEF CapturedData, DataSnapshot, TypeOK
  <2>2. 1..activeTurn \subseteq Nat /\ 1..revision \subseteq Nat
    BY DEF TypeOK
  <2> QED
    BY <1>2, <1>3, <2>1, <2>2, ScheduleEffect DEF Submit, RefuseTask, StampedIn, Terminal
<1>4. CASE Execute
  BY <1>4, ExecuteStamped
<1>5. CASE Reduce
  <2>1. PICK a \in answers : CommitAnswer(a) \/ RefuseLateAnswer(a) \/ RefuseRevokedAnswer(a)
    BY <1>5 DEF Reduce
  <2>2. a.task \in Tasks
    BY DEF TypeOK, Answer
  <2>3. CASE CommitAnswer(a)
    <3>1. "succeeded" \in Terminal /\ "succeeded" \notin Live
      BY DEF Terminal, Live
    <3> QED
      BY <1>1, <2>2, <2>3, <3>1, CommitEffect, StoredStamped DEF StampedIn
  <2>4. CASE RefuseLateAnswer(a)
    BY <1>1, <2>2, <2>4, MoveStamped DEF RefuseLateAnswer, Timeout, Terminal
  <2>5. CASE RefuseRevokedAnswer(a)
    BY <1>1, <2>2, <2>5, MoveStamped DEF RefuseRevokedAnswer, Cancel, Terminal
  <2> QED
    BY <2>1, <2>3, <2>4, <2>5
<1>6. CASE Close
  BY <1>1, <1>6, MoveStamped
     DEF Close, FailTask, TimeoutTask, CancelTask, SupersedeTask, CloseTask,
         Fail, Timeout, Cancel, Supersede, Terminal, Live
<1>7. CASE Environment
  <2>1. StampedIn(CancelPending(records))
    BY <1>1, CancelPendingStamped
  <2>2. CASE EndSession
    BY <2>1, <2>2, ForgetStamped DEF EndSession
  <2> QED
    BY <1>7, <2>1, <2>2
       DEF Environment, AdmitTurn, ReflexTurn, ChangeMaterial, ChangeTrust, RevokeIdentity,
           AssignCapabilities, Tick, registryVars
<1>8. CASE UNCHANGED vars
  BY <1>8 DEF vars
<1> QED
  BY <1>3, <1>4, <1>5, <1>6, <1>7, <1>8 DEF Next

(* A record is stamped exactly when it is terminal, whichever handler      *)
(* closed it, so the retention window bounds every tombstone.              *)
THEOREM TombstonesStamped == Spec => []TombstonesAreStamped
<1>1. Init => TombstonesAreStamped
  BY DEF Init, RegistryInit, TombstonesAreStamped, Absent, Terminal
<1>2. TypeOK /\ TombstonesAreStamped /\ [Next]_vars => TombstonesAreStamped'
  BY StampedStep DEF StampedIn, TombstonesAreStamped
<1> QED
  BY <1>1, <1>2, TypeCorrect, PTL DEF Spec

-----------------------------------------------------------------------------
(* The idempotency index.                                                  *)

IndexMatchesIn(recs, index) ==
  \A t \in Tasks, k \in Keys : index[k] = t <=> t \in Present(recs) /\ Shape[t].key = k

LEMMA ForgetMatches ==
  ASSUME NEW recs \in [Tasks -> Record], NEW index, IndexMatchesIn(recs, index),
         NEW gone \in SUBSET Present(recs)
  PROVE  IndexMatchesIn(Forget(recs, gone), ForgetKeys(index, gone))
<1> SUFFICES ASSUME NEW t \in Tasks, NEW k \in Keys
             PROVE  ForgetKeys(index, gone)[k] = t
                      <=> t \in Present(Forget(recs, gone)) /\ Shape[t].key = k
  BY DEF IndexMatchesIn
<1>1. t \in Present(Forget(recs, gone)) <=> t \in Present(recs) /\ t \notin gone
  BY DEF Present, Forget, Absent
<1>2. gone \subseteq Tasks
  BY DEF Present
<1>3. CASE \E g \in gone : Shape[g].key = k
  <2>1. PICK g \in gone : Shape[g].key = k
    BY <1>3
  <2>2. index[k] = g
    BY <1>2, <2>1 DEF IndexMatchesIn
  <2>3. ForgetKeys(index, gone)[k] = NoTask
    BY <1>3 DEF ForgetKeys
  <2>4. NoTask # t
    BY RegistryAssumption
  <2>5. t \in Present(recs) /\ Shape[t].key = k => t \in gone
    BY <2>1, <2>2 DEF IndexMatchesIn
  <2> QED
    BY <1>1, <2>3, <2>4, <2>5
<1>4. CASE ~ \E g \in gone : Shape[g].key = k
  BY <1>1, <1>4 DEF ForgetKeys, IndexMatchesIn
<1> QED
  BY <1>3, <1>4

LEMMA SamePresence ==
  ASSUME TypeOK, TypeOK', OnlyCloses(records, records')
  PROVE  Present(records') = Present(records)
BY PhaseOf, PhaseCases DEF OnlyCloses, Present, TypeOK, RegistryTypeOK

LEMMA KeptMatches ==
  ASSUME TypeOK, IndexMatchesIn(records, idempotency)
  PROVE  IndexMatchesIn(Kept, KeptIndex)
<1>1. ExpiredTombstones(records) \in SUBSET Present(records)
  BY DEF ExpiredTombstones
<1> QED
  BY <1>1, ForgetMatches DEF Kept, KeptIndex, TypeOK, RegistryTypeOK

LEMMA ScheduleMatches ==
  ASSUME TypeOK, IndexMatchesIn(records, idempotency), NEW t \in Tasks, NEW turn \in Nat,
         NEW rev \in Nat, NEW captured \in DataSnapshot, ScheduleTask(t, turn, rev, captured)
  PROVE  IndexMatchesIn(records', idempotency')
<1>1. IndexMatchesIn(Kept, KeptIndex)
  BY KeptMatches
<1>2. KeptIndex \in [Keys -> Tasks \cup {NoTask}] /\ Shape[t].key \in Keys
  BY ForgetKeysType, RegistryAssumption DEF KeptIndex, TypeOK, RegistryTypeOK, TaskShape
<1>3. idempotency' = [KeptIndex EXCEPT ![Shape[t].key] = t] /\ KeptIndex[Shape[t].key] = NoTask
  BY DEF ScheduleTask, Index, Schedulable, Registrable
<1>4. Present(records') = Present(Kept) \cup {t} /\ t \notin Present(Kept)
  BY ScheduleEffect DEF Present
<1> SUFFICES ASSUME NEW u \in Tasks, NEW k \in Keys
             PROVE  idempotency'[k] = u <=> u \in Present(records') /\ Shape[u].key = k
  BY DEF IndexMatchesIn
<1>5. CASE k = Shape[t].key
  <2>1. u \in Present(Kept) => Shape[u].key # k
    BY <1>1, <1>3, <1>5, RegistryAssumption DEF IndexMatchesIn
  <2> QED
    BY <1>2, <1>3, <1>4, <1>5, <2>1
<1>6. CASE k # Shape[t].key
  BY <1>1, <1>2, <1>3, <1>4, <1>6 DEF IndexMatchesIn
<1> QED
  BY <1>5, <1>6

LEMMA EndMatches ==
  ASSUME TypeOK, IndexMatchesIn(records, idempotency), EndSession
  PROVE  IndexMatchesIn(records', idempotency')
<1> DEFINE recs == CancelPending(records)
<1>1. records \in [Tasks -> Record] /\ recs \in [Tasks -> Record]
  BY CancelPendingType DEF TypeOK, RegistryTypeOK
<1>2. Present(recs) = Present(records)
  BY <1>1, CancelPendingCloses, PhaseOf, PhaseCases DEF OnlyCloses, Present
<1>3. IndexMatchesIn(recs, idempotency)
  BY <1>2 DEF IndexMatchesIn
<1>4. Tombstones(recs) \in SUBSET Present(recs)
  BY DEF Tombstones, Present, Terminal
<1> QED
  BY <1>1, <1>3, <1>4, ForgetMatches DEF EndSession

LEMMA IndexStep ==
  ASSUME TypeOK, IndexMatchesIn(records, idempotency), [Next]_vars
  PROVE  IndexMatchesIn(records', idempotency')
<1>1. TypeOK'
  BY NextType
<1>2. CASE OnlyCloses(records, records') /\ UNCHANGED idempotency
  BY <1>1, <1>2, SamePresence DEF IndexMatchesIn
<1>3. CASE Submit
  <2>1. CapturedData \subseteq DataSnapshot
    BY DEF CapturedData, DataSnapshot, TypeOK
  <2>2. 1..activeTurn \subseteq Nat /\ 1..revision \subseteq Nat
    BY DEF TypeOK
  <2> QED
    BY <1>3, <2>1, <2>2, KeptMatches, ScheduleMatches DEF Submit, RefuseTask
<1>4. CASE EndSession
  BY <1>4, EndMatches
<1>5. CASE \E a \in answers : CommitAnswer(a)
  <2>1. PICK a \in answers : CommitAnswer(a)
    BY <1>5
  <2>2. Present(records') = Present(records)
    BY <2>1, CommitEffect DEF Present, TypeOK, RegistryTypeOK
  <2> QED
    BY <2>1, <2>2 DEF IndexMatchesIn, CommitAnswer
<1>6. CASE AdmitTurn
  BY <1>2, <1>6, CancelPendingCloses DEF AdmitTurn, TypeOK, RegistryTypeOK
<1>7. CASE Execute
  BY <1>2, <1>7, ExecuteCloses DEF Execute, ClaimTask, NextTask, TakeEntry, NextFindsNothing
<1>8. CASE Close
  BY <1>2, <1>8, CloseCloses
     DEF Close, FailTask, TimeoutTask, CancelTask, SupersedeTask, CloseTask
<1>9. CASE Reduce
  BY <1>2, <1>5, <1>9, RefusalCloses DEF Reduce, RefuseLateAnswer, RefuseRevokedAnswer
<1>10. CASE Environment
  BY <1>2, <1>4, <1>6, <1>10, EnvironmentCloses
     DEF Environment, ReflexTurn, ChangeMaterial, ChangeTrust, RevokeIdentity,
         AssignCapabilities, Tick, registryVars
<1>11. CASE UNCHANGED vars
  BY <1>11 DEF vars
<1> QED
  BY <1>3, <1>7, <1>8, <1>9, <1>10, <1>11 DEF Next

(* The idempotency index and the records never disagree, through expiry,   *)
(* re-registration and the end of the session.                             *)
THEOREM IndexMatches == Spec => []IndexMatchesRecords
<1>1. Init => IndexMatchesRecords
  BY RegistryAssumption DEF Init, RegistryInit, IndexMatchesRecords, Absent, Present
<1>2. TypeOK /\ IndexMatchesRecords /\ [Next]_vars => IndexMatchesRecords'
  BY IndexStep DEF IndexMatchesIn, IndexMatchesRecords, Present
<1> QED
  BY <1>1, <1>2, TypeCorrect, PTL DEF Spec

-----------------------------------------------------------------------------
(* What most handlers do to a record, told with everything a late answer   *)
(* is compared with: they leave it alone, or move it on from a live state, *)
(* never back into a lane and never under another identity.                *)

MovedOn(old, new) ==
  /\ old.state \in Live
  /\ new.state \in {"running"} \cup Terminal
  /\ new.state = "running" => old.state = "queued"
  /\ new.state \in Terminal => new.terminalAt \in {old.terminalAt, now}

OnlyMovesOn(old, new) == \A t \in Tasks : new[t] = old[t] \/ MovedOn(old[t], new[t])

LEMMA StoredMovesOn ==
  ASSUME TypeOK, NEW rec \in Record, rec.state \in Live, NEW state \in {"running"} \cup Terminal,
         state = "running" => rec.state = "queued"
  PROVE  MovedOn(rec, Stored(rec, state))
<1>1. Stored(rec, state).state = state
  BY StoredType DEF Live
<1>2. Stored(rec, state).terminalAt \in {rec.terminalAt, now}
  BY DEF Stored, Record
<1> QED
  BY <1>1, <1>2 DEF MovedOn

LEMMA MoveMovesOn ==
  ASSUME TypeOK, NEW recs \in [Tasks -> Record], NEW t \in Tasks, NEW from \in SUBSET Live,
         NEW to \in {"running"} \cup Terminal, to = "running" => from = {"queued"}
  PROVE  OnlyMovesOn(recs, Move(recs, t, from, to))
<1>1. recs[t] \in Record
  OBVIOUS
<1>2. CASE recs[t].state \in from
  <2>1. MovedOn(recs[t], Stored(recs[t], to))
    BY <1>1, <1>2, StoredMovesOn
  <2> QED
    BY <1>2, <2>1 DEF OnlyMovesOn, Move
<1>3. CASE recs[t].state \notin from
  BY <1>3 DEF OnlyMovesOn, Move
<1> QED
  BY <1>2, <1>3

LEMMA CancelPendingMovesOn ==
  ASSUME TypeOK, NEW recs \in [Tasks -> Record]
  PROVE  OnlyMovesOn(recs, CancelPending(recs))
<1>1. "cancelled" \in Terminal /\ "cancelled" # "running"
  BY DEF Terminal
<1> QED
  BY <1>1, StoredMovesOn DEF OnlyMovesOn, CancelPending

LEMMA TimeoutQueuedMovesOn ==
  ASSUME TypeOK, NEW recs \in [Tasks -> Record], NEW dropped
  PROVE  OnlyMovesOn(recs, TimeoutQueued(recs, dropped))
<1>1. "timed_out" \in Terminal /\ "timed_out" # "running" /\ "queued" \in Live
  BY DEF Terminal, Live
<1> QED
  BY <1>1, StoredMovesOn DEF OnlyMovesOn, TimeoutQueued

LEMMA TakenTask ==
  ASSUME TypeOK, NEW p \in DOMAIN Priority, NEW i \in DOMAIN lanes[Priority[p]],
         TakeEntry(p, i)
  PROVE  /\ Priority[p] \in Kinds
         /\ lanes[Priority[p]][i].task \in Tasks
         /\ records[lanes[Priority[p]][i].task].state = "queued"
         /\ i \in 1..Len(lanes[Priority[p]])
<1>1. Priority[p] \in Kinds
  BY SessionAssumption
<1>2. lanes[Priority[p]] \in Seq(LaneEntry)
  BY <1>1 DEF TypeOK
<1>3. lanes[Priority[p]][i] \in LaneEntry
  BY <1>2
<1> QED
  BY <1>1, <1>2, <1>3 DEF LaneEntry, TakeEntry, Runnable

\* The entry taken runs, the entries popped with it time out.
LEMMA TakeEntryEffect ==
  ASSUME TypeOK, NEW p \in DOMAIN Priority, NEW i \in DOMAIN lanes[Priority[p]],
         TakeEntry(p, i)
  PROVE  LET t == lanes[Priority[p]][i].task
             dropped == Popped(CutAt(p, i)) \ {t}
         IN  /\ records'[t] = Stored(records[t], "running")
             /\ \A u \in Tasks \ {t} : records'[u] = TimeoutQueued(records, dropped)[u]
<1> DEFINE t == lanes[Priority[p]][i].task
           dropped == Popped(CutAt(p, i)) \ {t}
           recs == TimeoutQueued(records, dropped)
<1>1. t \in Tasks /\ records[t].state = "queued"
  BY TakenTask
<1>2. recs[t] = records[t] /\ recs \in [Tasks -> Record]
  BY <1>1, TimeoutQueuedType DEF TimeoutQueued, TypeOK, RegistryTypeOK
<1>3. records' = Claim(recs, t)
  BY DEF TakeEntry
<1>4. records' = [recs EXCEPT ![t] = Stored(recs[t], "running")]
  BY <1>1, <1>2, <1>3 DEF Claim, Move
<1> QED
  BY <1>1, <1>2, <1>4

LEMMA ExecuteMovesOn ==
  ASSUME TypeOK, Execute
  PROVE  OnlyMovesOn(records, records')
<1>1. records \in [Tasks -> Record]
  BY DEF TypeOK, RegistryTypeOK
<1>2. CASE \E t \in Tasks : ClaimTask(t)
  BY <1>1, <1>2, MoveMovesOn DEF ClaimTask, Claim, Live
<1>3. CASE NextTask
  <2>1. PICK p \in DOMAIN Priority : \E i \in DOMAIN lanes[Priority[p]] : TakeEntry(p, i)
    BY <1>3 DEF NextTask
  <2>2. PICK i \in DOMAIN lanes[Priority[p]] : TakeEntry(p, i)
    BY <2>1
  <2> DEFINE t == lanes[Priority[p]][i].task
             dropped == Popped(CutAt(p, i)) \ {t}
  <2>3. t \in Tasks /\ records[t].state = "queued"
    BY <2>2, TakenTask
  <2>4. MovedOn(records[t], Stored(records[t], "running"))
    BY <1>1, <2>3, StoredMovesOn DEF Live
  <2>5. OnlyMovesOn(records, TimeoutQueued(records, dropped))
    BY <1>1, TimeoutQueuedMovesOn
  <2>6. records'[t] = Stored(records[t], "running")
        /\ \A u \in Tasks \ {t} : records'[u] = TimeoutQueued(records, dropped)[u]
    BY <2>2, TakeEntryEffect
  <2> QED
    BY <2>4, <2>5, <2>6 DEF OnlyMovesOn
<1>4. CASE NextFindsNothing
  BY <1>1, <1>4, TimeoutQueuedMovesOn DEF NextFindsNothing
<1> QED
  BY <1>2, <1>3, <1>4 DEF Execute

LEMMA ReduceMovesOn ==
  ASSUME TypeOK, Reduce
  PROVE  OnlyMovesOn(records, records')
<1>1. PICK a \in answers : CommitAnswer(a) \/ RefuseLateAnswer(a) \/ RefuseRevokedAnswer(a)
  BY DEF Reduce
<1>2. a.task \in Tasks /\ records \in [Tasks -> Record]
  BY DEF TypeOK, RegistryTypeOK, Answer
<1>3. {"succeeded", "timed_out", "cancelled"} \subseteq Terminal /\ "running" \in Live
      /\ "running" \notin Terminal
  BY DEF Terminal, Live
<1>4. CASE CommitAnswer(a)
  <2>1. /\ records[a.task].state = "running"
        /\ records' = [records EXCEPT ![a.task] = Stored(records[a.task], "succeeded")]
    BY <1>4, CommitEffect
  <2>2. MovedOn(records[a.task], Stored(records[a.task], "succeeded"))
    BY <1>2, <1>3, <2>1, StoredMovesOn
  <2> QED
    BY <1>2, <2>1, <2>2 DEF OnlyMovesOn
<1>5. CASE RefuseLateAnswer(a)
  BY <1>2, <1>3, <1>5, MoveMovesOn DEF RefuseLateAnswer, Timeout
<1>6. CASE RefuseRevokedAnswer(a)
  BY <1>2, <1>3, <1>6, MoveMovesOn DEF RefuseRevokedAnswer, Cancel
<1> QED
  BY <1>1, <1>4, <1>5, <1>6

LEMMA CloseMovesOn ==
  ASSUME TypeOK, Close
  PROVE  OnlyMovesOn(records, records')
<1>1. records \in [Tasks -> Record]
  BY DEF TypeOK, RegistryTypeOK
<1>2. {"failed", "timed_out", "cancelled", "superseded"} \subseteq Terminal
      /\ "running" \notin Terminal
      /\ {"running"} \in SUBSET Live /\ {"queued", "running"} \in SUBSET Live
  BY DEF Terminal, Live
<1>3. OnlyMovesOn(records, records)
  BY DEF OnlyMovesOn
<1> QED
  BY <1>1, <1>2, <1>3, MoveMovesOn
     DEF Close, FailTask, TimeoutTask, CancelTask, SupersedeTask, CloseTask,
         Fail, Timeout, Cancel, Supersede

\* A step moves records on, unless it registers, expires or ends the session.
LEMMA StepMovesOn ==
  ASSUME TypeOK, [Next]_vars
  PROVE  \/ OnlyMovesOn(records, records') /\ UNCHANGED <<incarnation, ended>>
         \/ \E t \in Tasks, turn \in Nat, rev \in Nat, captured \in DataSnapshot :
              ScheduleTask(t, turn, rev, captured)
         \/ RefuseTask
         \/ EndSession
<1>1. CASE Submit
  <2>1. CapturedData \subseteq DataSnapshot
    BY DEF CapturedData, DataSnapshot, TypeOK
  <2>2. 1..activeTurn \subseteq Nat /\ 1..revision \subseteq Nat
    BY DEF TypeOK
  <2> QED
    BY <1>1, <2>1, <2>2 DEF Submit
<1>2. CASE Execute
  BY <1>2, ExecuteMovesOn
     DEF Execute, ClaimTask, NextTask, TakeEntry, NextFindsNothing, workVars
<1>3. CASE Reduce
  BY <1>3, ReduceMovesOn
     DEF Reduce, CommitAnswer, RefuseLateAnswer, RefuseRevokedAnswer, workVars
<1>4. CASE Close
  BY <1>4, CloseMovesOn
     DEF Close, FailTask, TimeoutTask, CancelTask, SupersedeTask, CloseTask, workVars
<1>5. CASE Environment
  <2>1. OnlyMovesOn(records, records)
    BY DEF OnlyMovesOn
  <2>2. OnlyMovesOn(records, CancelPending(records))
    BY CancelPendingMovesOn DEF TypeOK, RegistryTypeOK
  <2> QED
    BY <1>5, <2>1, <2>2
       DEF Environment, AdmitTurn, ReflexTurn, ChangeMaterial, ChangeTrust, RevokeIdentity,
           AssignCapabilities, Tick, registryVars, workVars
<1>6. CASE UNCHANGED vars
  BY <1>6 DEF vars, OnlyMovesOn
<1> QED
  BY <1>1, <1>2, <1>3, <1>4, <1>5, <1>6 DEF Next

-----------------------------------------------------------------------------
(* Tombstones.                                                             *)

LEMMA OnlyExpiredForgotten ==
  ASSUME TypeOK, NEW t \in Tasks
  PROVE  \/ Kept[t] = records[t]
         \/ Kept[t] = Absent /\ now - records[t].terminalAt >= TombstoneTtl
BY DEF Kept, Forget, ExpiredTombstones

LEMMA ScheduleRegisters ==
  ASSUME TypeOK, NEW t \in Tasks, NEW turn \in Nat, NEW rev \in Nat,
         NEW captured \in DataSnapshot, ScheduleTask(t, turn, rev, captured)
  PROVE  incarnation'[t] > incarnation[t]
BY DEF ScheduleTask, TypeOK

LEMMA TerminalStep ==
  ASSUME TypeOK, [Next]_vars, NEW t \in Tasks, records[t].state \in Terminal
  PROVE  \/ /\ records'[t].state = records[t].state
            /\ records'[t].terminalAt = records[t].terminalAt
         \/ incarnation'[t] > incarnation[t]
         \/ records'[t] = Absent
<1>1. records[t].state \notin Live
  BY DEF Live, Terminal
<1>2. CASE OnlyMovesOn(records, records')
  BY <1>1, <1>2 DEF OnlyMovesOn, MovedOn
<1>3. CASE \E u \in Tasks, turn \in Nat, rev \in Nat, captured \in DataSnapshot :
             ScheduleTask(u, turn, rev, captured)
  <2>1. PICK u \in Tasks, turn \in Nat, rev \in Nat, captured \in DataSnapshot :
             ScheduleTask(u, turn, rev, captured)
    BY <1>3
  <2>2. CASE u = t
    BY <2>1, <2>2, ScheduleRegisters
  <2>3. CASE u # t
    BY <2>1, <2>3, ScheduleEffect, OnlyExpiredForgotten
  <2> QED
    BY <2>2, <2>3
<1>4. CASE RefuseTask
  BY <1>4, OnlyExpiredForgotten DEF RefuseTask
<1>5. CASE EndSession
  BY <1>1, <1>5 DEF EndSession, Forget, Tombstones, CancelPending
<1> QED
  BY <1>2, <1>3, <1>4, <1>5, StepMovesOn

(* A tombstone never comes back to life, whatever its provider still       *)
(* delivers and whoever closes the task once more.                         *)
THEOREM TombstonesAreFinal == Spec => TerminalIsFinal
<1>1. TypeOK /\ [Next]_vars =>
        [\A t \in Tasks :
           records[t].state \in Terminal =>
             \/ records'[t].state = records[t].state
                /\ records'[t].terminalAt = records[t].terminalAt
             \/ incarnation'[t] > incarnation[t]
             \/ records'[t] = Absent]_vars
  BY TerminalStep
<1> QED
  BY <1>1, TypeCorrect, PTL DEF Spec, TerminalIsFinal

LEMMA WindowStep ==
  ASSUME TypeOK, [Next]_vars, NEW t \in Tasks, records[t].state \in Terminal,
         records'[t].state \notin Terminal, ended' = ended
  PROVE  now - records[t].terminalAt >= TombstoneTtl
<1>1. records[t].state \notin Live /\ records[t].state # "absent"
  BY DEF Live, Terminal
<1>2. CASE OnlyMovesOn(records, records')
  BY <1>1, <1>2 DEF OnlyMovesOn, MovedOn
<1>3. CASE \E u \in Tasks, turn \in Nat, rev \in Nat, captured \in DataSnapshot :
             ScheduleTask(u, turn, rev, captured)
  <2>1. PICK u \in Tasks, turn \in Nat, rev \in Nat, captured \in DataSnapshot :
             ScheduleTask(u, turn, rev, captured)
    BY <1>3
  <2>2. CASE u = t
    BY <1>1, <2>1, <2>2, ScheduleEffect, OnlyExpiredForgotten
  <2>3. CASE u # t
    BY <2>1, <2>3, ScheduleEffect, OnlyExpiredForgotten
  <2> QED
    BY <2>2, <2>3
<1>4. CASE RefuseTask
  BY <1>4, OnlyExpiredForgotten DEF RefuseTask
<1>5. CASE EndSession
  BY <1>5 DEF EndSession
<1> QED
  BY <1>2, <1>3, <1>4, <1>5, StepMovesOn

(* As long as the session lasts, a tombstone stays for the whole window in *)
(* which a late result must still meet it.                                 *)
THEOREM TombstonesLastTheWindow == Spec => TombstoneOutlastsWindow
<1>1. TypeOK /\ [Next]_vars =>
        [\A t \in Tasks :
           (/\ records[t].state \in Terminal
            /\ records'[t].state \notin Terminal
            /\ ended' = ended)
             => now - records[t].terminalAt >= TombstoneTtl]_vars
  BY WindowStep
<1> QED
  BY <1>1, TypeCorrect, PTL DEF Spec, TombstoneOutlastsWindow

-----------------------------------------------------------------------------
(* Late answers.  The invariant behind AnswersAreNotRevived: an answer is  *)
(* younger than any provider may take, and until the session ends it meets *)
(* the registration it was computed for, still running or closed no sooner *)
(* than the work began - too recently for its tombstone to have expired.   *)

MeetsItsRecord(a, rec, inc) ==
  /\ a.incarnation = inc
  /\ rec.state \in {"running"} \cup Terminal
  /\ rec.state \in Terminal => rec.terminalAt >= a.since

AnswersMeetRecords ==
  \A a \in answers :
    /\ a.since <= now
    /\ now - a.since <= AnswerDelay
    /\ ended \/ MeetsItsRecord(a, records[a.task], incarnation[a.task])

\* What a step does to the clock and to the answers it finds and adds.
LEMMA AnswersGrow ==
  ASSUME TypeOK, [Next]_vars
  PROVE  \/ UNCHANGED <<answers, now>>
         \/ Tick
         \/ /\ UNCHANGED now
            /\ UNCHANGED incarnation
            /\ \E t \in Tasks : /\ answers' = answers \cup {Work(t)}
                                /\ records'[t].state = "running"
<1>1. records \in [Tasks -> Record]
  BY DEF TypeOK, RegistryTypeOK
<1>2. CASE Submit
  BY <1>2 DEF Submit, ScheduleTask, RefuseTask, workVars
<1>3. CASE NextTask
  <2>1. PICK p \in DOMAIN Priority : \E i \in DOMAIN lanes[Priority[p]] : TakeEntry(p, i)
    BY <1>3 DEF NextTask
  <2>2. PICK i \in DOMAIN lanes[Priority[p]] : TakeEntry(p, i)
    BY <2>1
  <2> DEFINE t == lanes[Priority[p]][i].task
  <2>3. t \in Tasks
    BY <2>2, TakenTask
  <2>4. records'[t] = Stored(records[t], "running")
    BY <2>2, TakeEntryEffect
  <2>5. records'[t].state = "running"
    BY <1>1, <2>3, <2>4, StoredType DEF Live
  <2>6. answers' = answers \cup {Work(t)} /\ UNCHANGED <<now, incarnation>>
    BY <2>2 DEF TakeEntry
  <2> QED
    BY <2>3, <2>5, <2>6
<1>4. CASE NextFindsNothing
  BY <1>4 DEF NextFindsNothing, workVars
<1>5. CASE \E t \in Tasks : ClaimTask(t)
  <2>1. PICK t \in Tasks : ClaimTask(t)
    BY <1>5
  <2>2. UNCHANGED <<now, incarnation>> /\ records' = Claim(records, t)
        /\ answers' = IF records[t].state = "queued" THEN answers \cup {Work(t)} ELSE answers
    BY <2>1 DEF ClaimTask
  <2>3. CASE records[t].state = "queued"
    <3>1. records'[t] = Stored(records[t], "running")
      BY <1>1, <2>2, <2>3 DEF Claim, Move
    <3>2. records'[t].state = "running"
      BY <1>1, <3>1, StoredType DEF Live
    <3> QED
      BY <2>2, <2>3, <3>2
  <2>4. CASE records[t].state # "queued"
    BY <2>2, <2>4
  <2> QED
    BY <2>3, <2>4
<1>6. CASE Reduce
  BY <1>6 DEF Reduce, CommitAnswer, RefuseLateAnswer, RefuseRevokedAnswer, workVars
<1>7. CASE Close
  BY <1>7 DEF Close, FailTask, TimeoutTask, CancelTask, SupersedeTask, CloseTask, workVars
<1>8. CASE Environment
  BY <1>8
     DEF Environment, AdmitTurn, ReflexTurn, ChangeMaterial, ChangeTrust, RevokeIdentity,
         AssignCapabilities, EndSession, workVars
<1>9. CASE UNCHANGED vars
  BY <1>9 DEF vars
<1> QED
  BY <1>2, <1>3, <1>4, <1>5, <1>6, <1>7, <1>8, <1>9 DEF Next, Execute

\* An answer that is still out keeps its record where it is.
LEMMA AnswerKeepsRecord ==
  ASSUME TypeOK, TombstonesAreStamped, NEW t \in Tasks, NEW since \in Nat,
         now - since <= AnswerDelay,
         records[t].state \in {"running"} \cup Terminal,
         records[t].state \in Terminal => records[t].terminalAt >= since
  PROVE  Kept[t] = records[t] /\ Kept[t].state # "absent"
<1>1. records[t].state # "absent"
  BY DEF Terminal
<1>2. t \notin ExpiredTombstones(records)
  <2> SUFFICES ASSUME records[t].terminalAt # NotTerminal,
                      now - records[t].terminalAt >= TombstoneTtl
               PROVE  FALSE
    BY DEF ExpiredTombstones
  <2>1. records[t].terminalAt >= since
    BY DEF TombstonesAreStamped
  <2>2. records[t].terminalAt \in Nat /\ now \in Nat
    BY DEF TypeOK, RegistryTypeOK, Record
  <2>3. AnswerDelay < TombstoneTtl /\ AnswerDelay \in Nat /\ TombstoneTtl \in Nat
    BY SessionAssumption, RegistryAssumption
  <2> QED
    BY <2>1, <2>2, <2>3
<1> QED
  BY <1>1, <1>2 DEF Kept, Forget, TypeOK, RegistryTypeOK

LEMMA MeetingStep ==
  ASSUME TypeOK, TombstonesAreStamped, AnswersMeetRecords, [Next]_vars,
         NEW a \in answers, ~ ended'
  PROVE  MeetsItsRecord(a, records'[a.task], incarnation'[a.task])
<1> DEFINE t == a.task
<1>1. t \in Tasks /\ a.since \in Nat /\ records[t] \in Record
  BY DEF TypeOK, RegistryTypeOK, Answer
<1>2. ~ ended
  BY StepMovesOn DEF ScheduleTask, RefuseTask, EndSession
<1>3. /\ a.since <= now /\ now - a.since <= AnswerDelay
      /\ MeetsItsRecord(a, records[t], incarnation[t])
  BY <1>2 DEF AnswersMeetRecords
<1>4. Kept[t] = records[t] /\ Kept[t].state # "absent"
  BY <1>1, <1>3, AnswerKeepsRecord DEF MeetsItsRecord
<1>5. CASE OnlyMovesOn(records, records') /\ UNCHANGED <<incarnation, ended>>
  <2>1. CASE records'[t] = records[t]
    BY <1>3, <1>5, <2>1
  <2>2. CASE MovedOn(records[t], records'[t])
    <3>1. records[t].terminalAt = NotTerminal
      BY <1>1, <2>2 DEF TombstonesAreStamped, MovedOn, Live, Terminal
    <3>2. TypeOK'
      BY NextType
    <3>3. TombstonesAreStamped'
      BY StampedStep DEF StampedIn, TombstonesAreStamped
    <3>4. records'[t].state \in Terminal => records'[t].terminalAt = now
      BY <1>1, <2>2, <3>1, <3>3 DEF MovedOn, TombstonesAreStamped
    <3> QED
      BY <1>3, <1>5, <2>2, <3>4 DEF MovedOn, MeetsItsRecord
  <2> QED
    BY <1>1, <1>5, <2>1, <2>2 DEF OnlyMovesOn
<1>6. CASE \E u \in Tasks, turn \in Nat, rev \in Nat, captured \in DataSnapshot :
             ScheduleTask(u, turn, rev, captured)
  <2>1. PICK u \in Tasks, turn \in Nat, rev \in Nat, captured \in DataSnapshot :
             ScheduleTask(u, turn, rev, captured)
    BY <1>6
  <2>2. u # t
    BY <1>4, <2>1, ScheduleEffect
  <2>3. records'[t] = records[t] /\ incarnation'[t] = incarnation[t]
    BY <1>1, <1>4, <2>1, <2>2, ScheduleEffect DEF ScheduleTask, TypeOK
  <2> QED
    BY <1>3, <2>3
<1>7. CASE RefuseTask
  BY <1>3, <1>4, <1>7 DEF RefuseTask, workVars
<1>8. CASE EndSession
  BY <1>8 DEF EndSession
<1> QED
  BY <1>5, <1>6, <1>7, <1>8, StepMovesOn

LEMMA AnswersStep ==
  ASSUME TypeOK, TombstonesAreStamped, AnswersMeetRecords, [Next]_vars
  PROVE  AnswersMeetRecords'
<1> SUFFICES ASSUME NEW a \in answers'
             PROVE  /\ a.since <= now'
                    /\ now' - a.since <= AnswerDelay
                    /\ ended' \/ MeetsItsRecord(a, records'[a.task], incarnation'[a.task])
  BY DEF AnswersMeetRecords
<1>1. now \in Nat /\ AnswerDelay \in Nat
  BY SessionAssumption DEF TypeOK, RegistryTypeOK
<1>2. CASE a \in answers /\ UNCHANGED now
  BY <1>2, MeetingStep DEF AnswersMeetRecords
<1>3. CASE Tick
  <2>1. /\ now' = now + 1
        /\ answers' = {b \in answers : now + 1 - b.since <= AnswerDelay}
    BY <1>3 DEF Tick
  <2>2. a \in answers /\ now + 1 - a.since <= AnswerDelay
    BY <2>1
  <2>3. a.since \in Nat /\ a.since <= now
    BY <2>2 DEF TypeOK, Answer, AnswersMeetRecords
  <2> QED
    BY <1>1, <2>1, <2>2, <2>3, MeetingStep
<1>4. ASSUME NEW t \in Tasks, a = Work(t), UNCHANGED <<now, incarnation>>,
             records'[t].state = "running"
      PROVE  /\ a.since <= now'
             /\ now' - a.since <= AnswerDelay
             /\ ended' \/ MeetsItsRecord(a, records'[a.task], incarnation'[a.task])
  <2>1. a.task = t /\ a.since = now /\ a.incarnation = incarnation[t]
    BY <1>4 DEF Work
  <2>2. "running" \notin Terminal
    BY DEF Terminal
  <2> QED
    BY <1>1, <1>4, <2>1, <2>2 DEF MeetsItsRecord
<1> QED
  BY <1>2, <1>3, <1>4, AnswersGrow

(* Until the session ends, an answer the reducer would accept was computed *)
(* for the registration it completes: the retention window outlasts every  *)
(* provider, so a task id is never registered again under a late answer.   *)
THEOREM AnswersMeetTheirOwnTask == Spec => []AnswersAreNotRevived
<1>1. Init => AnswersMeetRecords
  BY DEF Init, AnswersMeetRecords
<1>2. TypeOK /\ TombstonesAreStamped /\ AnswersMeetRecords /\ [Next]_vars => AnswersMeetRecords'
  BY AnswersStep
<1>3. AnswersMeetRecords => AnswersAreNotRevived
  BY DEF AnswersMeetRecords, MeetsItsRecord, AnswersAreNotRevived
<1> QED
  BY <1>1, <1>2, <1>3, TypeCorrect, TombstonesStamped, PTL DEF Spec

-----------------------------------------------------------------------------
(* The lanes.                                                              *)

NamedIn(lane) == {lane[i].task : i \in DOMAIN lane}

LEMMA AppendNames ==
  ASSUME NEW S, NEW s \in Seq(S), NEW e \in S
  PROVE  NamedIn(Append(s, e)) = NamedIn(s) \cup {e.task}
<1>1. DOMAIN Append(s, e) = 1..(Len(s) + 1) /\ DOMAIN s = 1..Len(s) /\ Len(s) \in Nat
  OBVIOUS
<1>2. Append(s, e)[Len(s) + 1] = e /\ \A i \in 1..Len(s) : Append(s, e)[i] = s[i]
  OBVIOUS
<1>3. NamedIn(s) \cup {e.task} \subseteq NamedIn(Append(s, e))
  BY <1>1, <1>2 DEF NamedIn
<1>4. ASSUME NEW i \in DOMAIN Append(s, e)
      PROVE  Append(s, e)[i].task \in NamedIn(s) \cup {e.task}
  BY <1>1, <1>2 DEF NamedIn
<1> QED
  BY <1>3, <1>4 DEF NamedIn

LEMMA JoinedEntries ==
  ASSUME NEW S, NEW front \in Seq(S), NEW back \in Seq(S)
  PROVE  /\ DOMAIN (front \o back) = 1..(Len(front) + Len(back))
         /\ \A m \in 1..(Len(front) + Len(back)) :
              (front \o back)[m] = IF m <= Len(front) THEN front[m] ELSE back[m - Len(front)]
OBVIOUS

LEMMA RemoveAtNames ==
  ASSUME NEW S, NEW s \in Seq(S), NEW i \in DOMAIN s, NEW t \in NamedIn(s), t # s[i].task
  PROVE  t \in NamedIn(RemoveAt(s, i))
<1> DEFINE r == RemoveAt(s, i)
<1>1. PICK j \in DOMAIN s : s[j].task = t
  BY DEF NamedIn
<1>2. DOMAIN s = 1..Len(s) /\ Len(s) \in Nat /\ j # i
  BY <1>1
<1>3. DOMAIN r = 1..(Len(s) - 1)
      /\ (\A m \in 1..(Len(s) - 1) : r[m] = IF m < i THEN s[m] ELSE s[m + 1])
  <2> DEFINE front == SubSeq(s, 1, i - 1)
             back == SubSeq(s, i + 1, Len(s))
  <2>1. /\ front \in Seq(S) /\ Len(front) = i - 1
        /\ \A m \in 1..(i - 1) : front[m] = s[m]
    BY <1>2
  <2>2. /\ back \in Seq(S) /\ Len(back) = Len(s) - i
        /\ \A m \in 1..(Len(s) - i) : back[m] = s[i + m]
    BY <1>2
  <2>3. r = front \o back
    BY DEF RemoveAt
  <2> HIDE DEF front, back, r
  <2>4. /\ DOMAIN r = 1..(Len(front) + Len(back))
        /\ \A m \in 1..(Len(front) + Len(back)) :
             r[m] = IF m <= Len(front) THEN front[m] ELSE back[m - Len(front)]
    BY <2>1, <2>2, <2>3, JoinedEntries
  <2>5. Len(front) + Len(back) = Len(s) - 1 /\ i \in 1..Len(s)
    BY <1>2, <2>1, <2>2
  <2>6. ASSUME NEW m \in 1..(Len(s) - 1)
        PROVE  r[m] = IF m < i THEN s[m] ELSE s[m + 1]
    <3>1. CASE m < i
      <4>1. m \in 1..(i - 1) /\ m <= Len(front)
        BY <1>2, <2>1, <2>5, <3>1
      <4> QED
        BY <2>1, <2>4, <2>5, <3>1, <4>1
    <3>2. CASE ~ (m < i)
      <4>1. /\ m - Len(front) \in 1..(Len(s) - i)
            /\ i + (m - Len(front)) = m + 1
            /\ ~ (m <= Len(front))
        BY <1>2, <2>1, <2>5, <3>2
      <4>2. r[m] = back[m - Len(front)]
        BY <2>4, <2>5, <4>1
      <4> QED
        BY <2>2, <3>2, <4>1, <4>2
    <3> QED
      BY <3>1, <3>2
  <2> QED
    BY <2>4, <2>5, <2>6
<1>4. CASE j < i
  BY <1>1, <1>2, <1>3, <1>4 DEF NamedIn
<1>5. CASE j > i
  <2>1. j - 1 \in 1..(Len(s) - 1) /\ ~ (j - 1 < i) /\ (j - 1) + 1 = j
    BY <1>2, <1>5
  <2>2. r[j - 1] = s[j]
    BY <1>3, <2>1
  <2> QED
    BY <1>1, <1>3, <2>1, <2>2 DEF NamedIn
<1> QED
  BY <1>2, <1>4, <1>5

LEMMA PoppedNames ==
  ASSUME NEW S, NEW s \in Seq(S), NEW c \in 0..Len(s), NEW t \in NamedIn(s),
         t \notin {s[i].task : i \in 1..c}
  PROVE  t \in NamedIn(SubSeq(s, c + 1, Len(s)))
<1> DEFINE r == SubSeq(s, c + 1, Len(s))
<1>1. PICK j \in DOMAIN s : s[j].task = t
  BY DEF NamedIn
<1>2. Len(s) \in Nat /\ c \in Nat /\ c <= Len(s) /\ j \in 1..Len(s) /\ j > c
  BY <1>1
<1>3. DOMAIN r = 1..(Len(s) - c) /\ \A m \in 1..(Len(s) - c) : r[m] = s[c + m]
  BY <1>2
<1>4. j - c \in 1..(Len(s) - c) /\ c + (j - c) = j
  BY <1>2
<1> QED
  BY <1>1, <1>3, <1>4 DEF NamedIn

QueuedIsNamed ==
  \A t \in Tasks : records[t].state = "queued" => t \in NamedIn(lanes[Shape[t].kind])

\* A queued task that no pop names keeps its entry.
LEMMA PopKeepsName ==
  ASSUME TypeOK, QueuedIsNamed, NEW cut, PopLanes(cut), NEW t \in Tasks,
         \A k \in Kinds : cut[k] \in 0..Len(lanes[k]),
         records[t].state = "queued", t \notin Popped(cut)
  PROVE  t \in NamedIn(lanes'[Shape[t].kind])
<1> DEFINE k == Shape[t].kind
<1>1. k \in Kinds
  BY RegistryAssumption DEF TaskShape
<1>2. lanes[k] \in Seq(LaneEntry) /\ cut[k] \in 0..Len(lanes[k])
  BY <1>1 DEF TypeOK
<1>3. t \in NamedIn(lanes[k])
  BY DEF QueuedIsNamed
<1>4. t \notin {lanes[k][i].task : i \in 1..cut[k]}
  BY <1>1 DEF Popped
<1>5. lanes'[k] = SubSeq(lanes[k], cut[k] + 1, Len(lanes[k]))
  BY <1>1 DEF PopLanes
<1> QED
  BY <1>2, <1>3, <1>4, <1>5, PoppedNames

LEMMA NamedStep ==
  ASSUME TypeOK, QueuedIsNamed, [Next]_vars
  PROVE  QueuedIsNamed'
<1> SUFFICES ASSUME NEW t \in Tasks, records'[t].state = "queued"
             PROVE  t \in NamedIn(lanes'[Shape[t].kind])
  BY DEF QueuedIsNamed
<1>1. Shape[t].kind \in Kinds /\ records \in [Tasks -> Record]
  BY RegistryAssumption DEF TaskShape, TypeOK, RegistryTypeOK
<1>2. \A k \in Kinds : lanes[k] \in Seq(LaneEntry) /\ Len(lanes[k]) \in Nat
  BY DEF TypeOK
<1>3. "queued" \notin Terminal /\ "queued" # "running" /\ "queued" # "timed_out"
  BY DEF Terminal
<1>4. OnlyMovesOn(records, records') => records[t].state = "queued"
  BY <1>3 DEF OnlyMovesOn, MovedOn
<1>5. CASE OnlyMovesOn(records, records') /\ UNCHANGED lanes
  BY <1>4, <1>5 DEF QueuedIsNamed
<1>6. CASE \E u \in Tasks, turn \in Nat, rev \in Nat, captured \in DataSnapshot :
             ScheduleTask(u, turn, rev, captured)
  <2>1. PICK u \in Tasks, turn \in Nat, rev \in Nat, captured \in DataSnapshot :
             ScheduleTask(u, turn, rev, captured)
    BY <1>6
  <2> DEFINE e == [task |-> u, deadline |-> now + TaskTimeout]
             ku == Shape[u].kind
  <2>2. e \in LaneEntry /\ ku \in Kinds
    BY SessionAssumption, RegistryAssumption DEF LaneEntry, TypeOK, RegistryTypeOK, TaskShape
  <2>3. lanes' = [lanes EXCEPT ![ku] = Append(@, e)]
    BY <2>1 DEF ScheduleTask
  <2>4. NamedIn(Append(lanes[ku], e)) = NamedIn(lanes[ku]) \cup {u}
    BY <1>2, <2>2, AppendNames
  <2>5. lanes'[ku] = Append(lanes[ku], e)
        /\ \A k \in Kinds \ {ku} : lanes'[k] = lanes[k]
    BY <2>2, <2>3 DEF TypeOK
  <2>6. t = u \/ records[t].state = "queued"
    BY <2>1, ScheduleEffect, KeptRecords
  <2>7. t = u \/ t \in NamedIn(lanes[Shape[t].kind])
    BY <2>6 DEF QueuedIsNamed
  <2> QED
    BY <1>1, <2>4, <2>5, <2>7
<1>7. CASE RefuseTask
  BY <1>7, KeptRecords DEF RefuseTask, QueuedIsNamed
<1>8. CASE EndSession
  BY <1>8, EndEffect
<1>9. CASE \E u \in Tasks : ClaimTask(u)
  <2>1. PICK u \in Tasks : ClaimTask(u)
    BY <1>9
  <2> DEFINE k == Shape[u].kind
  <2>2. PICK i \in DOMAIN lanes[k] : /\ lanes[k][i].task = u
                                     /\ lanes' = [lanes EXCEPT ![k] = RemoveAt(@, i)]
    BY <2>1 DEF ClaimTask
  <2>3. k \in Kinds /\ records' = Claim(records, u)
    BY <2>1, RegistryAssumption DEF TaskShape, ClaimTask
  <2>4. t # u
    <3> SUFFICES ASSUME t = u PROVE FALSE
      OBVIOUS
    <3>1. records[t].state = "queued" => records'[t] = Stored(records[t], "running")
      BY <1>1, <2>3 DEF Claim, Move
    <3>2. Stored(records[t], "running").state = "running"
      BY <1>1, StoredType DEF Live
    <3>3. records[t].state # "queued" => records'[t] = records[t]
      BY <2>3 DEF Claim, Move
    <3> QED
      BY <1>3, <3>1, <3>2, <3>3
  <2>5. records[t].state = "queued"
    BY <1>1, <2>3, <2>4 DEF Claim, Move
  <2>6. t \in NamedIn(lanes[Shape[t].kind])
    BY <2>5 DEF QueuedIsNamed
  <2>7. CASE Shape[t].kind = k
    <3>1. t \in NamedIn(RemoveAt(lanes[k], i))
      BY <1>2, <2>2, <2>3, <2>4, <2>6, <2>7, RemoveAtNames
    <3>2. lanes'[k] = RemoveAt(lanes[k], i)
      BY <2>2, <2>3 DEF TypeOK
    <3> QED
      BY <2>7, <3>1, <3>2
  <2>8. CASE Shape[t].kind # k
    <3>1. lanes'[Shape[t].kind] = lanes[Shape[t].kind]
      BY <1>1, <2>2, <2>3, <2>8 DEF TypeOK
    <3> QED
      BY <2>6, <3>1
  <2> QED
    BY <2>7, <2>8
<1>10. CASE NextTask
  <2>1. PICK p \in DOMAIN Priority : \E i \in DOMAIN lanes[Priority[p]] : TakeEntry(p, i)
    BY <1>10 DEF NextTask
  <2>2. PICK i \in DOMAIN lanes[Priority[p]] : TakeEntry(p, i)
    BY <2>1
  <2> DEFINE u == lanes[Priority[p]][i].task
             cut == CutAt(p, i)
             dropped == Popped(cut) \ {u}
  <2>3. /\ Priority[p] \in Kinds /\ u \in Tasks /\ records[u].state = "queued"
        /\ i \in 1..Len(lanes[Priority[p]])
    BY <2>2, TakenTask
  <2>4. \A k \in Kinds : cut[k] \in 0..Len(lanes[k])
    BY <1>2, <2>3 DEF CutAt
  <2>5. /\ records'[u] = Stored(records[u], "running")
        /\ \A v \in Tasks \ {u} : records'[v] = TimeoutQueued(records, dropped)[v]
    BY <2>2, TakeEntryEffect
  <2>6. t # u
    BY <1>1, <1>3, <2>3, <2>5, StoredType DEF Live
  <2>7. records[t].state = "queued" /\ t \notin dropped
    <3>1. Stored(records[t], "timed_out").state = "timed_out"
      BY <1>1, StoredType DEF Terminal
    <3> QED
      BY <1>3, <2>5, <2>6, <3>1 DEF TimeoutQueued
  <2>8. PopLanes(cut)
    BY <2>2 DEF TakeEntry
  <2> QED
    BY <2>4, <2>6, <2>7, <2>8, PopKeepsName
<1>11. CASE NextFindsNothing
  <2> DEFINE cut == [k \in Kinds |-> Len(lanes[k])]
  <2>1. PopLanes(cut) /\ records' = TimeoutQueued(records, Popped(cut))
    BY <1>11 DEF NextFindsNothing
  <2>2. Stored(records[t], "timed_out").state = "timed_out"
    BY <1>1, StoredType DEF Terminal
  <2>3. records[t].state = "queued" /\ t \notin Popped(cut)
    BY <1>3, <2>1, <2>2 DEF TimeoutQueued
  <2>4. \A k \in Kinds : cut[k] \in 0..Len(lanes[k])
    BY <1>2
  <2> QED
    BY <2>1, <2>3, <2>4, PopKeepsName
<1>12. Submit \/ Execute \/ UNCHANGED lanes
  BY DEF Next, Reduce, CommitAnswer, RefuseLateAnswer, RefuseRevokedAnswer, Close, FailTask,
         TimeoutTask, CancelTask, SupersedeTask, CloseTask, Environment, AdmitTurn, ReflexTurn,
         ChangeMaterial, ChangeTrust, RevokeIdentity, AssignCapabilities, EndSession, Tick, vars
<1>13. CASE UNCHANGED lanes
  BY <1>5, <1>6, <1>7, <1>8, <1>13, StepMovesOn
<1>14. CASE Submit
  <2>1. CapturedData \subseteq DataSnapshot
    BY DEF CapturedData, DataSnapshot, TypeOK
  <2>2. 1..activeTurn \subseteq Nat /\ 1..revision \subseteq Nat
    BY DEF TypeOK
  <2> QED
    BY <1>6, <1>7, <1>14, <2>1, <2>2 DEF Submit
<1> QED
  BY <1>9, <1>10, <1>11, <1>12, <1>13, <1>14 DEF Execute

(* The executor can always find what is queued: no cancellation, expiry or *)
(* claim of another task takes a queued task's entry out of its lane.      *)
THEOREM QueuedTasksAreFound == Spec => []QueuedTaskHasEntry
<1>1. Init => QueuedIsNamed
  BY DEF Init, RegistryInit, QueuedIsNamed, Absent
<1>2. TypeOK /\ QueuedIsNamed /\ [Next]_vars => QueuedIsNamed'
  BY NamedStep
<1>3. QueuedIsNamed => QueuedTaskHasEntry
  BY DEF QueuedIsNamed, NamedIn, QueuedTaskHasEntry
<1> QED
  BY <1>1, <1>2, <1>3, TypeCorrect, PTL DEF Spec

-----------------------------------------------------------------------------
(* Refinement.                                                             *)

MappedPhase == [t \in Tasks |-> Phase(records[t].state)]
MappedStamp ==
  [t \in Tasks |-> IF records[t].state = "absent" THEN 0 ELSE records[t].epoch]

LEMMA CloseMaps ==
  ASSUME TypeOK, TypeOK', OnlyCloses(records, records'), UNCHANGED epoch
  PROVE  \E shut \in SUBSET Ledger!Opened : Ledger!Close(shut)
<1> DEFINE shut == {t \in Tasks : /\ Phase(records[t].state) = "open"
                                  /\ Phase(records'[t].state) = "closed"}
<1>1. shut \in SUBSET Ledger!Opened
  BY DEF Ledger!Opened
<1>2. MappedPhase' = [t \in Tasks |-> IF t \in shut THEN "closed" ELSE MappedPhase[t]]
  BY DEF OnlyCloses, MappedPhase
<1>3. MappedStamp' = MappedStamp
  <2>1. ASSUME NEW t \in Tasks
        PROVE  /\ records'[t].epoch = records[t].epoch
               /\ records'[t].state = "absent" <=> records[t].state = "absent"
    BY PhaseOf DEF OnlyCloses, TypeOK, RegistryTypeOK
  <2> QED
    BY <2>1 DEF MappedStamp
<1>4. Ledger!Close(shut)
  BY <1>2, <1>3 DEF Ledger!Close, MappedPhase, MappedStamp
<1> QED
  BY <1>1, <1>4

LEMMA ExpiredAreSettled ==
  ASSUME TypeOK, TombstonesAreStamped
  PROVE  ExpiredTombstones(records) \in SUBSET Ledger!Settled
<1> SUFFICES ASSUME NEW t \in ExpiredTombstones(records)
             PROVE  t \in Tasks /\ Phase(records[t].state) \in {"done", "closed"}
  BY DEF Ledger!Settled
<1>1. t \in Tasks /\ records[t].state \in Terminal
  BY DEF ExpiredTombstones, Present, TombstonesAreStamped
<1> QED
  BY <1>1, PhaseOf DEF TypeOK, RegistryTypeOK

LEMMA RefuseMaps ==
  ASSUME TypeOK, TombstonesAreStamped, RefuseTask
  PROVE  \E gone \in SUBSET Ledger!Settled : Ledger!ForgetSome(gone)
<1> DEFINE gone == ExpiredTombstones(records)
<1>1. gone \in SUBSET Ledger!Settled
  BY ExpiredAreSettled
<1>2. records' = [t \in Tasks |-> IF t \in gone THEN Absent ELSE records[t]]
  BY DEF RefuseTask, Kept, Forget
<1>3. Absent.state = "absent"
  BY DEF Absent
<1>4. Ledger!ForgetSome(gone)
  BY <1>2, <1>3, PhaseCases DEF Ledger!ForgetSome, RefuseTask, sessionVars
<1> QED
  BY <1>1, <1>4 DEF Ledger!ForgetSome

LEMMA ScheduleMaps ==
  ASSUME TypeOK, TombstonesAreStamped, NEW t \in Tasks, NEW turn \in Nat, NEW rev \in Nat,
         NEW captured \in DataSnapshot, ScheduleTask(t, turn, rev, captured)
  PROVE  \E gone \in SUBSET Ledger!Settled : Ledger!Open(t, gone)
<1> DEFINE gone == ExpiredTombstones(records)
<1>1. gone \in SUBSET Ledger!Settled
  BY ExpiredAreSettled
<1>2. Kept = [u \in Tasks |-> IF u \in gone THEN Absent ELSE records[u]]
  BY DEF Kept, Forget
<1>3. /\ records'[t].state = "queued" /\ records'[t].epoch = epoch
      /\ \A u \in Tasks \ {t} : records'[u] = Kept[u]
      /\ Kept[t].state = "absent"
      /\ UNCHANGED epoch
  BY ScheduleEffect
<1>4. Absent.state = "absent" /\ "queued" \in Live
  BY DEF Absent, Live
<1>5. MappedPhase[t] = "none" \/ t \in gone
  BY <1>2, <1>3, PhaseCases DEF MappedPhase
<1>6. MappedPhase' = [u \in Tasks |-> IF u = t THEN "open"
                                      ELSE IF u \in gone THEN "none" ELSE MappedPhase[u]]
  BY <1>2, <1>3, <1>4, PhaseCases DEF MappedPhase
<1>7. MappedStamp' = [u \in Tasks |-> IF u = t THEN epoch
                                      ELSE IF u \in gone THEN 0 ELSE MappedStamp[u]]
  BY <1>2, <1>3, <1>4 DEF MappedStamp
<1>8. Ledger!Open(t, gone)
  BY <1>3, <1>5, <1>6, <1>7 DEF Ledger!Open, MappedPhase, MappedStamp
<1> QED
  BY <1>1, <1>8 DEF Ledger!Open

LEMMA CommitMaps ==
  ASSUME TypeOK, LiveWorkIsOfThisEpoch, NEW a \in answers, CommitAnswer(a)
  PROVE  \E some, shut \in SUBSET Ledger!Opened : Ledger!TakeEffect(some, shut)
<1>1. /\ a.task \in Tasks /\ records[a.task].state = "running"
      /\ records' = [records EXCEPT ![a.task] = Stored(records[a.task], "succeeded")]
      /\ records'[a.task].state = "succeeded"
      /\ records'[a.task].epoch = records[a.task].epoch
      /\ UNCHANGED epoch
  BY CommitEffect
<1>2. "running" \in Live
  BY DEF Live
<1>3. MappedPhase[a.task] = "open" /\ MappedStamp[a.task] = epoch
  BY <1>1, <1>2, PhaseCases DEF MappedPhase, MappedStamp, LiveWorkIsOfThisEpoch
<1>4. \A u \in Tasks \ {a.task} : records'[u] = records[u]
  BY <1>1 DEF TypeOK, RegistryTypeOK
<1>5. MappedPhase' = [u \in Tasks |-> IF u \in {a.task} THEN "done" ELSE MappedPhase[u]]
  <2>1. MappedPhase'[a.task] = "done"
    BY <1>1, PhaseCases DEF MappedPhase
  <2>2. \A u \in Tasks \ {a.task} : MappedPhase'[u] = MappedPhase[u]
    BY <1>4 DEF MappedPhase
  <2> QED
    BY <1>1, <2>1, <2>2 DEF MappedPhase
<1>6. MappedStamp' = MappedStamp
  BY <1>1, <1>4 DEF MappedStamp
<1>7. {a.task} \in SUBSET Ledger!Opened /\ {} \in SUBSET Ledger!Opened
  BY <1>1, <1>3 DEF Ledger!Opened, MappedPhase
<1>8. Ledger!TakeEffect({a.task}, {})
  BY <1>1, <1>3, <1>5, <1>6 DEF Ledger!TakeEffect, MappedPhase, MappedStamp
<1> QED
  BY <1>7, <1>8

LEMMA AdmitMaps ==
  ASSUME TypeOK, AdmitTurn
  PROVE  \E new \in SUBSET Ledger!Unopened : Ledger!RaiseFence(new)
<1>1. TypeOK' /\ records \in [Tasks -> Record]
  BY NextType DEF Next, Environment, TypeOK, RegistryTypeOK
<1>2. OnlyCloses(records, records') /\ \A t \in Tasks : Phase(records'[t].state) # "open"
  BY <1>1, CancelPendingCloses DEF AdmitTurn
<1>3. ASSUME NEW t \in Tasks
      PROVE  /\ records'[t].epoch = records[t].epoch
             /\ records'[t].state = "absent" <=> records[t].state = "absent"
  BY <1>1, <1>2, PhaseOf DEF OnlyCloses, TypeOK, RegistryTypeOK
<1>4. MappedStamp' = MappedStamp
  BY <1>3 DEF MappedStamp
<1>5. MappedPhase' = [t \in Tasks |-> IF t \in {} THEN "open"
                                      ELSE IF MappedPhase[t] = "open" THEN "closed"
                                      ELSE MappedPhase[t]]
  BY <1>2 DEF OnlyCloses, MappedPhase
<1>6. epoch' = epoch + 1
  BY DEF AdmitTurn
<1>7. MappedStamp = [t \in Tasks |-> IF t \in {} THEN epoch' ELSE MappedStamp[t]]
  BY DEF MappedStamp
<1>8. Ledger!RaiseFence({})
  BY <1>4, <1>5, <1>6, <1>7 DEF Ledger!RaiseFence, MappedPhase, MappedStamp
<1> QED
  BY <1>8

LEMMA EndMaps ==
  ASSUME TypeOK, EndSession
  PROVE  Ledger!ForgetAll
BY EndEffect, PhaseCases DEF Ledger!ForgetAll

(* Every behaviour of the session is one of the ledger: a task takes       *)
(* effect at most once, never after it was closed, and only under the      *)
(* fence it was opened with.                                               *)
THEOREM Refinement == Spec => ImplementsLedger
<1>1. Init => Ledger!LedgerInit
  BY PhaseCases DEF Init, RegistryInit, Absent, Ledger!LedgerInit
<1>2. ASSUME TypeOK, LiveWorkIsOfThisEpoch, TombstonesAreStamped, [Next]_vars
      PROVE  [Ledger!LedgerNext]_(Ledger!ledgerVars)
  <2>1. TypeOK'
    BY <1>2, NextType
  <2>2. CASE OnlyCloses(records, records') /\ UNCHANGED epoch
    BY <1>2, <2>1, <2>2, CloseMaps DEF Ledger!LedgerNext
  <2>3. CASE \E t \in Tasks, turn \in Nat, rev \in Nat, captured \in DataSnapshot :
               ScheduleTask(t, turn, rev, captured)
    BY <1>2, <2>3, ScheduleMaps DEF Ledger!LedgerNext
  <2>4. CASE RefuseTask
    BY <1>2, <2>4, RefuseMaps DEF Ledger!LedgerNext
  <2>5. CASE \E a \in answers : CommitAnswer(a)
    BY <1>2, <2>5, CommitMaps, CommitEffect DEF Ledger!LedgerNext
  <2>6. CASE AdmitTurn
    BY <1>2, <2>6, AdmitMaps DEF Ledger!LedgerNext
  <2>7. CASE EndSession
    BY <1>2, <2>7, EndMaps DEF Ledger!LedgerNext
  <2> QED
    BY <1>2, <2>2, <2>3, <2>4, <2>5, <2>6, <2>7, StepKinds
<1> QED
  BY <1>1, <1>2, TypeCorrect, LiveWorkFenced, TombstonesStamped, PTL
     DEF Spec, ImplementsLedger, Ledger!LedgerSpec
=============================================================================
