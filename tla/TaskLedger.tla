----------------------------- MODULE TaskLedger -----------------------------
(***************************************************************************)
(* What the task lifecycle of a session promises, without lanes, clocks,   *)
(* snapshots or providers: every task is opened under a fence, an open     *)
(* task takes effect at most once and only while its fence is the present  *)
(* one, and raising the fence closes whatever is still open in the same    *)
(* step.  SessionTasks implements it.                                      *)
(***************************************************************************)
EXTENDS Naturals

CONSTANT Tasks

VARIABLES
  phase,  \* "none", "open", "done" (took effect) or "closed" (never will)
  stamp,  \* the fence a task was opened under; 0 when it is not there
  fence

ledgerVars == <<phase, stamp, fence>>

Settled == {t \in Tasks : phase[t] \in {"done", "closed"}}
Opened  == {t \in Tasks : phase[t] = "open"}
Unopened == {t \in Tasks : phase[t] = "none"}

LedgerInit ==
  /\ phase = [t \in Tasks |-> "none"]
  /\ stamp = [t \in Tasks |-> 0]
  /\ fence = 0

ForgetSome(gone) ==
  /\ phase' = [t \in Tasks |-> IF t \in gone THEN "none" ELSE phase[t]]
  /\ stamp' = [t \in Tasks |-> IF t \in gone THEN 0 ELSE stamp[t]]
  /\ UNCHANGED fence

\* A task may be opened in the step that forgets it and others.
Open(t, gone) ==
  /\ phase[t] = "none" \/ t \in gone
  /\ phase' = [u \in Tasks |-> IF u = t THEN "open"
                               ELSE IF u \in gone THEN "none" ELSE phase[u]]
  /\ stamp' = [u \in Tasks |-> IF u = t THEN fence
                               ELSE IF u \in gone THEN 0 ELSE stamp[u]]
  /\ UNCHANGED fence

\* Other tasks may be closed in the step in which some take effect.
TakeEffect(some, shut) ==
  /\ \A t \in some : stamp[t] = fence
  /\ phase' = [t \in Tasks |-> IF t \in some THEN "done"
                               ELSE IF t \in shut THEN "closed" ELSE phase[t]]
  /\ UNCHANGED <<stamp, fence>>

Close(shut) ==
  /\ phase' = [t \in Tasks |-> IF t \in shut THEN "closed" ELSE phase[t]]
  /\ UNCHANGED <<stamp, fence>>

\* Tasks may be opened in the step that raises the fence, under the new one.
RaiseFence(new) ==
  /\ fence' = fence + 1
  /\ phase' = [t \in Tasks |-> IF t \in new THEN "open"
                               ELSE IF phase[t] = "open" THEN "closed" ELSE phase[t]]
  /\ stamp' = [t \in Tasks |-> IF t \in new THEN fence' ELSE stamp[t]]

ForgetAll ==
  /\ phase' = [t \in Tasks |-> "none"]
  /\ stamp' = [t \in Tasks |-> 0]
  /\ UNCHANGED fence

LedgerNext ==
  \/ \E shut \in SUBSET Opened : Close(shut)
  \/ \E some, shut \in SUBSET Opened : TakeEffect(some, shut)
  \/ \E new \in SUBSET Unopened : RaiseFence(new)
  \/ \E t \in Tasks, gone \in SUBSET Settled : Open(t, gone)
  \/ \E gone \in SUBSET Settled : ForgetSome(gone)
  \/ ForgetAll

LedgerSpec == LedgerInit /\ [][LedgerNext]_ledgerVars
=============================================================================
