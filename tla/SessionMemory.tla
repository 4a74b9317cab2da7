--------------------------- MODULE SessionMemory ---------------------------
(***************************************************************************)
(* What a session remembers: the transient context of its turns            *)
(* (transient_context.py) and its durable memory (memory.py,               *)
(* memory_store.py), together with the work that writes them: the replies  *)
(* of a turn, the operation between them, and the maintenance after them   *)
(* (scheduler_runtime.py, _accept_brain_response to _run_memory_extraction).*)
(*                                                                         *)
(* A turn's work is a set of tasks, each with a coroutine that awaits its  *)
(* provider.  A task is closed without its coroutine, and a coroutine may  *)
(* end without closing its task; awaited tells them apart.  Texts are      *)
(* reduced to their size, in the budget's unit of UTF-8 bytes.             *)
(***************************************************************************)
EXTENDS Naturals, FiniteSets, SequencesExt

CONSTANTS
  Keys, Values, Confidences, \* of memory candidates
  Capacity,    \* MAX_MEMORY_ENTRIES
  Sizes,       \* of an input, a reply or an observation
  Budget,      \* of the Brain's context
  MaxSummary,  \* MAX_CONTEXT_SUMMARY_CHARS
  MaxTurn, MaxIdentity, MaxRevision, \* bounds
  Faults,      \* what may go wrong
  NoEntry, NoFile, NoTask, NoSource

ASSUME SessionMemoryAssumption ==
  /\ Confidences \subseteq Nat /\ Sizes \subseteq Nat
  /\ {Capacity, Budget, MaxSummary, MaxTurn, MaxIdentity, MaxRevision} \subseteq Nat
  /\ Budget > 0
  /\ Faults \subseteq {"refused",  \* memory.md cannot be written
                       "unlink",   \* the session's files cannot be removed
                       "crash"}    \* the process stops right after the write

VARIABLES
  up,       \* the session has a runtime
  ended,    \* _ended
  turn,     \* the active turn
  phase,    \* is its coordinator still reasoning?
  followUp, \* where the coroutine of its operation is
  observed, \* the operation succeeded
  tasks,    \* the work of the turn
  memory,   \* MutableMemory
  disk,     \* memory.md
  context,  \* TransientContext
  identity, \* profile and consent revision
  accepted  \* every text that was ever accepted into this context

storeVars == <<memory, disk>>
turnVars  == <<turn, phase, followUp, observed>>
lifeVars  == <<up, ended>>
vars == <<lifeVars, turnVars, tasks, storeVars, context, identity, accepted>>

Name == [turn : 1..MaxTurn, segment : {1, 2}, kind : {"input", "output", "observation"}]
Item == [name : Name, size : Sizes]
Entry == [value : Values, confidence : Confidences]
Memory == [revision : 0..MaxRevision, entries : [Keys -> Entry \cup {NoEntry}]]
Context == [generation : Nat, items : Seq(Item), covered : SUBSET Name, summary : 0..MaxSummary]
Data == [memory : 0..MaxRevision, context : Nat, identity : 0..MaxIdentity]

Speeches == {"first", "second"}
Kinds == Speeches \cup {"tool", "final", "extract", "compact"}
Task == [state : {"running", "succeeded", "failed", "cancelled", "timed_out"},
         awaited : BOOLEAN, data : Data, source : Context \cup {NoSource}]

ASSUME NothingAssumption == NoFile \notin Memory /\ NoTask \notin Task

EmptyMemory  == [revision |-> 0, entries |-> [k \in Keys |-> NoEntry]]
EmptyContext == [generation |-> 0, items |-> <<>>, covered |-> {}, summary |-> 0]
Idle == [k \in Kinds |-> NoTask]

-----------------------------------------------------------------------------
\* The context (transient_context.py).

Names(items)  == {items[i].name : i \in DOMAIN items}
Tokens(items) == FoldLeft(LAMBDA n, item : n + item.size, 0, items)

OverBudget(c) == Tokens(c.items) + c.summary > Budget

\* An old summary takes at most half of the budget.
Heading(c) == IF c.summary <= Budget \div 2 THEN c.summary ELSE Budget \div 2

\* Broken: the room for raw text is that of a context without a summary.
RoomBesideNothing(c) == Budget - 1

Room(c) == (Budget - Heading(c)) - 1

\* From the newest to the oldest, whatever still has room; an item that has
\* none does not keep out an older and smaller one.
Retained(c) ==
  FoldLeft(LAMBDA acc, i :
             IF c.items[i].size <= acc.room
               THEN [kept |-> acc.kept \cup {i}, room |-> acc.room - c.items[i].size]
               ELSE acc,
           [kept |-> {}, room |-> Room(c)],
           Reverse([i \in 1..Len(c.items) |-> i])).kept

\* The items at these indexes, in their order.
Pick(items, indexes) ==
  LET at(n) == CHOOSE i \in indexes : Cardinality({j \in indexes : j <= i}) = n
  IN  [n \in 1..Cardinality(indexes) |-> items[at(n)]]

\* What the Brain is shown of a context, compose_context.
PromptItems(c) ==
  IF OverBudget(c) THEN Pick(c.items, Retained(c) \cap DOMAIN c.items) ELSE c.items
PromptSize(c)  == IF OverBudget(c) THEN Tokens(PromptItems(c)) + Heading(c) + 1
                                   ELSE Tokens(c.items) + c.summary

With(c, items) ==
  [generation |-> c.generation + Len(items), items |-> c.items \o items,
   covered |-> c.covered, summary |-> c.summary]

\* Broken: what is summarised is what comes before the first item kept.
CompactedPrefix(c, size) ==
  LET first == CHOOSE i \in 1..Len(c.items) + 1 :
                 /\ Retained(c) \subseteq i..Len(c.items)
                 /\ \A j \in Retained(c) : i <= j
                 /\ Retained(c) # {} => i \in Retained(c)
                 /\ Retained(c) = {} => i = Len(c.items) + 1
  IN  [generation |-> c.generation + 1, items |-> PromptItems(c),
       covered |-> c.covered \cup Names(SubSeq(c.items, 1, first - 1)), summary |-> size]

\* The summary stands for the old one and for all that is not retained.
Compacted(c, size) ==
  [generation |-> c.generation + 1, items |-> PromptItems(c),
   covered |-> c.covered \cup (Names(c.items) \ Names(PromptItems(c))), summary |-> size]

-----------------------------------------------------------------------------
\* Tasks (task_registry.py, as far as they matter here).

DataOf(c) == [memory |-> memory.revision, context |-> c.generation, identity |-> identity]

Launched(c, source) ==
  [state |-> "running", awaited |-> TRUE, data |-> DataOf(c), source |-> source]

\* data_is_current: a validated speech reads neither memory nor context.
DataIsCurrent(k) ==
  IF k \in Speeches THEN tasks[k].data.identity = identity
                    ELSE tasks[k].data = DataOf(context)

Accepts(k)  == tasks[k].state = "running" /\ DataIsCurrent(k)
Awaited(k)  == tasks[k] # NoTask /\ tasks[k].awaited

\* The task's coroutine ends with the task in state s; only a running task moves.
Left(t)       == [t EXCEPT !.awaited = FALSE, !.source = NoSource]
Closed(t, s)  == [Left(t) EXCEPT !.state = IF @ = "running" THEN s ELSE @]
Cancelled(t)  == IF t = NoTask THEN t
                 ELSE [t EXCEPT !.state = IF @ = "running" THEN "cancelled" ELSE @]

-----------------------------------------------------------------------------
\* The replies of a turn.

Texts(segment, text, success, size) ==
  LET item(kind) == <<[name |-> [turn |-> turn', segment |-> segment, kind |-> kind],
                       size |-> size]>>
  IN  (IF segment = 1 THEN item("input") ELSE <<>>)
        \o (IF success THEN item("observation") ELSE <<>>)
        \o (IF text = "spoken" THEN item("output") ELSE <<>>)

\* _apply_coordinated_response.  The texts are committed before the speech is
\* scheduled.  A terminal reply is followed by maintenance, if it is silent or
\* its speech was admitted; memory is extracted only from a turn without an
\* operation, and a context is compacted only when it is over its budget.
Apply(base, segment, text, success, terminal) ==
  IF text = "rejected"
    THEN /\ tasks' = base /\ phase' = "left"
         /\ UNCHANGED <<context, accepted>>
    ELSE \E size \in Sizes, admitted \in SUBSET (Kinds \ {"tool", "final"}) :
      LET c == With(context, Texts(segment, text, success, size))
          speech == IF segment = 1 THEN "first" ELSE "second"
          maintained == terminal /\ (text = "silent" \/ speech \in admitted)
          starts ==
            {k \in admitted :
               \/ k = speech /\ text = "spoken"
               \/ k = "extract" /\ maintained /\ segment = 1
               \/ k = "compact" /\ maintained /\ OverBudget(c)}
      IN  /\ admitted = starts
          /\ tasks' = [k \in Kinds |->
                         IF k \in starts
                           THEN Launched(c, IF k = "compact" THEN c ELSE NoSource)
                           ELSE base[k]]
          /\ context' = c
          /\ accepted' = accepted \cup (Names(c.items) \ Names(context.items))
          /\ phase' = IF text = "spoken" \/ terminal THEN "left" ELSE "reasoning"

\* An accepted input begins a turn, which cancels the tasks of the last one and
\* their coroutines, and its first reply is applied at once.
Reply(text, asks) ==
  /\ up /\ ~ended /\ turn < MaxTurn
  /\ turn' = turn + 1
  /\ Apply(Idle, 1, text, FALSE, ~asks)
  /\ followUp' = IF asks THEN "starting" ELSE "none"
  /\ observed' = FALSE
  /\ UNCHANGED <<lifeVars, storeVars, identity>>

\* Broken: the coroutine of an operation ends and leaves its tasks as they are.
LeaveFollowUp(base) ==
  /\ tasks' = [k \in Kinds |-> IF k \in {"tool", "final"} /\ base[k] # NoTask
                                 THEN Left(base[k]) ELSE base[k]]
  /\ followUp' = "none"
  /\ UNCHANGED phase

\* _run_operation_followup, finally: what it left running is failed, and so is
\* the turn if it is reasoning still.
EndFollowUp(base) ==
  /\ tasks' = [k \in Kinds |-> IF k \in {"tool", "final"} /\ base[k] # NoTask
                                 THEN Closed(base[k], "failed") ELSE base[k]]
  /\ followUp' = "none"
  /\ phase' = "left"

LaunchFinal(base) ==
  \/ /\ tasks' = [base EXCEPT !["final"] = Launched(context, NoSource)]
     /\ followUp' = "final"
     /\ UNCHANGED phase
  \/ EndFollowUp(base)

StartTool ==
  /\ followUp = "starting"
  /\ \/ /\ tasks' = [tasks EXCEPT !["tool"] = Launched(context, NoSource)]
        /\ followUp' = "tool"
        /\ UNCHANGED phase
     \/ LaunchFinal(tasks)
  /\ UNCHANGED <<lifeVars, turn, observed, storeVars, context, identity, accepted>>

\* The tool succeeds or fails, takes too long, or outlives its turn's envelope.
\* The final reply is asked for when the result is accepted, and also when the
\* tool timed out.
AnswerTool(outcome) ==
  /\ followUp = "tool"
  /\ LET t == IF outcome = "late" THEN Closed(tasks["tool"], "timed_out") ELSE Left(tasks["tool"])
         base == [tasks EXCEPT !["tool"] = t]
     IN  IF outcome = "outlived"
           THEN EndFollowUp(tasks)
         ELSE IF Accepts("tool") /\ outcome # "late"
           THEN LaunchFinal([tasks EXCEPT !["tool"] = Closed(@, "succeeded")])
         ELSE IF t.state = "timed_out"
           THEN LaunchFinal(base)
         ELSE EndFollowUp(base)
  /\ observed' = (outcome = "success")
  /\ UNCHANGED <<lifeVars, turn, storeVars, context, identity, accepted>>

\* The final reply; "none" if the Brain failed, declined or was late.
AnswerFinal(text) ==
  /\ followUp = "final"
  /\ UNCHANGED turn
  /\ IF text # "none" /\ Accepts("final")
       THEN /\ Apply([tasks EXCEPT !["final"] = Closed(@, "succeeded")],
                     2, text, observed, TRUE)
            /\ followUp' = "none"
       ELSE /\ EndFollowUp(tasks)
            /\ UNCHANGED <<context, accepted>>
  /\ UNCHANGED <<lifeVars, observed, storeVars, identity>>

FinishSpeech(k, succeeds) ==
  /\ Awaited(k)
  /\ tasks' = [tasks EXCEPT ![k] =
       IF ~succeeds THEN Closed(@, "failed")
       ELSE IF Accepts(k) THEN Closed(@, "succeeded") ELSE Left(@)]
  /\ UNCHANGED <<lifeVars, turnVars, storeVars, context, identity, accepted>>

-----------------------------------------------------------------------------
\* Maintenance.

Known == {k \in Keys : memory.entries[k] # NoEntry}

\* MutableMemory.validate; the proposal is based on the revision of its task.
Valid(key, entry) ==
  /\ tasks["extract"].data.memory = memory.revision
  /\ Cardinality(Known \cup {key}) <= Capacity
  /\ key \in Known /\ memory.entries[key].value # entry.value =>
       entry.confidence > memory.entries[key].confidence

Extended(key, entry) == [revision |-> memory.revision + 1,
                         entries  |-> [memory.entries EXCEPT ![key] = entry]]

\* Broken: memory moves before the file is written.
SwapThenSave(new) ==
  /\ memory' = new
  /\ \/ disk' = new /\ tasks' = [tasks EXCEPT !["extract"] = Closed(@, "succeeded")]
     \/ /\ "refused" \in Faults /\ UNCHANGED disk
        /\ tasks' = [tasks EXCEPT !["extract"] = Closed(@, "failed")]

\* reduce_memory: a staged copy is written, and then takes memory's place.
SaveThenSwap(new) ==
  \/ /\ disk' = new /\ memory' = new
     /\ tasks' = [tasks EXCEPT !["extract"] = Closed(@, "succeeded")]
  \/ /\ "refused" \in Faults
     /\ tasks' = [tasks EXCEPT !["extract"] = Closed(@, "failed")]
     /\ UNCHANGED storeVars

\* A refused result is not failed: the task is left as it is.
AnswerExtraction(key, entry) ==
  /\ Awaited("extract")
  /\ IF ~Valid(key, entry)
       THEN /\ tasks' = [tasks EXCEPT !["extract"] = Closed(@, "failed")]
            /\ UNCHANGED storeVars
     ELSE IF Accepts("extract")
       THEN memory.revision < MaxRevision /\ SaveThenSwap(Extended(key, entry))
       ELSE tasks' = [tasks EXCEPT !["extract"] = Left(@)] /\ UNCHANGED storeVars
  /\ UNCHANGED <<lifeVars, turnVars, context, identity, accepted>>

MayReplace(size) == tasks["compact"].source = context /\ size <= MaxSummary

\* TransientContext.compact; a summary that is too long is dropped, and its
\* task has succeeded nevertheless.
AnswerCompaction(size) ==
  /\ Awaited("compact")
  /\ IF Accepts("compact")
       THEN /\ tasks' = [tasks EXCEPT !["compact"] = Closed(@, "succeeded")]
            /\ context' = IF MayReplace(size) THEN Compacted(context, size) ELSE context
       ELSE /\ tasks' = [tasks EXCEPT !["compact"] = Left(@)]
            /\ UNCHANGED context
  /\ UNCHANGED <<lifeVars, turnVars, storeVars, identity, accepted>>

\* The provider fails, takes more than ten seconds, or has nothing to propose.
FailMaintenance(k) ==
  /\ Awaited(k)
  /\ tasks' = [tasks EXCEPT ![k] = Closed(@, "failed")]
  /\ UNCHANGED <<lifeVars, turnVars, storeVars, context, identity, accepted>>

-----------------------------------------------------------------------------
\* The rest of the session.

\* An enrolment moves the revisions and tells no task.
Enroll ==
  /\ up /\ identity < MaxIdentity
  /\ identity' = identity + 1
  /\ UNCHANGED <<lifeVars, turnVars, tasks, storeVars, context, accepted>>

\* A revocation closes every task, and leaves the coroutines waiting.
Revoke ==
  /\ up /\ identity < MaxIdentity
  /\ identity' = identity + 1
  /\ tasks' = [k \in Kinds |-> Cancelled(tasks[k])]
  /\ UNCHANGED <<lifeVars, turnVars, storeVars, context, accepted>>

\* end_session
End ==
  /\ up /\ ~ended /\ memory.revision < MaxRevision
  /\ ended' = TRUE
  /\ tasks' = Idle /\ followUp' = "none" /\ phase' = "left"
  /\ memory' = [EmptyMemory EXCEPT !.revision = memory.revision + 1]
  /\ context' = [EmptyContext EXCEPT !.generation = context.generation + 1]
  /\ accepted' = {}
  /\ \/ disk' = NoFile
     \/ "unlink" \in Faults /\ UNCHANGED disk
  /\ UNCHANGED <<up, turn, observed, identity>>

Down == /\ up' = FALSE /\ ended' = FALSE
        /\ tasks' = Idle /\ followUp' = "none" /\ phase' = "left" /\ observed' = FALSE
        /\ memory' = EmptyMemory /\ context' = EmptyContext /\ accepted' = {}

\* The process stops, or the runtime that ended is dropped.
Stop == up /\ Down /\ UNCHANGED <<turn, disk, identity>>

\* The process stops when memory.md is written and memory has not moved.
CrashInCommit(key, entry) ==
  /\ "crash" \in Faults
  /\ Awaited("extract") /\ Valid(key, entry) /\ Accepts("extract")
  /\ memory.revision < MaxRevision
  /\ disk' = Extended(key, entry)
  /\ Down /\ UNCHANGED <<turn, identity>>

Load == IF disk = NoFile THEN EmptyMemory ELSE disk

Start ==
  /\ ~up /\ up' = TRUE
  /\ memory' = Load
  /\ UNCHANGED <<ended, turnVars, tasks, disk, context, identity, accepted>>

Init ==
  /\ up = FALSE /\ ended = FALSE
  /\ turn = 0 /\ phase = "left" /\ followUp = "none" /\ observed = FALSE
  /\ tasks = Idle /\ memory = EmptyMemory /\ disk = NoFile
  /\ context = EmptyContext /\ identity = 0 /\ accepted = {}

Operation ==
  \/ StartTool
  \/ \E outcome \in {"success", "failure", "late", "outlived"} : AnswerTool(outcome)
  \/ \E text \in {"silent", "spoken", "rejected", "none"} : AnswerFinal(text)

Speaking == \E k \in Speeches, succeeds \in BOOLEAN : FinishSpeech(k, succeeds)

Extraction ==
  \/ \E key \in Keys, entry \in Entry : AnswerExtraction(key, entry)
  \/ FailMaintenance("extract")

Compaction ==
  \/ \E size \in 1..MaxSummary + 1 : AnswerCompaction(size)
  \/ FailMaintenance("compact")

Next ==
  \/ \E text \in {"silent", "spoken", "rejected"}, asks \in BOOLEAN : Reply(text, asks)
  \/ Operation \/ Speaking \/ Extraction \/ Compaction
  \/ Enroll \/ Revoke \/ End \/ Stop \/ Start
  \/ \E key \in Keys, entry \in Entry : CrashInCommit(key, entry)

Spec == Init /\ [][Next]_vars

\* Every provider is awaited with a timeout, so each coroutine goes on.
FairSpec == /\ Spec /\ WF_vars(Operation) /\ WF_vars(Speaking)
            /\ WF_vars(Extraction) /\ WF_vars(Compaction)

-----------------------------------------------------------------------------
\* Every variable keeps to its shape.
TypeOK ==
  /\ up \in BOOLEAN /\ ended \in BOOLEAN /\ observed \in BOOLEAN
  /\ turn \in 0..MaxTurn /\ phase \in {"reasoning", "left"}
  /\ followUp \in {"none", "starting", "tool", "final"}
  /\ tasks \in [Kinds -> Task \cup {NoTask}]
  /\ memory \in Memory /\ disk \in Memory \cup {NoFile}
  /\ context \in Context /\ identity \in 0..MaxIdentity /\ accepted \subseteq Name

\* What the session remembers is what it would load: a failed write or a stop
\* at any moment neither loses a memory it has nor leaves one it has not
\* (reduce_memory, MarkdownMemoryStore.save).
MemoryIsDurable == up /\ ~ended => memory = Load

\* Every text accepted into the context is still there, raw or summarised,
\* whatever the order in which replies and summaries came (consider, compact).
NothingForgotten == accepted = Names(context.items) \cup context.covered

\* The Brain is never shown more than its budget, whether or not the summary
\* of an oversized context ever came (compose_context).
PromptFitsBudget == PromptSize(context) <= Budget

\* The operation of a turn is never left open by a coroutine that has ended:
\* its tasks run, and its turn reasons, only as long as somebody is going to
\* close them, also when a result was refused because an enrolment moved the
\* revisions (_run_operation_followup).
OpenOperationIsOwned ==
  /\ phase = "reasoning" => followUp # "none"
  /\ \A k \in {"tool", "final"} :
       tasks[k] # NoTask /\ tasks[k].state = "running" => tasks[k].awaited /\ followUp = k

\* The work of a session comes to an end when nobody speaks any more
\* (has_active_work, without which an idle session is not reclaimed).
WorkComesToAnEnd ==
  <>[](\A k \in Kinds : tasks[k] # NoTask => tasks[k].state # "running")
=============================================================================
