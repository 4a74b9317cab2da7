------------------------- MODULE AudienceAdmission -------------------------
(***************************************************************************)
(* How utterances and comments become turns (scheduler_runtime.py,         *)
(* _brain_and_enqueue_audience to end_session): one bounded queue with     *)
(* voices before comments, one worker coroutine that asks the Brain about  *)
(* one candidate at a time, and the end of the session.                    *)
(*                                                                         *)
(* The lock around the queue is never held across an await, so acquiring   *)
(* it never suspends.  What does suspend is the worker while the candidate *)
(* task retrieves knowledge and calls the Brain, and then once more        *)
(* between the end of that task and the worker's next turn on the loop.    *)
(***************************************************************************)
EXTENDS Naturals, SequencesExt

CONSTANTS
  Requests,     \* the inputs received, repetitions included
  Correlations, \* EventCorrelation
  Source,       \* of each request: voice or comment
  Correlation,  \* of each request
  Capacity,     \* _AUDIENCE_QUEUE_CAPACITY
  NoRequest

ASSUME AdmissionAssumption ==
  /\ Source \in [Requests -> {"voice", "comment"}]
  /\ Correlation \in [Requests -> Correlations]
  /\ NoRequest \notin Requests
  /\ Capacity \in Nat \ {0}

VARIABLES
  voices, comments, \* _voice_admissions, _comment_admissions
  pending,          \* _pending_correlations
  admitted,         \* _correlations
  result,           \* what each caller has been told, the reason left out
  worker,           \* where the worker coroutine is suspended
  current,          \* the candidate it evaluates
  moved,            \* has the revision left the one in its Brain snapshot?
  verdict,          \* what its candidate task came to
  valid,            \* the requests for which admission_valid() holds
  ended             \* SessionRuntime._ended

queueVars == <<voices, comments, pending>>
workVars  == <<worker, current, moved, verdict>>
vars == <<queueVars, workVars, admitted, result, valid, ended>>

Waiting == {r \in Requests : result[r] = "waiting"}
Queued  == ToSet(voices) \cup ToSet(comments)

\* `pending.result.set_result`, for every future that is not done yet
Told(S, what) == [r \in Requests |-> IF r \in S /\ result[r] = "waiting" THEN what ELSE result[r]]

-----------------------------------------------------------------------------
(* _brain_and_enqueue_audience                                             *)

Duplicate(r) == Correlation[r] \in admitted \cup pending

Full == Len(voices) + Len(comments) >= Capacity

\* An ASR final may be of one letter, or an echo of what is being said.
Reject(r) ==
  /\ result[r] = "unsent"
  /\ \/ ended
     \/ Duplicate(r)
     \/ Source[r] = "voice"
     \/ Full /\ (Source[r] = "comment" \/ comments = << >>)
  /\ result' = [result EXCEPT ![r] = "rejected"]
  /\ UNCHANGED <<queueVars, workVars, admitted, valid, ended>>

Received(r) == result[r] = "unsent" /\ ~ ended /\ ~ Duplicate(r)

StartWorker == IF worker = "none" THEN "started" ELSE worker

Enqueue(r) ==
  /\ Received(r)
  /\ ~ Full
  /\ IF Source[r] = "voice"
     THEN voices' = Append(voices, r) /\ UNCHANGED comments
     ELSE comments' = Append(comments, r) /\ UNCHANGED voices
  /\ pending' = pending \cup {Correlation[r]}
  /\ result' = [result EXCEPT ![r] = "waiting"]
  /\ worker' = StartWorker
  /\ UNCHANGED <<current, moved, verdict, admitted, valid, ended>>

WithoutEvicted(c) == pending \ {Correlation[c]}

\* A voice that finds no room takes that of the oldest comment.
EvictFor(r) ==
  /\ Received(r)
  /\ Full
  /\ Source[r] = "voice" /\ comments # << >>
  /\ voices' = Append(voices, r)
  /\ comments' = Tail(comments)
  /\ pending' = WithoutEvicted(Head(comments)) \cup {Correlation[r]}
  /\ result' = [Told({Head(comments)}, "rejected") EXCEPT ![r] = "waiting"]
  /\ worker' = StartWorker
  /\ UNCHANGED <<current, moved, verdict, admitted, valid, ended>>

-----------------------------------------------------------------------------
(* _run_audience_admissions                                                *)

Owned == IF ended THEN {} ELSE valid

\* The first of q that is still owned; those before it are answered as stale on
\* the way.
FirstOwned(q, i) == q[i] \in Owned /\ \A j \in 1..(i - 1) : q[j] \notin Owned
NoneOwned(q)     == ToSet(q) \cap Owned = {}

\* Candidate r is taken up: its snapshot carries the revision of this moment.
TakeUp(r) ==
  /\ worker' = "evaluating"
  /\ current' = r
  /\ moved' = FALSE
  /\ verdict' = "none"

GoIdle ==
  /\ worker' = "none"
  /\ current' = NoRequest
  /\ moved' = FALSE
  /\ verdict' = "none"

\* Broken: those passed over as stale are not told.
AnsweredDone(S, done, told) ==
  /\ pending' = pending \ {Correlation[r] : r \in S \cup done}
  /\ result' = [r \in Requests |-> IF r \in done THEN told ELSE result[r]]

\* S are passed over as stale; the candidate just decided, if any, is `done`,
\* and `told` its answer.
Answered(S, done, told) ==
  /\ pending' = pending \ {Correlation[r] : r \in S \cup done}
  /\ result' = [r \in Requests |-> IF r \in done THEN told ELSE Told(S, "rejected")[r]]

PickVoice(done, told) ==
  \E i \in DOMAIN voices :
    /\ FirstOwned(voices, i)
    /\ voices' = SubSeq(voices, i + 1, Len(voices))
    /\ UNCHANGED comments
    /\ TakeUp(voices[i])
    /\ Answered({voices[j] : j \in 1..(i - 1)}, done, told)

\* Broken: comments do not wait for the voices before them.
PickCommentAnyway(done, told) ==
  \E i \in DOMAIN comments :
    /\ FirstOwned(comments, i)
    /\ comments' = SubSeq(comments, i + 1, Len(comments))
    /\ UNCHANGED voices
    /\ TakeUp(comments[i])
    /\ Answered({comments[j] : j \in 1..(i - 1)}, done, told)

PickComment(done, told) ==
  /\ NoneOwned(voices)
  /\ voices' = << >>
  /\ \E i \in DOMAIN comments :
       /\ FirstOwned(comments, i)
       /\ comments' = SubSeq(comments, i + 1, Len(comments))
       /\ TakeUp(comments[i])
       /\ Answered(ToSet(voices) \cup {comments[j] : j \in 1..(i - 1)}, done, told)

\* Broken: the worker returns as soon as no voice waits.
PickNobodyEarly(done, told) ==
  /\ NoneOwned(voices)
  /\ voices' = << >> /\ UNCHANGED comments
  /\ GoIdle
  /\ Answered(ToSet(voices), done, told)

PickNobody(done, told) ==
  /\ NoneOwned(voices) /\ NoneOwned(comments)
  /\ voices' = << >> /\ comments' = << >>
  /\ GoIdle
  /\ Answered(Queued, done, told)

PickNext(done, told) ==
  \/ PickVoice(done, told)
  \/ PickComment(done, told)
  \/ PickNobody(done, told)

WorkerStarts ==
  /\ worker = "started"
  /\ PickNext({}, "rejected")
  /\ UNCHANGED <<admitted, valid, ended>>

\* The candidate task ends: with a proposal that passes the policy checks, or
\* with one that is discarded or fails them, an exception or a timeout.
Decide(how) ==
  /\ worker = "evaluating"
  /\ worker' = "decided"
  /\ verdict' = how
  /\ UNCHANGED <<queueVars, current, moved, admitted, result, valid, ended>>

\* _evaluate_and_admit_audience, after the candidate task
Stale == Correlation[current] \in admitted \/ moved \/ current \notin Owned

WorkerRefuses ==
  /\ worker = "decided"
  /\ verdict # "accept" \/ Stale
  /\ PickNext({current}, "rejected")
  /\ UNCHANGED <<admitted, valid, ended>>

\* Broken: the input that opened a turn is not remembered.
RememberNothing(r) == UNCHANGED admitted

Remember(r) == admitted' = admitted \cup {Correlation[r]}

\* _admit_comment, _admit_asr_final: the turn, and with it everything in
\* SessionTasks!AdmitTurn.  An exception after that only changes the answer.
WorkerAdmits(told) ==
  /\ worker = "decided"
  /\ verdict = "accept" /\ ~ Stale
  /\ Remember(current)
  /\ PickNext({current}, told)
  /\ UNCHANGED <<valid, ended>>

-----------------------------------------------------------------------------
(* The end of the session, and what moves under the candidates.            *)

\* Broken: those in the queue are dropped without an answer.
AnswerNobody == {}

AnswerAtEnd == Queued

\* A worker that has not run yet never does; one that waits for its candidate
\* is told so when it next runs.
EndSession ==
  /\ ~ ended
  /\ ended' = TRUE
  /\ worker' = IF worker \in {"evaluating", "decided"} THEN "cancelled" ELSE "none"
  /\ result' = Told(AnswerAtEnd, "rejected")
  /\ voices' = << >> /\ comments' = << >>
  /\ pending' = {}
  /\ UNCHANGED <<current, moved, verdict, admitted, valid>>

\* CancelledError: the worker answers its candidate, finds the queue empty and
\* returns.
WorkerStops ==
  /\ worker = "cancelled"
  /\ PickNext({current}, "rejected")
  /\ UNCHANGED <<admitted, valid, ended>>

\* The connection or the input epoch the requests came with is gone for good.
LoseOwner(source) ==
  /\ valid' = valid \ {r \in Requests : Source[r] = source /\ result[r] # "unsent"}
  /\ valid' # valid
  /\ UNCHANGED <<queueVars, workVars, admitted, result, ended>>

\* The reflex starts a turn, or anything else moves the revision.
OtherTurn ==
  /\ worker \in {"evaluating", "decided"}
  /\ ~ moved
  /\ moved' = TRUE
  /\ UNCHANGED <<queueVars, worker, current, verdict, admitted, result, valid, ended>>

-----------------------------------------------------------------------------
Init ==
  /\ voices = << >> /\ comments = << >>
  /\ pending = {} /\ admitted = {}
  /\ result = [r \in Requests |-> "unsent"]
  /\ worker = "none" /\ current = NoRequest /\ moved = FALSE /\ verdict = "none"
  /\ valid = Requests
  /\ ended = FALSE

Receive(r) == Reject(r) \/ Enqueue(r) \/ EvictFor(r)

Work ==
  \/ WorkerStarts
  \/ WorkerRefuses
  \/ \E told \in {"accepted", "rejected"} : WorkerAdmits(told)
  \/ WorkerStops

Candidate == \E how \in {"accept", "refuse"} : Decide(how)

Next ==
  \/ \E r \in Requests : Receive(r)
  \/ Work
  \/ Candidate
  \/ EndSession
  \/ \E source \in {"voice", "comment"} : LoseOwner(source)
  \/ OtherTurn

Spec == Init /\ [][Next]_vars

\* The loop runs the worker whenever it is ready; the candidate task is bounded
\* by two timeouts and always ends.
FairSpec == Spec /\ WF_vars(Work) /\ WF_vars(Candidate)

-----------------------------------------------------------------------------
(* Properties                                                              *)

Answers == {"unsent", "waiting", "accepted", "rejected"}

\* The type of every variable.
TypeOK ==
  /\ voices \in Seq(Requests) /\ comments \in Seq(Requests)
  /\ pending \subseteq Correlations /\ admitted \subseteq Correlations
  /\ result \in [Requests -> Answers]
  /\ worker \in {"none", "started", "evaluating", "decided", "cancelled"}
  /\ current \in Requests \cup {NoRequest}
  /\ moved \in BOOLEAN
  /\ verdict \in {"none", "accept", "refuse"}
  /\ valid \subseteq Requests
  /\ ended \in BOOLEAN

\* Whoever waits for an answer is in the queue or being evaluated, and nobody
\* else is: eviction, staleness and the end of the session answer exactly those
\* they remove.
WaitingIsKept ==
  Waiting = Queued \cup ({current} \ {NoRequest})

\* A correlation is pending exactly as long as one request with it waits, so a
\* refused or evicted input may be sent again and a waiting one may not.
PendingMatches ==
  /\ ~ ended => pending = {Correlation[r] : r \in Waiting}
  /\ \A r, s \in Waiting : Correlation[r] = Correlation[s] => r = s

\* A queue with somebody in it has a worker that will come to it.
QueueHasWorker == Queued # {} => worker \in {"started", "evaluating", "decided"}

\* A comment is never taken up while a voice with a live connection waits.
VoicesFirst ==
  [][current' # current /\ current' \in Requests /\ Source[current'] = "comment"
       => ToSet(voices) \cap valid = {}]_vars

\* Every caller who waits gets an answer.
CallersAreAnswered == \A r \in Requests : result[r] = "waiting" ~> result[r] # "waiting"

Desk == INSTANCE AudienceDesk WITH answer <- result, opened <- admitted, closed <- ended

\* The queue, its worker and their cancellation keep the desk's promise: one
\* final answer each, one turn per input, none after the end of the session.
ImplementsDesk == Desk!DeskSpec
=============================================================================
