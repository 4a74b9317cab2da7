# Verification of the VTuber orchestrator

The orchestrator is a Python asyncio hub. Mic, Sound, Comments and Frontend are
separate programs that connect to it over WebSockets; generated speech leaves it
as RTP over UDP to Sound. Everything in one session runs on one event loop, so
the unit of interleaving is the code between two awaits, and that is what an
action of these modules is. All paths below are relative to
`src/src/orchestrator/` unless they say otherwise.

## 1. The system

| Component | State | Operations | Hard because |
|---|---|---|---|
| Task lifecycle (`task_registry`, `task_executor`, `task_reducer`, `task_admission`) | records, idempotency index, lanes, tombstones | register, enqueue, claim, next, cancel, cancel_pending, supersede, timeout, fail, reduce, expire | results arrive at any later moment; ids are used again; the clock expires what a late result must still meet |
| Session scheduler (`sessions`) | revision, active turn | StartTurn, EndSession | everything captured before an await may be old after it |
| Output fence (`scheduler_reflex`) | lease, pending and acknowledged replacement, retained lease, high water mark | activate, interrupt, acknowledge, abandon, commit, finish, retain, revoke | a take-over has three steps, and any turn, refusal, timeout or disconnection may come between them |
| Turn coordinator (`agent_state`) | turn, epoch, phase, retained turn | enqueue, start_synthesizing, await_cutover, playback_started, restore, finished, lost, fail, cancel | its phase must follow what the fence and Sound do, which it never sees directly |
| Sound control (`transport_dispatch`, `streaming_contracts`) | sinks, ready waiter, reportable lease, FlushAdmission | register, request_stream_flush, admit_replacement, announce_output, finish_generated_stream, discard | answers are late, repeated or missing |
| Speech output (`transport_hub`, `onsite_bridge`, `scheduler_runtime`, `transport_runtime`) | coroutines of the TTS tasks, playback window | speak, prepare, exchange, emit, end, abandon | cancellation reaches a coroutine at its next await |
| Audience admission (`scheduler_runtime`, `brain_runtime`, `response_coordinator`) | candidate queues of a session | receive, evict, evaluate, admit | bounded queue, priority, session end |
| Streamed speech (`onsite_bridge`, `media_adapters`, `tts_rtp`) | provider task, callbacks, generator, receiver, queues, framing | synthesize, receive, frame, emit, close | audio crosses two threads, two queues and a lock, and the coroutine may be cancelled at each await |
| Memory and context (`memory`, `memory_store`, `transient_context`, `session_data`, the operation follow-up of `scheduler_runtime`) | entries, file, context, the tasks of a turn | reduce, save, consider, compact, compose, follow up | results come after what they were made from has moved; a write may be refused |
| Voice profiles (`voice_profile_service`, `profile_store`, `profile_vault`, `session_data`) | records, revisions, snapshot file, template files | enroll, amend, revoke, expire, delete, recognize, load | several writes to one operation, each may fail before or after it took place; the process may stop between two |
| Peers (`transport_runtime`, `transport_hub`, `control_roles`, `comment_ingress`) | connections, leases, runtimes, routes, replay memory | register, hear, admit, release, sweep, end | a socket may be closed while its messages are still read; names are used again |
| Deck and avatar (`interactions`, `runtime_mcp_planning`, `frontend_deck`, `frontend_effects`) | commands, their futures, the page | ask, send, answer, give up | an answer may come after its turn, its time or its Frontend has gone |
| Captions, ASR, Brain, tools, retrieval, configuration | — | parsing, records, external calls | their outcome is an input of the parts above |
| Endpointing, semantic barge-in (`streaming_endpoint`, `semantic_barge_in`) | — | — | constructed by their tests only; Mic endpoints its own audio |

How they interact. Ingress hands an utterance or a comment to the runtime, whose
candidate queue asks the Brain. An accepted answer starts a turn in the
scheduler, raises the cancellation epoch, cancels pending tasks and their
coroutines, and schedules the TTS task, all in one step. The TTS coroutine
synthesizes a second of audio and then asks the hub for the output stream. With
no lease on the stream it activates one and announces it to Sound. With a lease
it opens a replacement, schedules a flush task, sends a flush and polls every
10 ms until the fence says that Sound has acknowledged; then the dispatcher
announces the new epoch, the flush task is reduced and the replacement
committed. The first frame commits the TTS task and opens the playback window.
Sound's verified `finished` closes it.

Behind a turn, its operation runs a tool and asks the Brain once more; the
replies' texts go to the context before the speech is scheduled, and a silent or
admitted last reply launches the extraction of memories and, over budget, a
compaction. A tool may be the page of a deck or an avatar's cue, which is sent to
the session's Frontend and answered over its connection. A connection owns the
leases of the sessions it has named and the routes it has registered, and lets go
of them when its handler ends; a session without owners and without work is swept.

What makes each component correct is stated as the properties below.

## 2. The modules

* **TaskRegistry** – `TaskRegistry` as operators on its records and index. No
  method awaits, so each is a function from a registry to a registry.
* **SessionTasks** – the registry behind the lanes, the reducer, the admission
  guard and the handlers that move turn, revision, epoch, data revisions,
  capabilities and clock. A provider's answer is a record taken when its task is
  claimed and delivered at any later moment, any number of times, until
  `AnswerDelay` has passed.
* **TaskLedger** – the abstract specification: a task is opened under a fence,
  takes effect at most once and under that fence, and raising the fence closes
  what is open, while tasks of the new fence may be opened in the same step. Two
  modules implement it: SessionTasks (`ImplementsLedger`), with every check of the
  reducer and the cancellation epoch as the fence, and Cutover
  (`TasksKeepTheLedger`), whose tasks are the reduced ones below.
* **MCSessionTasks** – shapes of three tasks: a response, its speech, and a
  maintenance task that shares the response's idempotency key.
* **SessionTasksProofs** – the theorems about SessionTasks.
* **OutputFence** – `SchedulerOutputFence` of one stream as a record and one
  operator per method. Generation, cancellation epoch and SSRC are one number,
  since the code derives the other two from the first.
* **TurnCoordinator** – `TurnCoordinator` in the same way. The tool phase, which
  no production caller enters, and the methods of the retired gate are left out.
* **SoundControl** – the dispatcher's memory of one stream, FlushAdmission, the
  two directions of the ordered control connection, and Sound. Sound is not in
  the repository; it is modelled from the answers the dispatcher reacts to.
* **OutputStream** – the abstract specification of one output stream, as its
  listener knows it: speeches take it in their order, each as a newer generation;
  the one that is heard may fall silent for a while and be taken up again until the
  next one begins; one that is over is not heard again.
  `Cutover!ImplementsStream` is the refinement: a speech has begun once its task is
  committed (`HasBegun`), its generation is its output epoch, and it is heard while
  the fence lets its frames out (`Audible`).
* **Cutover** – the composition: the turns, the TTS and flush coroutines, what
  Sound answers, and the properties of the whole.
* **CutoverProofs** – the types of the composition, the course of its
  coroutines and the ledger of its tasks; **CutoverSafetyProofs** extends it with
  the fence, the exchanges, the coordinator, the stream and the theorems on the
  properties of Cutover.

* **AudienceAdmission** – the way from a request to a turn: the two queues, the
  pending and admitted correlations, the worker coroutine and the end of the
  session. `worker` is where it is suspended: *started* has been created and not
  run, *evaluating* awaits the candidate task, *decided* is ready after it,
  *cancelled* has a cancellation to take delivery of. The lock around the queue is
  never held across an await, so an arrival is one step, and so is everything the
  worker does between two candidates. The reason of a rejection is left out.
* **AudienceDesk** – what a caller is promised; `AudienceAdmission!ImplementsDesk`
  is the refinement.
* **MCAudienceAdmission**, **AudienceAdmissionProofs** – the requests of the run,
  and the theorems.

* **SessionMemory** – the context, the memory and its file, and the tasks of a
  turn that move them: its speeches, its operation, the extraction and the
  compaction.
* **VoiceProfiles** – the records of a session, their snapshot file, the directory
  of sealed templates, and the reply that knows who spoke, with its operation.
* **StreamedSpeech** – one reply from the provider's threads to the frames Sound
  is sent, for each of the four ways a provider delivers audio.
* **ControlPeers**, **MCControlPeers** – connections, leases, routes, utterances,
  and what a Frontend is asked; the second module only names the symmetry.
* **SessionMemoryProofs**, **VoiceProfilesProofs**, **StreamedSpeechProofs**,
  **ControlPeersProofs** – their theorems.

The last four components touch one another through few operations, and each
module has the others' part of it as a nondeterministic choice: to SessionMemory an
enrolment is `Enroll` and a revocation `Revoke`, whenever they come; to ControlPeers
the Brain's decision is `Admit` or `Drop`; to Cutover a speech that fails, ends or
is cancelled is what StreamedSpeech makes of its provider.

### Correspondence of Cutover

`pc[s]` is where the coroutine of speech `s` is suspended:

| `pc` | suspended in |
|---|---|
| awaited | `wait_for_operation_followup`: the operation of the turn is running |
| ready | the speech is scheduled, its coroutine has not begun |
| synthesizing | `speak_response`, waiting for the first second of audio |
| announcing | `announce_output`, waiting for `media.stream.ready` |
| flushing | `_await_replacement_flush`, between two polls |
| admitting | `admit_replacement`, waiting for `media.stream.ready` |
| emitting | after the first committed frame, pacing the rest |
| aborting | the bridge has returned or raised, `_abandon_agent_tts_task` is next |
| done | over |

`cut[s]` is a cancellation that was requested of the coroutine and not yet
delivered; `"abandoned"` is the cancellation by `_await_preoutput_tts_provider`
after its timeout, whose owner has already done the rest. `tts[s]` and `flush[s]`
are the registry tasks of the speech and of its exchange, reduced to what the
reducer asks of them (SessionTasks has the rest): the state, and whether the
identity and knowledge revisions are still those of the request. What is left of
them keeps the promise of the whole, `TasksKeepTheLedger`. `out[s]` is the
epoch the speech was given, `asked[s]` its flush request.

Three facts about timing are assumed. A cancellation that has been requested is
delivered before another coroutine gets its first second of audio, and a stale
exchange notices within its 10 ms poll before that too (`HasFirstAudio`); a
waiter whose future is done resumes before another exchange replaces it
(`ReplaceWaiter`). Synthesis takes a request to a provider, the others one turn
of the event loop.

`Troubles` turns on, per run, what may go wrong besides newer turns, so that a
property can be checked where it holds and the smallest cause named where it
does not:

| trouble | what it allows |
|---|---|
| refusal | Sound drops a flush or answers too late; the flush is repeated or given up; the exchange times out, by its own clock or by its task's deadline |
| provider | synthesis raises, before or after the first frame |
| deadline | the TTS task's deadline passes: it is noticed before the first frame, or by the reducer behind the commit of the exchange |
| sink | the connection to Sound is lost, with everything on its way, and registers again |
| revoke | an identity is revoked, expired or deleted |
| trust | an enrolment, correction, corpus or index changes a trust revision |

### Correspondence of SessionMemory

`tasks` holds the last task of each kind of work of the turn: its state, the data
snapshot it was scheduled under and, for a compaction, the context it summarises.
`awaited` tells the coroutine from the task, since either may end without the other:
a refused result ends the coroutine and leaves the task. `followUp` is where
`_run_operation_followup` is suspended. A text is its size. `accepted` is a history
variable. `Retained` is `_retain_newest_entry_indexes`; `Compacted` is what `compact`
leaves. `SaveThenSwap` is the staged copy of `reduce_memory`; a stop
between the write and the swap is `CrashInCommit`.

### Correspondence of VoiceProfiles

An operation of the service never awaits, but it writes several files. So it is
the list `todo` of the steps it has yet to take, one for each write, in the order of the
code; a write that raises drops the rest, and `Stop` may come between two of them.
`live` is what the process knows, `disk` and `vault` what is on disk, and `bound` the
revisions that the session's memory was last told. A write that raises may have
taken place (`unsure`), because a file is replaced before its directory is flushed.
So may that of a template, which nobody takes back then (`WriteTemplate`).
The clock that expires profiles is monotonic, and so may be behind after a restart
(`Start`).

A final transcript is admitted in one step of the event loop: the sample of its
voice is matched (`Recognize`), its turn begins, and a reply that needs an
operation is created (`Identify`). `speaker` is the entry of
`_speaker_identities` for that turn; a revocation leaves it. `asked` is
the follow-up between `create_task` and its first step. `work` is its operation from
there (`BeginReply`) to the prompt for the final words, which names the speaker
(`EndReply`). A follow-up begins in the next round of the loop, before
another candidate can have been evaluated; revocations need not wait for it.

`consent`, `torn` and `overtaken` are history variables: what the speaker was last
told, the profiles of which half an enrolment may be left on disk, and whether the
withdrawal of a speaker came before their reply had begun.

### Correspondence of StreamedSpeech

`stage` is where `speak_response` is, `receiver` where its task `receive_chunks` is,
`gen` where the generator that a thread of the pool resumes is, `worker` the thread
that runs the provider's task and `hand["sdk"]` the thread that calls the callback
back. `holder` is who has `synthesis_lock`. `server` and `events` are the
provider and the queue, or socket, between. Audio is a sequence of units; `Frame` of
them fill an RTP frame and `Startup` of them are wanted before the cutover. The SDK
is not in the repository: that its completion wait may wake before the error
callback is told, and that callbacks come after a stop, are read off the code that
guards against it.

### Correspondence of ControlPeers

A connection's handler reads one message at a time. `conn` is *open*, *closed* while
what was buffered is still read, *leaving* when a send has failed, and *away* when
its `finally` has run (`LetGo`). A handler that waits for a comment's decision
reads nothing (`Blocked`). Every message renews the lease of its session (`Touch`),
also one that is otherwise refused (`Chatter`). A route carries its owner, epoch and last
sequence number, and outlives its session. A command is *sending* until the socket
has taken it, then *waiting* for its future; *escaped* is a deck task left running
because ConnectionClosed passes by its worker. `took` and `overtaken` are
history variables: every comment a connection has had accepted, and the undecided
utterances whose speaker or route has gone since.

## 3. The runs

Passing:

| run | question | bounds | states |
|---|---|---|---|
| tasks_fence | do turns, data, capabilities and deadlines keep every stale result out? | two tasks, two turns, one lane place, one tick | 592,120 |
| tasks_tombstones | do index, lanes and tombstones stay consistent when ids are used again? | three tasks of two keys, two turns, two registrations each, three ticks, retention of two | 601,020 |
| cutover_turns | who may be heard, and is anything left behind, when turns talk over each other and a step of several fails, and do the tasks keep the ledger? | three turns; refusals, providers, deadlines | 476,937 |
| cutover_revoked | is audio still ordered when tasks are cancelled behind their coroutines and Sound reconnects, and is the stream a listener gets that of OutputStream? | two turns, three speeches; sink, revocation, trust, refusals | 890,228 |
| cutover_live | does every speech end, and every playback window close? | two turns, three speeches; providers, sink | 25,149 |
| audience | is every caller answered once, and nobody forgotten in the queue? | two voices and three comments, one repeated; two places | 232,656 |
| memory | is nothing that was accepted lost, whatever is refused, late or cut short? | two keys and room for one, texts of one or two units, a budget of four, two turns, all faults | 924,605 |
| profiles | is a withdrawn consent withdrawn, on disk and in the work under way? | one profile, two template keys, four revisions, all faults | 1,852,652 |
| peers | is what is said taken once and answered to the living, and does what has gone let go? | two peers of any role, one session that may be created twice, epochs to three, two comments and a replay window that holds the last one only, two commands | 1,221,093 |
| speech | does Sound play what was said, and does a speech let go of everything? | all four kinds of provider, four units in frames of two, three to start with, a queue of one, two cancellations | 272,028 |

Violated, each by what the code does and against a sentence of the repository
(`PROJECT.json` quotes them):

| run | what happens |
|---|---|
| window_stays_open | No fault at all. Turn 3, which says nothing, cancels turn 2's exchange after `admit_replacement`: `_leases` has moved to an epoch that will never play, the end of turn 1's audio is never sent and its window stays open. |
| work_left_running | Of two maintenance tasks of one turn, the first to be accepted moves the data snapshot of the other; its result is refused, its coroutine ends and the task stays running. The session has active work for ever and is never swept. |

Where properties stop holding. Each property is checked under the troubles
it holds under; with the others TLC shows how the code loses it:

* `ReplacedOnlyByLiveSpeech` says that what becomes irreversible becomes so for a
  speech whose task runs and is fresh. It does not say that this speech is then
  heard: `accept_output_started` asks the reducer after `commit_replacement`, and
  the reducer looks at the deadline of the speech. A speech whose time was
  up while it waited for Sound is timed out by the step that has replaced
  the old audio (the second disjunct of `StartOutput`), and its first frame is
  not let out. The bound on the wait is that of the exchange, three seconds.
* The same property fails with "trust": the flush task captures a newer
  data snapshot than the TTS task it serves, so a trust revision between the two
  lets the flush commit and the speech be refused. Neither old nor new audio is
  played, and the old window is not closed.
* `CancelledSpeechIsCut` fails with "revoke": the registry task of a speech is
  cancelled, its coroutine goes on.
* `PreparingHasASpeech` fails with "revoke": a speech revoked before it begins
  leaves the coordinator in SYNTHESIZING.
* `ReplacementHasItsExchange` fails with "revoke": the coroutine of a revoked
  exchange, which nobody cancelled, can meet a newer exchange and abandon that
  one's replacement.
* `CompletedByItsOwnFinish` fails once a turn has an operation, and so a second
  speech, and a flush may be refused. The first speech of turn 2 gives up its
  exchange and the coordinator is restored to turn 1, which still plays. The reply of
  the operation then cuts over; `may_cut_over` finds the coordinator waiting for no
  cutover and lets it pass, so that the coordinator goes on playing turn 1 and
  completes it when Sound reports turn 2's speech as finished. cutover_turns has
  no operating turn.
* `WindowCloses` fails whenever an exchange is rolled back in time for one of two
  things: the end of the old audio is skipped because `_leases` has moved, or its
  verified finish met the pending replacement and was dropped for good
  (`OutputFence!Finishable`). `WindowClosesUnlessRolledBack` says that under the
  troubles of its run, provider and sink, these are the only ways. With "trust" or
  "deadline" a window may stay open without any rollback: the exchange is
  committed, and then its speech is refused.
* The coordinator is not back in PLAYING when the flush task's own deadline ends
  the exchange (`ExchangeExpires`): `sound_flush_is_current` closes the task, and
  `fail_sound_flush` finds nothing left to do. `docs/developer.zh-CN.md` says at 79 that
  the old playback stays as it is when a replacement fails, and at 122 that the
  coordinator goes back to PLAYING when a flush is refused, late or void. The old
  lease is kept, as `ReplacementHasItsExchange` has it; the phase is not restored in this
  case. No run is spent on it.
* That a refused flush leaves the old audio going is not a property here: it holds
  of the lease and not of the frames. `interrupt_for_turn` drops the retained mark
  of the old lease, `abandon_replacement` does not put it back, and the old turn is not
  the active one, so that its frames are rejected although its lease is kept.
* `WithdrawnIsNeverRecognized` is about recognition. What was recognised before is
  kept for the rest of the session, and the final prompt of a reply reads it.
  `WithdrawnIsNotTold` says what protects the speaker then: the withdrawal cancels the
  running operation, and without its result the reply does not ask the Brain again.
  It excepts a reply that was created and had not begun (`overtaken`), and there the
  code does name the speaker: `invalidate_pending` finds no task of it, and the
  reply schedules its operation afterwards under the new revisions. Without the
  exception TLC finds that behaviour.
* `TemplateIsOfItsRecord` excepts the profiles in `torn`. One way into it is a
  template that was replaced and whose directory could not be flushed:
  `store_encrypted` raises, `enroll` calls it outside the `try` that deletes the
  template, and the older record of the profile is then matched by the newer voice.
* `AudibleIsEnded` counts the calls of `output_finished`. One that raises is swallowed by
  `_close_unfinished_stream`, and nobody repeats it.
* `OpenOperationIsOwned` is about the tool and the final reply, which their coroutine closes in
  its `finally`. Extraction, compaction and speech have no such net, and that is
  `work_left_running`.
* `TheGoneOwnNothing` speaks of futures, not of tasks: a deck task whose Frontend
  went during the send is *escaped* until the next turn or the end of the session.
* `PlaysWhatWasSaid` allows a reply that breaks off to be reported as spoken in one
  case: a realtime task that fails, whose completion wait wakes first.

Bounds. Two tasks suffice for every relation in SessionTasks, which are between
one task and the session or one task and its parent; the third is there for the
shared key and the second lane. Two registrations of an id and a clock that runs
past the retention window are what reuse needs. In Cutover two turns give
one take-over, three give a take-over of a take-over and a turn that is cancelled
in between; an operating turn gives a second speech of the same turn. Nothing in
the code depends on how many older turns there were beyond the one whose lease
is active. Each trouble may strike any number of times, but the state space is
finite, because every turn ends.

Five requests
and two places in the audience run give a full queue, a voice that evicts, a
repetition in every state of the first request and a queue behind a candidate;
the code treats the sixteenth place as it treats the second.

A budget of four and texts of one or two units give a context that fits, one that keeps
an older small text over a newer large one, and one that shows nothing but its
summary; two turns give a compaction of a context that has a summary already. Two keys
with room for one give every answer of `validate` but the comparison of
confidences, which needs a second value and changes no property. One profile is
enough, because no operation but `expire` and `end` looks at more than one, and they
take them one after the other; four revisions give an enrolment, its withdrawal,
another enrolment and another withdrawal. Two peers are what a route needs to
change hands; one session keeps the session limit from ever refusing, which is left to the
proofs. Two commands give an answer to an older page after a newer one. Four units
in frames of two with three to start with leave a rest at the start, and one at the end
of a raw body that ends early; two cancellations give one that interrupts the other's clean-up.

All cfgs turn the deadlock check off: with a bounded number of turns the session
really comes to rest, and so it does when every request has its answer, every
revision is used up, or a speech is over.

Fairness (`FairSpec`). The event loop runs every ready coroutine (`Progress` of
each speech, which includes the exchange's own timeout), the dispatcher handles
what has arrived (`Dispatch`), and Sound answers commands and reports the end of
what it plays (`Sound`). Nothing is assumed of turns, troubles, reconnection or
of operations, which may never end. In AudienceAdmission the loop runs the worker
whenever it is ready, and the candidate task ends because both of its awaits are
under `asyncio.wait_for`. In SessionMemory each provider is awaited with a timeout. In
StreamedSpeech threads, tasks and coroutines run, and calls of a provider return, with an error when they
take too long (the bounded completion wait, the read timeout of the HTTP client);
that a provider says anything is not assumed, nor that anybody cancels.

## 4. The proofs

`SessionTasksProofs` proves for every set of tasks, keys and kinds, every shape,
number of lanes, lane limit, retention window and bound:

* `TypeCorrect` – the type invariant, from one lemma per operator and handler.
* `LiveWorkFenced` – open work is of the present cancellation epoch. With
  TypeOK it is inductive; the argument is that every handler either opens a task
  at the present epoch or only closes tasks (`OnlyCloses`, `StepKinds`), and that
  the one handler that raises the epoch closes all of them.
* `CommitsAreFenced` – a result takes effect only in a step that finds the task
  running, in time and fenced. Turn, revision, data, capabilities and deadline are
  guards of the reducer. The epoch is not: the reducer compares the answer with
  the record and never the record with the session, and so this conjunct rests on
  `LiveWorkFenced`.
* `TombstonesStamped` – a record has a terminal stamp exactly when it is terminal.
* `IndexMatches` – the index and the records describe each other. Its
  inductive step needs that a registration is refused while key or id is present
  and that expiry drops both.
* `TombstonesAreFinal`, `TombstonesLastTheWindow` – a closed record does not open
  again, keeps its stamp, and is dropped by nothing but the end of the session before
  the retention window is over. Every handler only moves live records on or drops
  tombstones that are due (`OnlyMovesOn`, `StepMovesOn`).
* `AnswersMeetTheirOwnTask` – the invariant is `AnswersMeetRecords`: an answer
  under way is no older than `AnswerDelay`, and unless the session has ended, the record of
  its id is the registration it was claimed from, running or closed no sooner than the
  work began. Since
  `AnswerDelay` is less than the retention window, the id cannot have been used
  again before the answer is too old to come.
* `QueuedTasksAreFound` – the invariant is `QueuedIsNamed`: the lanes, as sets of
  names, hold every queued record. What the operators on a lane do to its set
  of names is stated once (`AppendNames`, `RemoveAtNames`, `PoppedNames`).
* `Refinement` – `Spec => ImplementsLedger`: initial states map to initial
  states, every handler to a step of the ledger or a stutter, from `TypeOK`,
  `LiveWorkIsOfThisEpoch` and `TombstonesAreStamped`.

`CutoverProofs` proves for any number of turns, any set of operating turns and any
troubles:

* `Typing` – the type invariant, with the fact that a speech has an epoch as soon as
  it may use it.
* `SpeechesInOrder` – the course of the coroutines, on which everything else rests: the
  speeches of turns to come have not begun (`TurnsToCome`), a running task is
  of the active turn (`RunningIsActive`), what has been heard is past its preparation
  (`HeardHasSpoken`), the two speeches of a turn are never on their way at once
  (`OneAtATime`), and a pending cancellation finds its coroutine under way
  (`CutUnderway`).
* `TasksImplementLedger` – `Spec => TasksKeepTheLedger`. To the ledger a step closes
  tasks, opens one, lets one or two take effect (the speech, and with it the exchange
  it waited for), or raises the fence (`StepCloses`, `StepOpens`, `StepTakes`,
  `StepRaises`). That a task opens but once is the invariant `NotOpenedYet`, what has
  not come to its point has no task; that one takes effect under its own turn is
  `RunningIsActive`.

`CutoverSafetyProofs` proves on top of it, for every set of troubles:

* `FenceKnowsWhatWasHeard` – active lease, retained lease, pending and acknowledged
  replacement of the fence are ordered by their epochs (`FenceInOrder`), every epoch
  that has been heard is at or below the lease an exchange would fall back to
  (`Base`, `Past`), and flush requests are numbered in the order they are asked. The
  operators of OutputFence enter through one lemma each (`ActivateShape`,
  `CommitShape`, ...), and each step of the composition through the one thing it does
  to the fence (`FenceSteps`).
* `NoAudioIsStale`, `EveryHeardEpochDiffers` – consequences of it: an older speech
  whose frames the fence would let out would hold a lease above the newer one.
* `AcknowledgementsAgree` – before any exchange is opened Sound has nothing to say about it
  (`Quiet`), and an exchange that is still wanted is in step with what the dispatcher has
  admitted (`ExchangesStand`), whatever is lost or late in between.
* `StreamImplemented` – `Spec => ImplementsStream`: every step of turns, coroutines,
  fence and Sound is one of the stream or a stutter. It needs, beyond the order of
  the fence, that a generation given to a speech of the active turn is leased to that
  turn wherever the fence has it (`LeasedToTheActive`: numbers that were never heard
  are given out again), that a second speech is heard after the
  first of its turn is over (`SecondIsSecond`), and that of all that has begun only the
  newest is let out (`OneVoice`). `SpokenSteps` says which steps begin a speech, which end one, and which only
  make it silent or heard again.

and, with the troubles named that the code does not survive (section 3):

* without "revoke", `ClosedTasksCutTheirSpeech` (a suspended coroutine
  without a cancellation has a running task, `UncutRuns`), `ReplacementsAreOwned`
  (there is one exchange at a time, and the replacement in the fence is its own,
  `OneExchange`) and `PreparationsAreMoved` (the phase of the coordinator says which
  coroutine of the turn will move it on: `Coordinated`, `ReadyRuns`,
  `PreparingIsMoved`). A revocation closes the registry task of a speech and leaves its
  coroutine going, which is what each of these invariants excludes.
* without "revoke" and "trust", `ReplacedOnlyWhileWanted`: only `CommitReplacement`
  commits (`OnlyCommitsCommit`), and what commits has a fresh TTS task
  (`RunsFresh`), which "trust" takes from it between the two reductions. The same step
  then closes that task, as succeeded or as timed out.
* with any troubles, but only where no turn has an operation,
  `CompletedByOwnFinish`. A turn then speaks once (`SpeaksOnce`), and the invariant
  relates the coordinator to the fence (`PlaysTheLease`): what the coordinator plays owns
  the stream (`Owned`); where the speech of the active turn is says what the two agree on
  (`InTune`); and while it exchanges, the fence would fall back to the turn the coordinator
  holds on to (`FallsBack`). The coroutines of older turns can only abandon
  what is theirs (`OlderSteps`). With a second speech `InTune` is false, as section 3 says.

`StreamedSpeechProofs` proves for any kinds of provider, length of the reply, size of
frame, of start-up buffer and of queue, and any cancellations:

* `HeardStreamsEnd` – rests on where the coroutine may be interrupted: what has been
  heard is ended once, by the stage in which the coroutine leaves (`EndedInTime`), and
  while the coroutine works on its reply nobody has told the others to stop
  (`Undisturbed`).
* `SoundHearsTheReply` – every buffer between provider and Sound holds a run of
  consecutive units, and each begins where the next one towards Sound ends. The
  invariant is this chain, link by link: what has not started is empty
  (`Unstarted`), the callback's hand (`Handed`), the provider's count and events (`Said`),
  the queue (`Linked`), the generator and receiver (`Fetched`), the framing
  buffer (`Framed`) and what has been sent (`Played`).

`AudienceAdmissionProofs` proves for any requests, correlations and capacity:

* `TypeCorrect`, `CallersAreKept`, `PendingIsExact`, `WorkerIsThere` – the
  invariants, which are inductive together with two more facts. `QueuesAreSets`:
  no request is in the queues twice, on the wrong side or while it is evaluated,
  so that removing an entry answers one caller. `WorkerHasCandidate`: where the
  worker is suspended says whether it has a candidate, and after the end of the
  session nothing waits but that. The queues enter the argument as sets
  (`AppendAdds`, `DropRemoves`, `TailRemoves`); the three ways the worker goes on
  are one relation (`Takes`), and the two ways into the queue another (`Joins`).
* `VoicesGoFirst` – a comment is taken up only when no owned voice waits.
* `Refinement` – `Spec => ImplementsDesk`. That an input opens one turn rests on
  the worker's second look at the admitted correlations; that none opens after the
  end, on the cancellation of the worker.

`VoiceProfilesProofs` proves for any profiles, keys, revisions and faults:

* `TypeCorrect`, `MemoryIsWritten` (outside of an operation the process knows what it
  would load), `WithdrawnAreForgotten` (whoever withdrew is not recognised again, in
  memory or on disk, after any failure and restart), `TemplatesMatch` (a template is
  of the enrolment its record speaks of, but for the torn ones), `WithdrawnAreNotTold` (no
  reply names a withdrawn speaker but one that had not begun).
* The invariant has to say what a half-done operation has reached: the list of steps
  is an enrolment's, or ends with a withdrawal that its erasure precedes
  (`EnrolmentIsWhole`, `WithdrawalIsLast`), or removes the directory at the end
  (`RemovedAtTheEnd`). What is withdrawn has then no template and no active record
  (`WithdrawnIsErased`), and a template agrees with both copies of its record but
  between the two writes of its enrolment (`LiveMatches`, `DiskMatches`). For the
  replies it says that none is left behind the end, which withdraws every consent
  at once (`IdentifiedBeforeTheEnd`, `EndedIsSilent`), and that a withdrawal stands behind
  the end of the running operation (`WithdrawalIsLast`).
* The steps are proved by what they do to four things: the records (`StoreStep`,
  every change of which is a `Successor`), the list (`TodoStep`), the templates
  (`TemplateStep`) and the reply (`ReplyStep`, `ConsentStep`).

`SessionMemoryProofs` proves for any keys, texts, budget, length of summary and bounds:

* `TypeCorrect`, `MemoryIsSaved`, `NothingIsForgotten`, `OperationsAreOwned`,
  `PromptsFit`.
* For the first four only one fact is needed beyond them: an operation has the task it waits for
  (`FollowUpHasItsTask`). The weight is in the operators. `CompactionKeeps` says that
  what a compaction keeps and what it summarises are all there was, which rests on what
  `Pick` returns, and so on the n-th member of a set of numbers existing
  (`NthIsMember`, from a bijection). `Applied` is the whole of a reply, and
  `LaunchStep` every way an operation goes on after its tool.
* `PromptsFit` needs no invariant but the shape of the context: what
  `_retain_newest_entry_indexes` keeps fits whatever it is given. It fills a room by
  going from the newest text to the oldest, and that is a fold. An induction
  over its argument is put as one over a set of numbers (`InSteps`); with it the
  fold exists and can be run one number at a time (`FoldExists`, `FoldRuns`), what it has
  filled is the sum of the sizes it has kept (`RetainedFills`), and this never exceeds the
  room (`RetainedFits`). `TokensAdd` gives the tokens of a list as a running sum, and
  `CountsDiffer` tells the texts picked by `Pick` apart.

`ControlPeersProofs` proves for any peers, roles, sessions, limits and commands:

* `TypeCorrect`, `GoneOwnNothing`, `SaidOnce`, `OnlyTheLiveIsAnswered`,
  `PagesGoForward`.
* `SaidOnce` rests on `Remembered`: what a connection's ingress has forgotten is
  behind its window. `OnlyTheLiveIsAnswered` rests on `OvertakenIsStale`: what was
  overtaken fails the admission guard for good, because a route's epoch only grows, a closed
  connection does not open again and its id is not used while it is waited for.
  `PagesGoForward` rests on `OnePending` (at most one command of a session waits
  for its answer) and `PagesAreOld` (the page is of a command that was asked before).
* Most handlers do one of a few things to each variable, so that they are proved
  through relations on single variables (`SpeechStep`, `RuntimeStep`,
  `CommandsStep`) and not action by action.

The assumptions are the named ASSUMEs of the modules, which TLC evaluates in the
runs: bounds and limits are natural numbers, the faults and roles are the known ones, and the
model values that stand for nothing (`NoFile`, `NoTask`, `NoPeer`, ...) are not
one of the things they stand in for.

Model-checked only is liveness under fairness (`SpeechEnds`,
`WindowClosesUnlessRolledBack`, `CallersAreAnswered`, `SpeechLetsGo`), which is out of
the prover's reach. Every safety property, action property and refinement of a passing
run has a theorem; four of Cutover's have one that names the troubles it excludes, and
`CompletedByOwnFinish` one that excludes operations.

The type invariants of SessionMemory and VoiceProfiles are proved, and not checked by
their runs.

## 5. Not modelled

The components with status `partly` and `not_modelled` in `PROJECT.json` say what is
left out of each. In short:

* **Code that only tests call**: `StreamEndpointer`, `SemanticBargeInGate`, the
  synchronous deck worker with its reconciliation, action proposals, the tool phase of
  the coordinator, the legacy interruption of the fence.
* **Data conversion**: the parsing and formatting of messages, resampling, the RTP
  header, prompts, the embedding of a voice and its comparison. Each is its outcome.
* **What is outside**: ASR, the language model, tools and retrieval are answers that
  may come at any later moment, or failures.
* **Captions**: their delivery is a task like another, fenced as SessionTasks has it;
  only the one the end of a session waits for is modelled.
* **Limits of the process**: bytes, rates and the sixteen threads of the providers'
  pool; configuration and the start and stop of the servers.

Sound's own `cancelled` and `error` reports do what the loss of the connection
does, without the loss of messages, and are a step of their own only in ControlPeers. The order of
several streams of one session is left out: every table of the fence and of the
dispatcher is keyed by the stream.

## 6. What is left

1. **Between the components**: the tasks of SessionMemory are a reduced form of those of
   SessionTasks as well; how they keep the ledger, with refused results that leave a
   task open (`work_left_running`) and restarts of the process, is neither checked nor
   proved.
2. **Captions**: their delivery and withdrawal, composed with ControlPeers.
