---------------------------- MODULE StreamedSpeech ----------------------------
(***************************************************************************)
(* One reply is spoken (onsite_bridge.py, media_adapters.py, tts_rtp.py):  *)
(* the provider's audio goes from its own threads over a queue to a        *)
(* generator, from the generator, which a thread of the pool resumes, over *)
(* a bounded queue to the coroutine that makes frames of it, and from there*)
(* to Sound.  The coroutine may be cancelled at each of its awaits, and    *)
(* may not leave a thread, a task or an audible stream behind.             *)
(*                                                                         *)
(* Audio is counted in units, 1..Length; Frame of them make an RTP frame.  *)
(***************************************************************************)
EXTENDS Naturals, Sequences

CONSTANTS
  Kinds,       \* the providers: "realtime" with a thread and callbacks, "sse" and
               \* "raw" whose body the generator reads, and "whole" clips
  Length,      \* the units of the reply
  Startup,     \* _STREAMING_TTS_STARTUP_PCM_BYTES
  Frame,       \* L16_FRAME_BYTES
  Capacity,    \* _STREAMING_TTS_CHUNK_QUEUE_CAPACITY
  MaxCancels,  \* bound on how often the coroutine is cancelled
  End, Failure, Nothing

ASSUME StreamedSpeechAssumption ==
  /\ Kinds \subseteq {"realtime", "sse", "raw", "whole"}
  /\ Length \in Nat /\ Startup \in Nat /\ MaxCancels \in Nat
  /\ Frame \in Nat \ {0} /\ Capacity \in Nat \ {0}
  /\ {End, Failure, Nothing} \cap (1..Length) = {}
  /\ End # Failure /\ End # Nothing /\ Failure # Nothing

VARIABLES
  kind,
  server,    \* the provider: what it has said, and what became of it
  events,    \* the queue, or the socket, the generator reads
  settled,   \* the callback has had its one terminal outcome
  hand,      \* what a thread has decided to put there
  worker,    \* _run_aliyun_cosyvoice_task
  stopped,   \* its Event
  token,     \* the CancellationToken is cancelled
  bound,     \* a callback is bound to it
  gen,       \* the generator
  holder,    \* who has synthesis_lock: the call of next, or that of close
  got,       \* what next has returned
  closing,   \* close_synthesis in its thread
  receiver,  \* receive_chunks
  item,      \* what it puts
  unwanted,  \* it has been cancelled
  chunks,    \* received_chunks
  clip,      \* of a whole clip: the attempts made, or its result
  stage,     \* speak_response: where its coroutine is
  outcome,   \* what it is going to return
  last,      \* nothing more will come
  prepared,  \* the cutover has admitted this speech
  buffered, pending, outbox, \* units: not framed, left over, in frames to send
  played,    \* what Sound was sent
  committed, \* the first frame was, and the scheduler agreed
  ended,     \* how often the end of the stream was asked for
  cancels

provider == <<server, events, settled, hand, worker>>
cancellation == <<stopped, token, bound>>
generator == <<gen, holder, got, closing>>
receiving == <<receiver, item, unwanted, chunks>>
framing == <<buffered, pending, outbox, last, prepared>>
sent == <<played, committed, ended>>
control == <<stage, outcome, cancels>>
vars == <<kind, provider, cancellation, generator, receiving, clip, framing, sent, control>>

Units == 1..Length
Reply == [i \in Units |-> i]
Item  == Units \cup {End, Failure}
Threads == {"sdk", "worker"}

-----------------------------------------------------------------------------
\* The callback of the realtime provider, called by the threads of its SDK.

\* finish: the first outcome is taken, and put when the lock has been let go.
Settle(t, outcome_) ==
  /\ settled' = TRUE
  /\ hand' = IF settled THEN hand ELSE [hand EXCEPT ![t] = outcome_]

Put(t) ==
  /\ hand[t] # Nothing
  /\ events' = Append(events, hand[t]) /\ hand' = [hand EXCEPT ![t] = Nothing]
  /\ UNCHANGED <<kind, server, settled, worker, cancellation, generator, receiving, clip,
                 framing, sent, control>>

\* on_data: what comes after the outcome is dropped.
OnData ==
  /\ kind = "realtime" /\ server.fate = "running" /\ server.said < Length
  /\ hand["sdk"] = Nothing
  /\ server' = [server EXCEPT !.said = @ + 1]
  /\ hand' = IF settled THEN hand ELSE [hand EXCEPT !["sdk"] = server.said + 1]
  /\ UNCHANGED <<kind, events, settled, worker, cancellation, generator, receiving, clip,
                 framing, sent, control>>

\* The task finishes or fails, and those who wait for its completion wake ...
TaskEnds(fate) ==
  /\ kind = "realtime" /\ server.fate = "running" /\ hand["sdk"] = Nothing
  /\ fate = "done" => server.said = Length
  /\ server' = [server EXCEPT !.fate = fate]
  /\ UNCHANGED <<kind, events, settled, hand, worker, cancellation, generator, receiving,
                 clip, framing, sent, control>>

\* ... before or after the callback is told: on_complete, on_error, on_close.
Tell ==
  /\ kind = "realtime" /\ server.fate \in {"done", "failed"} /\ ~server.told
  /\ server' = [server EXCEPT !.told = TRUE]
  /\ Settle("sdk", IF server.fate = "done" THEN End ELSE Failure)
  /\ UNCHANGED <<kind, events, worker, cancellation, generator, receiving, clip, framing,
                 sent, control>>

\* The worker has checked that it is not stopped already.
WorkerStarts ==
  /\ worker = "ready"
  /\ IF stopped THEN worker' = "over" /\ Settle("worker", End)
                ELSE worker' = "calling" /\ UNCHANGED <<settled, hand>>
  /\ UNCHANGED <<kind, server, events, cancellation, generator, receiving, clip, framing,
                 sent, control>>

\* streaming_call
WorkerCalls ==
  /\ worker = "calling" /\ worker' = "waiting"
  /\ server' = [server EXCEPT !.fate = "running"]
  /\ UNCHANGED <<kind, events, settled, hand, cancellation, generator, receiving, clip,
                 framing, sent, control>>

\* The call fails, or the bounded wait for completion does.
WorkerFails ==
  /\ worker \in {"calling", "waiting"} /\ worker' = "over"
  /\ Settle("worker", Failure)
  /\ UNCHANGED <<kind, server, events, cancellation, generator, receiving, clip, framing,
                 sent, control>>

\* streaming_complete returns: the task is over, or its socket was closed.
WorkerEnds ==
  /\ worker = "waiting" /\ worker' = "over"
  /\ server.fate \in {"done", "failed"} \/ gen = "closed"
  /\ Settle("worker", End)
  /\ UNCHANGED <<kind, server, events, cancellation, generator, receiving, clip, framing,
                 sent, control>>

-----------------------------------------------------------------------------
\* The body of an HTTP response: events with deltas and a mark at the end, or
\* raw audio, which ends with the body.

Http == kind \in {"sse", "raw"}

Delta ==
  /\ Http /\ server.fate = "running" /\ server.said < Length
  /\ server' = [server EXCEPT !.said = @ + 1]
  /\ events' = Append(events, server.said + 1)
  /\ UNCHANGED <<kind, settled, hand, worker, cancellation, generator, receiving, clip,
                 framing, sent, control>>

Over(fate, what) ==
  /\ Http /\ server.fate = "running"
  /\ server' = [server EXCEPT !.fate = fate] /\ events' = Append(events, what)
  /\ UNCHANGED <<kind, settled, hand, worker, cancellation, generator, receiving, clip,
                 framing, sent, control>>

DoneMark == kind = "sse" /\ server.said = Length /\ Over("done", End)

\* Without its mark, missing_done.
BodyEnds == IF kind = "raw" THEN Over("done", End) ELSE Over("failed", Failure)

\* An error event, half a sample, an error of the connection, or a read that
\* takes too long.
BodyFails == Over("failed", Failure)

-----------------------------------------------------------------------------
\* The generator, stream_pcm16le, and the two that resume it under the lock.

\* cancel, with stop_consumer, or with client.close: its readers wake.
CancelToken ==
  /\ token' = TRUE
  /\ stopped' = (stopped \/ (bound /\ kind = "realtime"))
  /\ events' = IF bound /\ ~token /\ kind = "realtime" THEN Append(events, End) ELSE events
  /\ UNCHANGED bound

\* bind: a callback that comes too late is called at once.
Bind ==
  /\ bound' = ~token
  /\ stopped' = (token /\ kind = "realtime")
  /\ events' = IF token /\ kind = "realtime" THEN <<End>> ELSE <<>>

\* The generator begins: the worker is started, or the request is sent.
Open ==
  /\ Bind
  /\ worker' = IF kind = "realtime" THEN "ready" ELSE worker
  /\ server' = IF kind = "realtime" THEN server ELSE [server EXCEPT !.fate = "running"]

\* next takes the lock.
Resume ==
  /\ receiver = "asking" /\ got = Nothing /\ holder = "none"
  /\ IF gen = "closed" THEN got' = End /\ UNCHANGED <<gen, holder>>
                       ELSE gen' = "reading" /\ holder' = "next" /\ UNCHANGED got
  /\ IF gen = "fresh" THEN Open ELSE UNCHANGED <<bound, stopped, events, worker, server>>
  /\ UNCHANGED <<kind, settled, hand, token, closing, receiving, clip, framing, sent, control>>

\* A unit is yielded; at an outcome, or once it is cancelled, the generator's
\* finally begins and the callback is released.
Read ==
  /\ gen = "reading" /\ events # <<>> /\ events' = Tail(events)
  /\ IF Head(events) \in Units /\ ~token
       THEN /\ gen' = "suspended" /\ holder' = "none" /\ got' = Head(events)
            /\ UNCHANGED bound
       ELSE /\ gen' = "stopping" /\ bound' = FALSE
            /\ got' = IF Head(events) = Failure /\ ~token THEN Failure ELSE End
            /\ UNCHANGED holder
  /\ UNCHANGED <<kind, server, settled, hand, worker, stopped, token, closing, receiving,
                 clip, framing, sent, control>>

\* A read of the body that the closed client breaks.
ReadBreaks ==
  /\ gen = "reading" /\ Http /\ token
  /\ gen' = "stopping" /\ bound' = FALSE /\ got' = End
  /\ UNCHANGED <<kind, provider, stopped, token, holder, closing, receiving, clip, framing,
                 sent, control>>

\* _stop_aliyun_cosyvoice_task: the task is cancelled unless its outcome is known.
StopTask ==
  /\ gen = "stopping" /\ gen' = "joining"
  /\ IF kind = "realtime"
       THEN /\ stopped' = TRUE /\ settled' = TRUE
            /\ events' = IF settled THEN events ELSE Append(events, End)
       ELSE UNCHANGED <<stopped, settled, events>>
  /\ UNCHANGED <<kind, server, hand, worker, token, bound, holder, got, closing, receiving,
                 clip, framing, sent, control>>

\* The socket is closed, and the worker waited for, though not for ever.
Join ==
  /\ gen = "joining" /\ gen' = "closed" /\ holder' = "none"
  /\ closing' = IF holder = "close" THEN "done" ELSE closing
  /\ UNCHANGED <<kind, provider, cancellation, got, receiving, clip, framing, sent, control>>

\* close_synthesis takes the lock.
CloseSynthesis ==
  /\ closing = "asked" /\ holder = "none"
  /\ IF gen = "suspended"
       THEN gen' = "stopping" /\ holder' = "close" /\ bound' = FALSE /\ UNCHANGED closing
       ELSE gen' = "closed" /\ closing' = "done" /\ UNCHANGED <<holder, bound>>
  /\ UNCHANGED <<kind, provider, stopped, token, got, receiving, clip, framing, sent, control>>

-----------------------------------------------------------------------------
\* receive_chunks

ReceiverAsks ==
  /\ receiver = "looping" /\ ~unwanted
  /\ receiver' = (IF token THEN "over" ELSE "asking") /\ got' = Nothing
  /\ UNCHANGED <<kind, provider, cancellation, gen, holder, closing, item, unwanted, chunks,
                 clip, framing, sent, control>>

Returned == got # Nothing /\ holder # "next"

ReceiverGets ==
  /\ receiver = "asking" /\ ~unwanted /\ Returned
  /\ receiver' = "putting" /\ item' = got
  /\ UNCHANGED <<kind, provider, cancellation, generator, unwanted, chunks, clip, framing,
                 sent, control>>

ReceiverPuts ==
  /\ receiver = "putting" /\ ~unwanted /\ Len(chunks) < Capacity
  /\ chunks' = Append(chunks, item)
  /\ receiver' = IF item \in Units THEN "looping" ELSE "over"
  /\ UNCHANGED <<kind, provider, cancellation, generator, item, unwanted, clip, framing,
                 sent, control>>

\* A cancelled receiver waits for the next that is under way, shielded.
ReceiverStops ==
  /\ unwanted /\ receiver # "over" /\ (receiver = "asking" => Returned)
  /\ receiver' = "over"
  /\ UNCHANGED <<kind, provider, cancellation, generator, item, unwanted, chunks, clip,
                 framing, sent, control>>

-----------------------------------------------------------------------------
\* A whole clip: synthesize in a thread, which tries twice.

\* What synthesize of a provider comes to: audio, or nothing that can be
\* played, because it was refused, cancelled or is no such audio.
Clips == {"audio", "none"}

Synthesized(result) ==
  /\ clip \in {"first", "second"} /\ clip' = result
  /\ UNCHANGED <<kind, provider, cancellation, generator, receiving, framing, sent, control>>

SynthesisRetried ==
  /\ clip = "first" /\ ~token /\ clip' = "second"
  /\ UNCHANGED <<kind, provider, cancellation, generator, receiving, framing, sent, control>>

-----------------------------------------------------------------------------
\* speak_response: frames.

\* Broken: what does not fill a frame is lost.
LoseTheRest(units) ==
  LET all == pending \o units
  IN  /\ outbox' = SubSeq(all, 1, Len(all) - (Len(all) % Frame))
      /\ pending' = <<>> /\ buffered' = <<>>

\* push: what was left over comes first, and full frames are made.
Push(units) ==
  LET all == pending \o units
      framed == Len(all) - (Len(all) % Frame)
  IN  /\ outbox' = SubSeq(all, 1, framed) /\ pending' = SubSeq(all, framed + 1, Len(all))
      /\ buffered' = <<>>

\* push and finish: the last frame is filled up with silence.
PushAll(units) ==
  outbox' = pending \o units /\ pending' = <<>> /\ buffered' = <<>>

\* Broken: the receiver is not cancelled, which may wait for room in the queue.
LeaveReceiver == UNCHANGED <<cancellation, events, unwanted>>

\* The finally: a receiver that still works is cancelled with the provider.
StopReceiver ==
  IF receiver = "over" THEN UNCHANGED <<cancellation, events, unwanted>>
                       ELSE CancelToken /\ unwanted' = TRUE

After(result) ==
  IF kind # "whole" THEN "awaiting" ELSE IF result = "spoken" THEN "finishing" ELSE "over"

TearDown(result) ==
  StopReceiver /\ stage' = After(result) /\ outcome' = result

\* What is received is framed, but not before Startup is there.
Receive ==
  /\ stage = "getting" /\ chunks # <<>> /\ Head(chunks) \in Units
  /\ chunks' = Tail(chunks)
  /\ LET units == Append(buffered, Head(chunks)) IN
       IF ~prepared /\ Len(units) >= Startup
         THEN buffered' = units /\ stage' = "preparing" /\ UNCHANGED <<pending, outbox>>
         ELSE IF prepared /\ Len(units) >= Frame
           THEN Push(units) /\ stage' = "emitting"
           ELSE buffered' = units /\ UNCHANGED <<stage, pending, outbox>>
  /\ UNCHANGED <<kind, provider, cancellation, generator, receiver, item, unwanted, clip,
                 last, prepared, sent, outcome, cancels>>

ReceiveFailure ==
  /\ stage = "getting" /\ chunks # <<>> /\ Head(chunks) = Failure
  /\ chunks' = Tail(chunks) /\ stage' = "broken"
  /\ UNCHANGED <<kind, provider, cancellation, generator, receiver, item, unwanted, clip,
                 framing, sent, outcome, cancels>>

\* A short reply is prepared now.
ReceiveEnd ==
  /\ stage = "getting" /\ chunks # <<>> /\ Head(chunks) = End /\ receiver = "over"
  /\ chunks' = Tail(chunks) /\ last' = TRUE
  /\ IF prepared THEN /\ stage' = "emitting" /\ PushAll(buffered)
                      /\ UNCHANGED <<outcome, cancellation, events, unwanted>>
     ELSE IF buffered # <<>>
       THEN /\ stage' = "preparing"
            /\ UNCHANGED <<outcome, buffered, pending, outbox, cancellation, events, unwanted>>
       ELSE TearDown("refused") /\ UNCHANGED <<buffered, pending, outbox>>
  /\ UNCHANGED <<kind, server, settled, hand, worker, generator, receiver, item, clip,
                 prepared, sent, cancels>>

\* The clip is there, or is not: in both cases the output is prepared.
ReceiveClip ==
  /\ stage = "synthesizing" /\ clip \in Clips
  /\ stage' = "preparing" /\ last' = TRUE
  /\ buffered' = IF clip = "audio" THEN Reply ELSE <<>>
  /\ UNCHANGED <<kind, provider, cancellation, generator, receiving, clip, pending, outbox,
                 prepared, sent, outcome, cancels>>

\* prepare_response_output
Prepare ==
  /\ stage = "preparing" /\ prepared' = TRUE
  /\ IF buffered = <<>> THEN TearDown("refused") /\ UNCHANGED <<buffered, pending, outbox>>
     ELSE /\ stage' = "emitting" /\ IF last THEN PushAll(buffered) ELSE Push(buffered)
          /\ UNCHANGED <<outcome, cancellation, events, unwanted>>
  /\ UNCHANGED <<kind, server, settled, hand, worker, generator, receiver, item, chunks,
                 clip, last, sent, cancels>>

Refuse ==
  /\ stage = "preparing" /\ TearDown("refused")
  /\ UNCHANGED <<kind, server, settled, hand, worker, generator, receiver, item, chunks,
                 clip, framing, sent, cancels>>

NextFrame == IF Len(outbox) < Frame THEN Len(outbox) ELSE Frame

\* The first frame commits the speech.
Emit ==
  /\ stage = "emitting" /\ outbox # <<>>
  /\ played' = played \o SubSeq(outbox, 1, NextFrame)
  /\ outbox' = SubSeq(outbox, NextFrame + 1, Len(outbox)) /\ committed' = TRUE
  /\ UNCHANGED <<kind, provider, cancellation, generator, receiving, clip, buffered, pending,
                 last, prepared, ended, control>>

\* Its turn is no longer what it was.
FirstFrameRefused ==
  /\ stage = "emitting" /\ outbox # <<>> /\ ~committed
  /\ played' = SubSeq(outbox, 1, NextFrame) /\ TearDown("refused")
  /\ UNCHANGED <<kind, server, settled, hand, worker, generator, receiver, item, chunks,
                 clip, framing, committed, ended, cancels>>

Emitted ==
  /\ stage = "emitting" /\ outbox = <<>>
  /\ IF last THEN TearDown("spoken")
             ELSE stage' = "getting" /\ UNCHANGED <<outcome, cancellation, events, unwanted>>
  /\ UNCHANGED <<kind, server, settled, hand, worker, generator, receiver, item, chunks,
                 clip, framing, sent, cancels>>

OutputFails ==
  /\ stage = "preparing" \/ (stage = "emitting" /\ outbox # <<>>)
  /\ stage' = "broken"
  /\ UNCHANGED <<kind, provider, cancellation, generator, receiving, clip, framing, sent,
                 outcome, cancels>>

\* Broken: a reply that breaks off is left without an end.
LeaveOpen == UNCHANGED ended

\* _close_unfinished_stream: what was heard is ended.  Whether output_finished
\* raises makes no difference here: the exception is swallowed.  ended counts
\* the calls, and not what reached Sound.
CloseUnfinished == ended' = IF committed THEN ended + 1 ELSE ended

BreakOff ==
  /\ stage = "broken" /\ CloseUnfinished /\ TearDown("failed")
  /\ UNCHANGED <<kind, server, settled, hand, worker, generator, receiver, item, chunks,
                 clip, framing, played, committed, cancels>>

\* The receiver has come to an end: the generator is closed.
ReceiverAwaited ==
  /\ stage = "awaiting" /\ receiver = "over"
  /\ stage' = "closing" /\ closing' = "asked"
  /\ UNCHANGED <<kind, provider, cancellation, gen, holder, got, receiving, clip, framing,
                 sent, outcome, cancels>>

SynthesisClosed ==
  /\ stage = "closing" /\ closing = "done"
  /\ stage' = IF outcome = "spoken" /\ committed THEN "finishing" ELSE "over"
  /\ UNCHANGED <<kind, provider, cancellation, generator, receiving, clip, framing, sent,
                 outcome, cancels>>

\* output_finished is called, and the caller sees it when it raises.
FinishOutput ==
  /\ stage = "finishing" /\ stage' = "over" /\ ended' = ended + 1
  /\ UNCHANGED <<kind, provider, cancellation, generator, receiving, clip, framing, played,
                 committed, outcome, cancels>>

\* The task is cancelled at an await.  While it waits for its receiver, it
\* swallows that and goes on.
Cancel ==
  /\ cancels < MaxCancels /\ stage # "over" /\ cancels' = cancels + 1
  /\ CASE stage \in {"getting", "preparing", "emitting", "broken"} ->
            /\ CancelToken /\ unwanted' = (receiver # "over")
            /\ stage' = After("cancelled") /\ outcome' = "cancelled" /\ UNCHANGED closing
       [] stage = "synthesizing" ->
            /\ CancelToken /\ stage' = "over" /\ outcome' = "cancelled"
            /\ UNCHANGED <<unwanted, closing>>
       [] stage = "awaiting" ->
            /\ stage' = "closing" /\ closing' = "asked"
            /\ UNCHANGED <<outcome, cancellation, events, unwanted>>
       [] stage \in {"closing", "finishing"} ->
            /\ CancelToken /\ stage' = "over" /\ outcome' = "cancelled"
            /\ UNCHANGED <<unwanted, closing>>
  /\ UNCHANGED <<kind, server, settled, hand, worker, gen, holder, got, receiver, item,
                 chunks, clip, framing, sent>>

-----------------------------------------------------------------------------
Init ==
  /\ kind \in Kinds
  /\ server = [said |-> 0, fate |-> "idle", told |-> FALSE] /\ events = <<>>
  /\ settled = FALSE /\ hand = [t \in Threads |-> Nothing] /\ worker = "none"
  /\ stopped = FALSE /\ token = FALSE /\ bound = FALSE
  /\ gen = (IF kind = "whole" THEN "closed" ELSE "fresh")
  /\ holder = "none" /\ got = Nothing /\ closing = "no"
  /\ receiver = (IF kind = "whole" THEN "over" ELSE "looping")
  /\ item = Nothing /\ unwanted = FALSE /\ chunks = <<>>
  /\ clip = (IF kind = "whole" THEN "first" ELSE "no")
  /\ stage = (IF kind = "whole" THEN "synthesizing" ELSE "getting") /\ outcome = "none"
  /\ last = FALSE /\ prepared = FALSE /\ buffered = <<>> /\ pending = <<>> /\ outbox = <<>>
  /\ played = <<>> /\ committed = FALSE /\ ended = 0 /\ cancels = 0

Worker    == WorkerStarts \/ WorkerCalls \/ WorkerFails \/ WorkerEnds
Generator == Resume \/ Read \/ ReadBreaks \/ StopTask \/ Join \/ CloseSynthesis
Receiver  == ReceiverAsks \/ ReceiverGets \/ ReceiverPuts \/ ReceiverStops
Synthesis == SynthesisRetried \/ \E result \in Clips : Synthesized(result)
Coroutine ==
  \/ Receive \/ ReceiveFailure \/ ReceiveEnd \/ ReceiveClip \/ Prepare \/ Refuse
  \/ Emit \/ FirstFrameRefused \/ Emitted \/ OutputFails \/ BreakOff
  \/ ReceiverAwaited \/ SynthesisClosed \/ FinishOutput

Next ==
  \/ OnData \/ TaskEnds("done") \/ TaskEnds("failed") \/ Tell
  \/ Delta \/ DoneMark \/ BodyEnds \/ BodyFails \/ Cancel
  \/ \E t \in Threads : Put(t)
  \/ Worker \/ Generator \/ Receiver \/ Synthesis \/ Coroutine

Spec == Init /\ [][Next]_vars

\* Threads and tasks run; calls of the provider come back, with an error when
\* they take too long.  That the provider says anything is not assumed.
FairSpec ==
  /\ Spec
  /\ \A t \in Threads : WF_vars(Put(t))
  /\ WF_vars(Worker) /\ WF_vars(BodyFails) /\ WF_vars(Generator) /\ WF_vars(Receiver)
  /\ WF_vars(Synthesis) /\ WF_vars(Coroutine)

-----------------------------------------------------------------------------
\* Sound is sent the reply from its beginning, in order, without a gap and
\* nothing twice; and what is reported as spoken was sent to the last unit of
\* the reply, or of the raw body, unless a realtime task failed and its worker
\* was told first.
PlaysWhatWasSaid ==
  /\ played = SubSeq(Reply, 1, Len(played))
  /\ stage = "over" /\ outcome = "spoken" =>
       \/ played = IF kind = "raw" THEN SubSeq(Reply, 1, server.said) ELSE Reply
       \/ kind = "realtime" /\ server.fate = "failed"

\* The end of what Sound has begun to play is asked for once, whether the reply
\* was whole or broke off, or else its coroutine was cancelled; that of what it
\* never agreed to play is not ("Sound keeps an output lease until the stream ends",
\* _close_unfinished_stream).
AudibleIsEnded ==
  /\ ended \in 0..1 /\ (ended = 1 => committed)
  /\ stage = "over" /\ committed /\ outcome # "cancelled" => ended = 1

Released ==
  /\ stage = "over" /\ receiver = "over" /\ gen = "closed" /\ holder = "none"
  /\ ~bound /\ worker \in {"none", "over"} /\ \A t \in Threads : hand[t] = Nothing
  /\ clip \notin {"first", "second"}

\* However the provider behaves and whenever the speech is cancelled, its
\* coroutine comes to an end, and leaves no task, thread, lock or callback
\* behind.
SpeechLetsGo == <>[]Released
=============================================================================
