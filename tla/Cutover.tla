------------------------------ MODULE Cutover ------------------------------
(***************************************************************************)
(* How generated speech takes over an output stream.  The module composes  *)
(* the output fence, the turn coordinator and the control connection to    *)
(* Sound with the coroutines between them: the TTS task of a speech        *)
(* (scheduler_runtime.py), the bridge that paces its audio                 *)
(* (onsite_bridge.py), the exchange that flushes the old audio             *)
(* (transport_hub.py) and the registry tasks that fence both.              *)
(*                                                                         *)
(* An action is the code between two awaits.  A speech moves through       *)
(*                                                                         *)
(*   ready -> synthesizing -> announcing ------------> emitting -> done    *)
(*                        \-> flushing -> admitting -/                     *)
(*                                                                         *)
(* and from anywhere through aborting to done.                             *)
(*                                                                         *)
(* One turn opens one cancellation epoch (SessionTasks shows what that     *)
(* does to its tasks), so the active turn stands for the epoch as well.    *)
(***************************************************************************)
EXTENDS OutputFence, TurnCoordinator, SoundControl, FiniteSets

CONSTANTS
  MaxTurn,    \* bound on the turns admitted
  Operating,  \* the turns whose response asks for an operation
  Troubles    \* what may go wrong besides newer turns

ASSUME CutoverAssumption ==
  /\ MaxTurn \in Nat
  /\ Operating \subseteq 1..MaxTurn
  /\ Troubles \subseteq
       {"refusal",   \* Sound leaves a flush unanswered, or answers too late
        "provider",  \* synthesis fails
        "deadline",  \* the TTS task runs out of time before its first frame is accepted
        "sink",      \* the connection to Sound goes down
        "revoke",    \* an identity is revoked
        "trust"}     \* an identity or knowledge revision changes

VARIABLES
  activeTurn, \* the scheduler's active turn, and the cancellation epoch
  fence,      \* SchedulerOutputFence
  agent,      \* TurnCoordinator
  window,     \* is a playback window open (_playback_started_at_ms)?
  pc,         \* where the coroutine of a speech is suspended
  cut,        \* a cancellation the coroutine has yet to see
  out,        \* the output epoch the speech was given
  asked,      \* the flush request of its exchange
  tts,        \* the registry task of the speech
  flush       \* the registry task of its exchange

speechVars == <<pc, cut, out, asked>>
taskVars   == <<tts, flush>>
vars == <<activeTurn, fence, agent, window, speechVars, taskVars, controlVars>>

\* A turn speaks at most twice: at once, and when its operation has a result.
Speeches == (1..MaxTurn) \X {"initial", "final"}
Turn(s)  == s[1]

\* fresh: the identity and knowledge revisions are those of the request
Task    == [state : {"none", "running", "succeeded", "cancelled", "timed_out", "failed"},
            fresh : BOOLEAN]
NoTask  == [state |-> "none", fresh |-> FALSE]
Started == [state |-> "running", fresh |-> TRUE]

Running(task)      == task.state = "running"
Settle(task, with) == IF Running(task) THEN [task EXCEPT !.state = with] ELSE task

Suspended == {"synthesizing", "announcing", "flushing", "admitting"}
Exchanging == {"flushing", "admitting"}

\* _lifecycle_rejection and _snapshot_rejection, which sound_flush_is_current
\* repeats: what a task needs for its result to count.
Counts(task, s) == Running(task) /\ task.fresh /\ Turn(s) = activeTurn

Playing(s) == pc[s] = "emitting"
Audible(s) == Playing(s) /\ CanEmit(fence, out[s], activeTurn)

-----------------------------------------------------------------------------
(* Turns                                                                   *)

\* Broken: a newer turn leaves the tasks of the older one open.
LeaveRunning(tasks) == tasks

CancelRunning(tasks) == [s \in Speeches |-> Settle(tasks[s], "cancelled")]

\* A cancellation requested of these coroutines; one that was given up before
\* stays so, and a waiter one of them waits on is done.
Cut(S, how) ==
  /\ cut' = [s \in Speeches |-> IF s \in S /\ cut[s] = "no" THEN how ELSE cut[s]]
  /\ DropWaiter(\E s \in S : pc[s] \in {"announcing", "admitting"})

\* Broken: a newer turn leaves the coroutines of the older one alone.
NothingToCut == {}

\* _cancel_active_preoutput_tts_providers: the coroutines of the TTS tasks
\* that the new turn has just cancelled.
SupersededSpeeches == {s \in Speeches : Running(tts[s]) /\ pc[s] \in Suspended}

\* _advance_turn_epoch, then _begin_response_turn
Admitted(t) ==
  LET fenced == CancelTurn(agent, agent.turn, activeTurn) IN
  Enqueue(fenced, t, t, HasPlayback(fence) \/ fenced.phase = "playing")

\* An accepted candidate: the turn, its epoch, its first response task and, if
\* it says anything, the TTS task of its speech, all in one step.
AdmitTurn(speaks) ==
  LET t == activeTurn + 1 IN
  /\ t <= MaxTurn
  /\ activeTurn' = t
  /\ fence' = Retain(fence)
  /\ agent' = IF speaks THEN StartSynthesizing(Admitted(t), t, t)
              ELSE IF t \in Operating THEN Admitted(t)
              ELSE CompleteWithoutOutput(Admitted(t), t, t)
  /\ tts' = [CancelRunning(tts) EXCEPT ![<<t, "initial">>] = IF speaks THEN Started ELSE NoTask]
  /\ flush' = CancelRunning(flush)
  /\ pc' = [s \in Speeches |->
              CASE s = <<t, "initial">> -> IF speaks THEN "ready" ELSE "done"
                [] s = <<t, "final">>   -> IF t \in Operating THEN "awaited" ELSE "done"
                [] OTHER -> IF pc[s] = "awaited" THEN "done" ELSE pc[s]]
  /\ Cut(SupersededSpeeches, "cancelled")
  /\ UNCHANGED <<window, out, asked, sink, toSound, fromSound, admission, admitted,
                 reportable, soundVars>>

\* The operation of the turn has ended, and the final response says something,
\* says nothing, or there is none.
AnswerOperation(s, how) ==
  LET t == Turn(s) IN
  /\ pc[s] = "awaited"
  /\ pc' = [pc EXCEPT ![s] = IF how = "speech" THEN "ready" ELSE "done"]
  /\ tts' = IF how = "speech" THEN [tts EXCEPT ![s] = Started] ELSE tts
  /\ agent' = CASE how = "speech"  -> StartSynthesizing(agent, t, t)
                [] how = "silence" -> CompleteWithoutOutput(agent, t, t)
                [] how = "failure" -> Advance(agent, t, t, {"reasoning"}, "failed")
  /\ UNCHANGED <<activeTurn, fence, window, cut, out, asked, flush, controlVars>>

\* revoke_profile_consent, expire_profiles, delete_profile: the tasks are
\* cancelled behind the backs of the coroutines that run them.
RevokeIdentity ==
  /\ "revoke" \in Troubles
  /\ tts' = CancelRunning(tts)
  /\ flush' = CancelRunning(flush)
  /\ <<tts', flush'>> # <<tts, flush>>
  /\ UNCHANGED <<activeTurn, fence, agent, window, speechVars, controlVars>>

Outdated(tasks) == [s \in Speeches |-> [tasks[s] EXCEPT !.fresh = FALSE]]

\* an enrolment, a correction, a new corpus or index
ChangeTrust ==
  /\ "trust" \in Troubles
  /\ tts' = Outdated(tts)
  /\ flush' = Outdated(flush)
  /\ <<tts', flush'>> # <<tts, flush>>
  /\ UNCHANGED <<activeTurn, fence, agent, window, speechVars, controlVars>>

-----------------------------------------------------------------------------
(* The TTS task of a speech, up to its first audio                         *)

\* Broken: it does not wait.
IsAlwaysNext(s) == TRUE

\* _run_agent_tts: a turn's second speech waits for the first.
IsNext(s) == s[2] = "final" => pc[<<Turn(s), "initial">>] = "done"

\* run_agent_tts_for_turn
BeginSpeech(s) ==
  /\ pc[s] = "ready" /\ IsNext(s)
  /\ pc' = [pc EXCEPT ![s] = IF Running(tts[s]) THEN "synthesizing" ELSE "done"]
  /\ agent' = IF Running(tts[s]) THEN StartSynthesizing(agent, Turn(s), Turn(s)) ELSE agent
  /\ UNCHANGED <<activeTurn, fence, window, cut, out, asked, taskVars, controlVars>>

\* The first second of audio is there.  Synthesizing it takes longer than the
\* event loop needs to deliver a cancellation, and than the 10 ms between two
\* polls of an exchange that has become stale.
HasFirstAudio(s) ==
  /\ pc[s] = "synthesizing"
  /\ \A u \in Speeches : cut[u] = "no"
  /\ \A u \in Speeches : pc[u] = "flushing" => Counts(flush[u], u)

Leave(s) == pc' = [pc EXCEPT ![s] = "aborting"]

\* allocate_onsite_response_output: the lease is active before Sound is told.
PrepareFreshOutput(s) ==
  LET f == Activate(fence, Turn(s)) IN
  /\ HasFirstAudio(s)
  /\ ~ HasLease(fence)
  /\ Turn(s) = activeTurn
  /\ fence' = f
  /\ out' = [out EXCEPT ![s] = f.lease.epoch]
  /\ IF sink
     THEN /\ pc' = [pc EXCEPT ![s] = "announcing"]
          /\ readyWaiter' = "waiting"
          /\ reportable' = f.lease.epoch
     ELSE Leave(s) /\ UNCHANGED <<readyWaiter, reportable>>
  /\ Send(<<Command(f.lease.epoch)>>)
  /\ UNCHANGED <<activeTurn, agent, window, cut, asked, taskVars, sink, fromSound,
                 admission, admitted, soundVars>>

\* response_cutover_pending
CutoverPending == agent.epoch = activeTurn /\ agent.phase = "synthesizing"

\* _schedule_sound_flush_task asks it of the coordinator's own turn only.
MayCutOver(s) == agent.turn = Turn(s) => CutoverPending

\* prepare_onsite_response_output over an active lease: the replacement, the
\* task that fences it and the flush that Sound is asked for.
PrepareReplacement(s) ==
  LET f == Interrupt(fence, Turn(s)) IN
  /\ HasFirstAudio(s)
  /\ HasLease(fence)
  /\ Turn(s) = activeTurn
  /\ MayCutOver(s)
  /\ fence' = f
  /\ agent' = AwaitCutover(agent, Turn(s), activeTurn)
  /\ flush' = [flush EXCEPT ![s] = Started]
  /\ out' = [out EXCEPT ![s] = f.pending.lease.epoch]
  /\ asked' = [asked EXCEPT ![s] = f.requests]
  /\ pc' = [pc EXCEPT ![s] = "flushing"]
  /\ BeginFlush(f.requests)
  /\ Send(<<Flush(f.requests)>>)
  /\ UNCHANGED <<activeTurn, window, cut, tts, sink, fromSound, readyWaiter, reportable,
                 soundVars>>

\* The turn is over, or the coordinator is not preparing speech: in the second
\* case the replacement has already been opened and is dropped again.
RefuseOutput(s) ==
  /\ HasFirstAudio(s)
  /\ Turn(s) # activeTurn \/ (HasLease(fence) /\ ~ MayCutOver(s))
  /\ fence' = IF Turn(s) = activeTurn THEN Abandon(Interrupt(fence, Turn(s))) ELSE fence
  /\ Leave(s)
  /\ UNCHANGED <<activeTurn, agent, window, cut, out, asked, taskVars, controlVars>>

-----------------------------------------------------------------------------
(* The exchange with Sound: _await_replacement_flush polls, and every way  *)
(* out of it but one fails its task and abandons the replacement.          *)

\* fail_sound_flush: a task closed by somebody else restores nothing.
RestoredAgent(s) ==
  IF Running(flush[s]) THEN RestoreRetained(agent, Turn(s), activeTurn) ELSE agent

\* Broken: the coordinator is told, the fence is not.
EndExchangeKeepingFence(s, with) ==
  /\ flush' = [flush EXCEPT ![s] = Settle(@, with)]
  /\ agent' = RestoredAgent(s)
  /\ UNCHANGED fence

\* Broken: what Sound has flushed is not taken back any more.
EndExchangeKeepingLease(s, with) ==
  /\ flush' = [flush EXCEPT ![s] = Settle(@, with)]
  /\ agent' = RestoredAgent(s)
  /\ fence' = IF fence.acknowledged # NoReplacement THEN Commit(fence) ELSE Abandon(fence)

EndExchange(s, with) ==
  /\ flush' = [flush EXCEPT ![s] = Settle(@, with)]
  /\ agent' = RestoredAgent(s)
  /\ fence' = Abandon(fence)

Polls(s) == pc[s] = "flushing" /\ cut[s] = "no"

ExchangeIsStale(s) ==
  /\ Polls(s)
  /\ ~ Counts(flush[s], s)
  /\ EndExchange(s, "failed")
  /\ Leave(s)
  /\ UNCHANGED <<activeTurn, window, cut, out, asked, tts, controlVars>>

\* sound_flush_is_current finds the deadline passed, and closes the task
\* itself before fail_sound_flush can see it running.
ExchangeExpires(s) ==
  /\ "refusal" \in Troubles
  /\ Polls(s)
  /\ flush' = [flush EXCEPT ![s] = Settle(@, "timed_out")]
  /\ fence' = Abandon(fence)
  /\ Leave(s)
  /\ UNCHANGED <<activeTurn, agent, window, cut, out, asked, tts, controlVars>>

\* the three seconds of the polling loop are over
ExchangeTimesOut(s) ==
  /\ Troubles \cap {"refusal", "sink"} # {}
  /\ Polls(s)
  /\ EndExchange(s, "failed")
  /\ Leave(s)
  /\ UNCHANGED <<activeTurn, window, cut, out, asked, tts, controlVars>>

Acknowledged(s) == CanEmit(fence, out[s], activeTurn)

\* _replace_ready_waiter: whoever waited for the answer before is cancelled.
\* (A waiter that is done resumes first.)
ReplaceWaiter(s) ==
  /\ readyWaiter # "done"
  /\ readyWaiter' = "waiting"
  /\ cut' = [u \in Speeches |->
               IF u # s /\ pc[u] \in {"announcing", "admitting"} /\ cut[u] = "no"
               THEN "cancelled" ELSE cut[u]]

\* admit_replacement.  Its checks that the sink is there and has admitted this
\* very flush never fail: AcknowledgedIsAdmitted.
AdmitReplacement(s) ==
  /\ Polls(s)
  /\ Counts(flush[s], s)
  /\ Acknowledged(s)
  /\ sink /\ admitted = asked[s]
  /\ pc' = [pc EXCEPT ![s] = "admitting"]
  /\ Send(<<Command(out[s])>>)
  /\ ReplaceWaiter(s)
  /\ reportable' = out[s]
  /\ UNCHANGED <<activeTurn, fence, agent, window, out, asked, taskVars, sink,
                 fromSound, admission, admitted, soundVars>>

-----------------------------------------------------------------------------
(* First audio                                                             *)

Resumes(s, where) == pc[s] = where /\ cut[s] = "no" /\ readyWaiter = "done"

\* The first frame goes out, and accept_output_started commits the task; or it
\* finds, the frame already on its way, that the task no longer counts or that
\* its deadline is over, and then the reducer closes it.
StartOutput(s) ==
  \/ /\ Counts(tts[s], s)
     /\ tts' = [tts EXCEPT ![s].state = "succeeded"]
     /\ window' = TRUE
     /\ agent' = PlaybackStarted(agent, Turn(s), Turn(s))
     /\ pc' = [pc EXCEPT ![s] = "emitting"]
  \/ /\ IF Counts(tts[s], s)
        THEN "deadline" \in Troubles /\ tts' = [tts EXCEPT ![s].state = "timed_out"]
        ELSE UNCHANGED tts
     /\ Leave(s)
     /\ UNCHANGED <<window, agent>>

StartFresh(s) ==
  /\ Resumes(s, "announcing")
  /\ readyWaiter' = "none"
  /\ StartOutput(s)
  /\ UNCHANGED <<activeTurn, fence, cut, out, asked, flush, sink, toSound, fromSound,
                 admission, admitted, reportable, soundVars>>

Accepted(s) == Counts(flush[s], s) /\ Committable(fence, out[s])

\* complete_sound_flush accepts, and commit_replacement makes it irreversible.
CommitReplacement(s) ==
  /\ Resumes(s, "admitting")
  /\ Accepted(s)
  /\ readyWaiter' = "none"
  /\ flush' = [flush EXCEPT ![s].state = "succeeded"]
  /\ fence' = Commit(fence)
  /\ StartOutput(s)
  /\ UNCHANGED <<activeTurn, cut, out, asked, sink, toSound, fromSound, admission,
                 admitted, reportable, soundVars>>

\* complete_sound_flush or commit_replacement refuses; the reducer closes a task
\* that is late by itself, as sound_flush_is_current does.
RefuseReplacement(s, late) ==
  LET counts == Counts(flush[s], s) IN
  /\ Resumes(s, "admitting")
  /\ late => "refusal" \in Troubles
  /\ late \/ ~ Accepted(s)
  /\ readyWaiter' = "none"
  /\ flush' = [flush EXCEPT ![s] = Settle(@, IF ~ counts THEN "failed"
                                            ELSE IF late THEN "timed_out" ELSE "succeeded")]
  /\ agent' = IF counts THEN agent ELSE RestoredAgent(s)
  /\ fence' = Abandon(fence)
  /\ Leave(s)
  /\ UNCHANGED <<activeTurn, window, cut, out, asked, tts, sink, toSound, fromSound,
                 admission, admitted, reportable, soundVars>>

-----------------------------------------------------------------------------
(* The end of a speech                                                     *)

\* finish_generated_stream: only the epoch Sound was last told of can end.
EndOf(s) == IF sink /\ reportable = out[s] THEN <<End(out[s])>> ELSE << >>

\* all frames are paced out
FinishSpeech(s) ==
  /\ pc[s] = "emitting" /\ cut[s] = "no"
  /\ Send(EndOf(s))
  /\ pc' = [pc EXCEPT ![s] = "done"]
  /\ UNCHANGED <<activeTurn, fence, agent, window, cut, out, asked, taskVars, sink,
                 fromSound, dispatchVars, soundVars>>

\* Broken: an audible stream that breaks off is not ended.
BreakOffSilently(s) == UNCHANGED toSound

\* _close_unfinished_stream
BreakOff(s) == Send(IF Playing(s) THEN EndOf(s) ELSE << >>)

ProviderFails(s) ==
  /\ "provider" \in Troubles
  /\ pc[s] \in {"synthesizing", "emitting"} /\ cut[s] = "no"
  /\ BreakOff(s)
  /\ Leave(s)
  /\ UNCHANGED <<activeTurn, fence, agent, window, cut, out, asked, taskVars, sink,
                 fromSound, dispatchVars, soundVars>>

CloseWindow == window' = FALSE

\* response_output_unverified, told of a speech that was audible
Unverified(s) ==
  IF agent.turn = Turn(s) THEN CloseWindow /\ agent' = OutputLost(agent, Turn(s), agent.epoch)
                          ELSE UNCHANGED <<window, agent>>

\* _abandon_agent_tts_task, after the first audio and before it
AbandonSpeech(s) ==
  /\ pc[s] = "aborting"
  /\ pc' = [pc EXCEPT ![s] = "done"]
  /\ tts' = [tts EXCEPT ![s] = Settle(@, "cancelled")]
  /\ IF tts[s].state = "succeeded"
     THEN Unverified(s)
     ELSE agent' = FailTurn(agent, Turn(s), Turn(s)) /\ UNCHANGED window
  /\ UNCHANGED <<activeTurn, fence, cut, out, asked, flush, controlVars>>

\* _await_preoutput_tts_provider: the owner gives the speech up at once, the
\* coroutine learns of it afterwards.
SpeechTimesOut(s) ==
  /\ "deadline" \in Troubles
  /\ pc[s] \in Suspended /\ cut[s] = "no"
  /\ tts' = [tts EXCEPT ![s] = Settle(@, "timed_out")]
  /\ agent' = FailTurn(agent, Turn(s), Turn(s))
  /\ Cut({s}, "abandoned")
  /\ UNCHANGED <<activeTurn, fence, window, pc, out, asked, flush, sink, toSound,
                 fromSound, admission, admitted, reportable, soundVars>>

\* CancelledError reaches the coroutine.
DeliverCancellation(s) ==
  /\ cut[s] # "no"
  /\ cut' = [cut EXCEPT ![s] = "no"]
  /\ pc' = [pc EXCEPT ![s] = IF cut[s] = "abandoned" THEN "done" ELSE "aborting"]
  /\ IF pc[s] \in Exchanging THEN EndExchange(s, "failed")
     ELSE UNCHANGED <<flush, agent, fence>>
  /\ UNCHANGED <<activeTurn, window, out, asked, tts, controlVars>>

-----------------------------------------------------------------------------
(* Answers of Sound, handled by TransportControlDispatch.register          *)

Receives(kinds) ==
  /\ fromSound # << >>
  /\ Head(fromSound).kind \in kinds
  /\ fromSound' = Tail(fromSound)

ReceiveReady ==
  /\ Receives({"ready"})
  /\ readyWaiter' = IF readyWaiter = "waiting" THEN "done" ELSE readyWaiter
  /\ UNCHANGED <<activeTurn, fence, agent, window, speechVars, taskVars, sink, toSound,
                 admission, admitted, reportable, soundVars>>

\* Broken: the fence is told of every answer, the admitted flush or not.
TellFenceAlways(m) ==
  fence' = IF m.kind = "applied" THEN Acknowledge(fence, m.request) ELSE fence

\* FlushAdmission takes either disposition, the fence only the first.
TellFence(m) ==
  fence' = IF Answers(m) /\ m.kind = "applied" THEN Acknowledge(fence, m.request) ELSE fence

ReceiveAck ==
  LET m == Head(fromSound) IN
  /\ Receives({"applied", "replayed"})
  /\ IF Answers(m)
     THEN admission' = NoFlush /\ admitted' = m.request
     ELSE UNCHANGED <<admission, admitted>>
  /\ TellFence(m)
  /\ UNCHANGED <<activeTurn, agent, window, speechVars, taskVars, sink, toSound,
                 readyWaiter, reportable, soundVars>>

\* Broken: the coordinator completes whatever epoch it is in.
FinishedAgentInAnyPhase == [agent EXCEPT !.phase = "completed"]

\* response_playback_finished
FinishedAgent ==
  IF agent.epoch = activeTurn THEN PlaybackFinished(agent, agent.turn, activeTurn) ELSE agent

\* _accept_stream_state_lease, and then the fence's own check
ReceiveFinished ==
  LET e == Head(fromSound).epoch IN
  /\ Receives({"finished"})
  /\ IF reportable = e /\ Finishable(fence, e)
     THEN fence' = Release(fence) /\ CloseWindow /\ agent' = FinishedAgent
     ELSE UNCHANGED <<fence, window, agent>>
  /\ UNCHANGED <<activeTurn, speechVars, taskVars, sink, toSound, dispatchVars, soundVars>>

\* Broken: only what is audible is cancelled.
AudibleSpeeches == {s \in Speeches : pc[s] = "emitting"}

\* _speech_tasks: the coroutines that feed the stream, or are about to
FeedingSpeeches == {s \in Speeches : pc[s] \in Suspended \cup {"emitting"}}

\* response_output_lost
OutputIsLost == CloseWindow /\ agent' = OutputLost(agent, agent.turn, agent.epoch)

\* remove_connection: the fence is revoked and every coroutine that feeds the
\* stream is cancelled.
LoseSink ==
  /\ "sink" \in Troubles
  /\ Discard
  /\ fence' = Revoke(fence)
  /\ OutputIsLost
  /\ cut' = [s \in Speeches |->
               IF s \in FeedingSpeeches /\ cut[s] = "no" THEN "cancelled" ELSE cut[s]]
  /\ UNCHANGED <<activeTurn, pc, out, asked, taskVars>>

-----------------------------------------------------------------------------
Init ==
  /\ ControlInit
  /\ activeTurn = NoTurn
  /\ fence = FenceInit
  /\ agent = AgentInit
  /\ window = FALSE
  /\ pc = [s \in Speeches |-> "none"]
  /\ cut = [s \in Speeches |-> "no"]
  /\ out = [s \in Speeches |-> NoEpoch]
  /\ asked = [s \in Speeches |-> NoRequest]
  /\ tts = [s \in Speeches |-> NoTask]
  /\ flush = [s \in Speeches |-> NoTask]

Exchange(s) ==
  \/ ExchangeIsStale(s)
  \/ ExchangeExpires(s)
  \/ ExchangeTimesOut(s)
  \/ AdmitReplacement(s)
  \/ CommitReplacement(s)
  \/ \E late \in BOOLEAN : RefuseReplacement(s, late)

\* What a speech does by itself, sooner or later
Progress(s) ==
  \/ BeginSpeech(s)
  \/ PrepareFreshOutput(s)
  \/ PrepareReplacement(s)
  \/ RefuseOutput(s)
  \/ Exchange(s)
  \/ StartFresh(s)
  \/ FinishSpeech(s)
  \/ AbandonSpeech(s)
  \/ DeliverCancellation(s)

Speech(s) ==
  \/ \E how \in {"speech", "silence", "failure"} : AnswerOperation(s, how)
  \/ Progress(s)
  \/ ProviderFails(s)
  \/ SpeechTimesOut(s)

Dispatch == ReceiveReady \/ ReceiveAck \/ ReceiveFinished

Sound ==
  \/ SoundIsReady
  \/ SoundFlushes
  \/ SoundDrains
  \/ \E e \in draining : SoundFinishes(e)

elsewhere == <<activeTurn, fence, agent, window, speechVars, taskVars>>

Control ==
  \/ Sound /\ UNCHANGED elsewhere
  \/ "refusal" \in Troubles /\ (SoundRefuses \/ RetryFlush \/ GiveUpFlush) /\ UNCHANGED elsewhere
  \/ RegisterSink /\ UNCHANGED elsewhere

Next ==
  \/ \E speaks \in BOOLEAN : AdmitTurn(speaks)
  \/ \E s \in Speeches : Speech(s)
  \/ Dispatch
  \/ Control
  \/ LoseSink
  \/ RevokeIdentity
  \/ ChangeTrust

Spec == Init /\ [][Next]_vars

Fairness ==
  /\ \A s \in Speeches : WF_vars(Progress(s))
  /\ WF_vars(Dispatch)
  /\ WF_vars(Sound /\ UNCHANGED elsewhere)

FairSpec == Spec /\ Fairness

-----------------------------------------------------------------------------
(* Properties                                                              *)

\* The type of every variable.
TypeOK ==
  /\ activeTurn \in 0..MaxTurn
  /\ fence \in Fence
  /\ agent \in AgentState
  /\ window \in BOOLEAN
  /\ pc \in [Speeches -> {"none", "awaited", "ready", "emitting", "aborting", "done"} \cup Suspended]
  /\ cut \in [Speeches -> {"no", "cancelled", "abandoned"}]
  /\ out \in [Speeches -> Nat \cup {NoEpoch}]
  /\ asked \in [Speeches -> Nat]
  /\ tts \in [Speeches -> Task]
  /\ flush \in [Speeches -> Task]
  /\ sink \in BOOLEAN
  /\ toSound \in Seq(Messages)
  /\ fromSound \in Seq(Messages)
  /\ admission \in [request : Nat, retried : BOOLEAN]
  /\ admitted \in Nat
  /\ readyWaiter \in {"none", "waiting", "done"}
  /\ reportable \in Nat \cup {Unregistered}
  /\ applied \subseteq Nat
  /\ draining \subseteq Nat

\* Once a newer speech has been heard, the fence lets no frame of an older one
\* out, whatever became of the coroutine that still paces it.
NoStaleAudio ==
  \A old, new \in Speeches :
    tts[new].state = "succeeded" /\ out[old] < out[new] => ~ Audible(old)

\* No two speeches are ever heard under one epoch, and so under one SSRC,
\* however many leases ended, were lost or were taken back in between.
HeardEpochsDiffer ==
  \A s, u \in Speeches :
    tts[s].state = "succeeded" /\ tts[u].state = "succeeded" /\ out[s] = out[u] => s = u

\* The speeches before s: those of older turns, and the first of its own.
SpeechesBefore(s) ==
  {u \in Speeches : Turn(u) < Turn(s) \/ (Turn(u) = Turn(s) /\ u[2] = "initial" /\ s[2] = "final")}

\* A speech has begun with the first frame for which its task was committed.
HasBegun(s) == tts[s].state = "succeeded"

Generations == [s \in Speeches |-> IF HasBegun(s) THEN out[s] ELSE NoEpoch]
Ended       == {s \in Speeches : HasBegun(s) /\ pc[s] \in {"aborting", "done"}}
HeardNow    == {s \in Speeches : Audible(s)}

\* The stream as a listener knows it.
Stream == INSTANCE OutputStream WITH
  Before     <- [s \in Speeches |-> SpeechesBefore(s)],
  generation <- Generations,
  over       <- Ended,
  heard      <- HeardNow

\* Whatever leases, replacements, exchanges and messages do, a listener gets the
\* stream of OutputStream: speeches take it in their order, each as a newer
\* generation, only the latest falls silent and is taken up again, and one that
\* is over is never heard again.
ImplementsStream == Stream!StreamSpec

\* The registry tasks of the speeches and of their exchanges
TaskNames   == {"tts", "flush"} \X Speeches
TaskOf(n)   == IF n[1] = "tts" THEN tts[n[2]] ELSE flush[n[2]]
PhaseOf(n)  == CASE TaskOf(n).state = "none"      -> "none"
                 [] TaskOf(n).state = "running"   -> "open"
                 [] TaskOf(n).state = "succeeded" -> "done"
                 [] OTHER                         -> "closed"
StampOf(n)  == IF TaskOf(n).state = "none" THEN 0 ELSE Turn(n[2])

Ledger == INSTANCE TaskLedger WITH
  Tasks <- TaskNames,
  phase <- [n \in TaskNames |-> PhaseOf(n)],
  stamp <- [n \in TaskNames |-> StampOf(n)],
  fence <- activeTurn

\* The tasks here keep the promise that SessionTasks keeps with every task and
\* every check: they take effect once, under the turn that opened them, whoever
\* cancels or refuses them meanwhile, and a new turn closes them all.
TasksKeepTheLedger == Ledger!LedgerSpec

\* A replacement in the fence belongs to an exchange that is still going on:
\* whatever ends the exchange also takes the replacement away.  One that stays
\* behind silences the stream until the next one.
ReplacementHasItsExchange ==
  \A r \in {fence.pending, fence.acknowledged} \ {NoReplacement} :
    \E s \in Speeches : pc[s] \in Exchanging /\ out[s] = r.lease.epoch

\* The fence and the dispatcher hear of an acknowledgement in two places; an
\* exchange that the fence lets go on is one the dispatcher has admitted.
AcknowledgedIsAdmitted ==
  \A s \in Speeches :
    Polls(s) /\ Counts(flush[s], s) /\ Acknowledged(s) => sink /\ admitted = asked[s]

\* While the coordinator prepares speech, some coroutine of its turn will move
\* it on; without one the session would count as busy for ever.
PreparingHasASpeech ==
  agent.phase \in {"synthesizing", "cutover_pending"} =>
    \E s \in Speeches : Turn(s) = agent.turn /\ pc[s] \notin {"none", "done"}

\* A cancelled task is also a cancelled coroutine.
CancelledSpeechIsCut ==
  \A s \in Speeches :
    tts[s].state = "cancelled" /\ pc[s] \in Suspended => cut[s] # "no"

\* A turn that has begun to speak completes only when its own lease has been
\* reported finished, and the same step gives the stream back.
CompletedByItsOwnFinish ==
  [][/\ agent.phase \in {"synthesizing", "cutover_pending", "playing"}
     /\ agent'.phase = "completed" /\ agent'.turn = agent.turn
     => fence.lease.turn = agent.turn /\ fence'.lease = NoLease]_vars

Commits == fence.acknowledged # NoReplacement /\ fence' = Commit(fence)

\* A replacement becomes irreversible only for a speech that is still wanted,
\* and in the step that decides it: with its first frame or, when its deadline
\* passes between commit_replacement and accept_output_started, with its end.
\* Nothing else that happens to the speech lets its exchange be committed.
ReplacedOnlyByLiveSpeech ==
  [][Commits => \E s \in Speeches :
                  /\ out[s] = fence.lease.epoch
                  /\ Counts(tts[s], s)
                  /\ tts'[s].state \in {"succeeded", "timed_out"}]_vars

\* A speech that has begun comes to an end, whatever happens to its exchange,
\* its provider or Sound.
SpeechEnds ==
  \A s \in Speeches : pc[s] \in {"ready", "aborting", "emitting"} \cup Suspended ~> pc[s] = "done"

\* A playback window is closed again: an open one makes every later utterance
\* look like one spoken over the agent's own voice.
WindowCloses == window ~> ~ window

RolledBack(task) == task.state \in {"failed", "timed_out", "cancelled"}

\* While speeches keep their deadlines and the trust revisions stand, only an
\* exchange that was taken back can keep a window open: with every exchange
\* carried through each window closes, though providers fail and the connection
\* is lost.  (With "trust" or "deadline" an exchange can also be committed for a
\* speech that is then refused, and that leaves the older window open as well.)
WindowClosesUnlessRolledBack ==
  window ~> ~ window \/ \E s \in Speeches : RolledBack(flush[s])
=============================================================================
