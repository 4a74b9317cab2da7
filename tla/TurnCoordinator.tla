-------------------------- MODULE TurnCoordinator --------------------------
(***************************************************************************)
(* TurnCoordinator (src/orchestrator/agent_state.py): the logical phase of *)
(* the one turn a session works on, and the older turn whose audio a       *)
(* replacement would restore.  Every method is an operator from a state to *)
(* a state; a callback of another turn, epoch or phase leaves it alone.    *)
(*                                                                         *)
(* Left out: the effects returned to callers that ignore them, the tool    *)
(* phase no caller enters, and the gate methods of the retired pipeline.   *)
(***************************************************************************)
EXTENDS Naturals

Phases == {"idle", "reasoning", "synthesizing", "cutover_pending", "playing",
           "completed", "cancelled", "failed"}

NoTurn == 0

AgentState == [turn : Nat, epoch : Nat, phase : Phases, retained : Nat]

AgentInit == [turn |-> NoTurn, epoch |-> 0, phase |-> "idle", retained |-> NoTurn]

Preparing == {"reasoning", "synthesizing", "cutover_pending"}

Advance(c, t, epoch, from, to) ==
  IF c.turn = t /\ c.epoch = epoch /\ c.phase \in from
  THEN [c EXCEPT !.phase = to]
  ELSE c

\* enqueue and start_reasoning, which every caller makes together
Enqueue(c, t, epoch, replacement) ==
  IF epoch < c.epoch THEN c
  ELSE [turn |-> t, epoch |-> epoch, phase |-> "reasoning",
        retained |-> IF replacement /\ c.phase = "playing" THEN c.turn ELSE NoTurn]

\* A second segment of a turn keeps the first one's audio playing meanwhile.
StartSynthesizing(c, t, epoch) ==
  IF c.turn = t /\ c.epoch = epoch /\ c.phase \in {"playing", "completed"}
  THEN [c EXCEPT !.phase = "synthesizing",
                 !.retained = IF c.phase = "playing" THEN t ELSE NoTurn]
  ELSE Advance(c, t, epoch, {"reasoning"}, "synthesizing")

AwaitCutover(c, t, epoch) == Advance(c, t, epoch, {"synthesizing"}, "cutover_pending")

PlaybackStarted(c, t, epoch) ==
  IF c.turn = t /\ c.epoch = epoch /\ c.phase \in {"synthesizing", "cutover_pending"}
  THEN [c EXCEPT !.phase = "playing", !.retained = NoTurn]
  ELSE c

RestoreRetained(c, t, epoch) ==
  IF /\ c.turn = t /\ c.epoch = epoch
     /\ c.phase = "cutover_pending"
     /\ c.retained # NoTurn
  THEN [c EXCEPT !.phase = "playing", !.turn = c.retained, !.retained = NoTurn]
  ELSE c

PlaybackFinished(c, t, epoch) == Advance(c, t, epoch, {"playing"}, "completed")

OutputLost(c, t, epoch) ==
  Advance(c, t, epoch, {"synthesizing", "cutover_pending", "playing"}, "failed")

CompleteWithoutOutput(c, t, epoch) == Advance(c, t, epoch, {"reasoning"}, "completed")

CancelTurn(c, t, epoch) == Advance(c, t, epoch, Preparing, "cancelled")

\* Broken: a rejected replacement of the first frame fails nothing.
FailOnlyReasoning(c, t, epoch) == Advance(c, t, epoch, {"reasoning"}, "failed")

FailTurn(c, t, epoch) == Advance(c, t, epoch, Preparing, "failed")
=============================================================================
