---------------------------- MODULE CutoverProofs ----------------------------
(***************************************************************************)
(* The first theorems about Cutover, for any number of turns.  What the    *)
(* operators of the fence, the coordinator and the connection return, type *)
(* correctness, how the coroutines of the speeches follow each other, and  *)
(* that the tasks are a TaskLedger.  CutoverSafetyProofs builds on them.   *)
(***************************************************************************)
EXTENDS Cutover, TLAPS

-----------------------------------------------------------------------------
(* Speeches and tasks                                                      *)

\* A speech belongs to a turn, which may have another one.
LEMMA SpeechShape ==
  ASSUME NEW s \in Speeches
  PROVE  /\ Turn(s) \in 1..MaxTurn /\ Turn(s) \in Nat
         /\ <<Turn(s), "initial">> \in Speeches /\ <<Turn(s), "final">> \in Speeches
         /\ s = <<Turn(s), "initial">> \/ s = <<Turn(s), "final">>
BY CutoverAssumption DEF Speeches, Turn

\* The speeches of a turn are two.
LEMMA SpeechesOfTurn ==
  ASSUME NEW t \in 1..MaxTurn
  PROVE  /\ <<t, "initial">> \in Speeches /\ <<t, "final">> \in Speeches
         /\ Turn(<<t, "initial">>) = t /\ Turn(<<t, "final">>) = t
         /\ <<t, "initial">> # <<t, "final">>
BY DEF Speeches, Turn

Outcomes == {"succeeded", "cancelled", "timed_out", "failed"}

\* A task is settled once, and only its state changes.
LEMMA SettleShape ==
  ASSUME NEW task \in Task, NEW with \in Outcomes
  PROVE  /\ Settle(task, with) \in Task
         /\ ~ Running(Settle(task, with))
         /\ Settle(task, with).fresh = task.fresh
         /\ Settle(task, with).state = IF Running(task) THEN with ELSE task.state
BY DEF Settle, Task, Running, Outcomes

\* A task that is accepted, or closed because its result is late.
LEMMA SucceedShape ==
  ASSUME NEW task \in Task
  PROVE  /\ [task EXCEPT !.state = "succeeded"] \in Task
         /\ [task EXCEPT !.state = "succeeded"].state = "succeeded"
         /\ [task EXCEPT !.state = "timed_out"] \in Task
         /\ [task EXCEPT !.state = "timed_out"].state = "timed_out"
BY DEF Task

\* The tasks a new turn leaves behind.
LEMMA CancelRunningShape ==
  ASSUME NEW tasks \in [Speeches -> Task]
  PROVE  /\ CancelRunning(tasks) \in [Speeches -> Task]
         /\ \A s \in Speeches :
              /\ ~ Running(CancelRunning(tasks)[s])
              /\ CancelRunning(tasks)[s].fresh = tasks[s].fresh
              /\ CancelRunning(tasks)[s].state =
                   IF Running(tasks[s]) THEN "cancelled" ELSE tasks[s].state
<1>1. \A s \in Speeches : CancelRunning(tasks)[s] = Settle(tasks[s], "cancelled")
  BY DEF CancelRunning
<1>2. CancelRunning(tasks) \in [Speeches -> Task]
  BY SettleShape DEF CancelRunning, Outcomes
<1> QED
  BY <1>1, <1>2, SettleShape DEF Outcomes

\* Revisions change what a task is worth, not where it stands.
LEMMA OutdatedShape ==
  ASSUME NEW tasks \in [Speeches -> Task]
  PROVE  /\ Outdated(tasks) \in [Speeches -> Task]
         /\ \A s \in Speeches : Outdated(tasks)[s].state = tasks[s].state
BY DEF Outdated, Task

\* The tasks that begin.
LEMMA TasksBegin ==
  /\ NoTask \in Task /\ ~ Running(NoTask) /\ NoTask.state = "none"
  /\ Started \in Task /\ Running(Started) /\ Started.state = "running" /\ Started.fresh
BY DEF NoTask, Started, Task, Running

-----------------------------------------------------------------------------
(* The fence                                                               *)

\* A lease has a generation, and is none without.
LEMMA LeaseShape ==
  /\ NoLease \in Lease
  /\ \A l \in Lease : /\ l.turn \in Nat /\ l.epoch \in Nat \cup {NoEpoch}
                      /\ l.epoch \in Int /\ l.epoch >= NoEpoch
                      /\ (l # NoLease <=> l.epoch \in Nat)
                      /\ (l = NoLease <=> l.epoch = NoEpoch)
BY DEF Lease, NoLease, NoEpoch

\* What the fence keeps of a replacement.
LEMMA ReplacementShape ==
  /\ NoReplacement \in Replacement
  /\ \A r \in Replacement : r.previous \in Lease /\ r.lease \in Lease /\ r.request \in Nat
BY LeaseShape DEF Replacement, NoReplacement

\* The fields of a fence.
LEMMA FenceShape ==
  ASSUME NEW f \in Fence
  PROVE  /\ f.lease \in Lease /\ f.retained \in Lease
         /\ f.pending \in Replacement /\ f.acknowledged \in Replacement
         /\ f.last \in Nat \cup {NoEpoch} /\ f.last \in Int /\ f.last >= NoEpoch
         /\ f.requests \in Nat
BY DEF Fence, NoEpoch

\* A new lease is a lease.
LEMMA NewLeaseShape ==
  ASSUME NEW f \in Fence, NEW t \in Nat
  PROVE  /\ NewLease(f, t) \in Lease /\ NewLease(f, t) # NoLease
         /\ NewLease(f, t).epoch \in Nat
         /\ NewLease(f, t).turn = t
         /\ NewLease(f, t).epoch = (IF HasLease(f) THEN f.lease.epoch ELSE f.last) + 1
<1>1. (IF HasLease(f) THEN f.lease.epoch ELSE f.last) + 1 \in Nat
  BY LeaseShape, FenceShape DEF NoEpoch
<1> QED
  BY <1>1, LeaseShape DEF NewLease, Lease, NoLease, NoEpoch

\* activate_for_turn, field by field.
LEMMA ActivateShape ==
  ASSUME NEW f \in Fence, NEW t \in Nat
  PROVE  /\ Activate(f, t) \in Fence
         /\ Activate(f, t).lease = NewLease(f, t)
         /\ Activate(f, t).last = NewLease(f, t).epoch
         /\ Activate(f, t).pending = NoReplacement
         /\ Activate(f, t).acknowledged = NoReplacement
BY NewLeaseShape, LeaseShape, ReplacementShape DEF Activate, Fence

\* interrupt_for_turn, field by field.
LEMMA InterruptShape ==
  ASSUME NEW f \in Fence, NEW t \in Nat
  PROVE  /\ Interrupt(f, t) \in Fence
         /\ Interrupt(f, t).lease = f.lease
         /\ Interrupt(f, t).acknowledged = f.acknowledged
         /\ Interrupt(f, t).last = NewLease(f, t).epoch
         /\ Interrupt(f, t).requests = f.requests + 1
         /\ Interrupt(f, t).requests \in Nat \ {0}
         /\ Interrupt(f, t).pending # NoReplacement
         /\ Interrupt(f, t).pending.previous = f.lease
         /\ Interrupt(f, t).pending.lease = NewLease(f, t)
         /\ Interrupt(f, t).pending.request = f.requests + 1
<1> DEFINE r == [previous |-> f.lease, lease |-> NewLease(f, t), request |-> f.requests + 1]
<1>1. r \in Replacement /\ r # NoReplacement
  BY FenceShape, NewLeaseShape DEF Replacement, NoReplacement
<1>2. f.requests + 1 \in Nat \ {0}
  BY FenceShape
<1> QED
  BY <1>1, <1>2, NewLeaseShape, LeaseShape DEF Interrupt, Fence

\* An acknowledgement moves the replacement from one place to the other.
LEMMA AcknowledgeShape ==
  ASSUME NEW f \in Fence, NEW r \in Nat
  PROVE  /\ Acknowledge(f, r) \in Fence
         /\ Acknowledge(f, r).last = f.last
         /\ \/ Acknowledge(f, r) = f
            \/ /\ f.pending # NoReplacement /\ f.pending.request = r
               /\ Acknowledge(f, r).lease = f.pending.lease
               /\ Acknowledge(f, r).acknowledged = f.pending
               /\ Acknowledge(f, r).pending = NoReplacement
         /\ f.pending # NoReplacement /\ f.pending.request = r =>
              Acknowledge(f, r).pending = NoReplacement
<1>1. f.pending.lease \in Lease
  BY FenceShape, ReplacementShape
<1> QED
  BY <1>1, ReplacementShape DEF Acknowledge, Fence

\* abandon_replacement, case by case.
LEMMA AbandonShape ==
  ASSUME NEW f \in Fence
  PROVE  /\ Abandon(f) \in Fence
         /\ Abandon(f).last = f.last /\ Abandon(f).requests = f.requests
         /\ Abandon(f).pending = NoReplacement
         /\ f.pending # NoReplacement =>
              Abandon(f).lease = f.lease /\ Abandon(f).acknowledged = f.acknowledged
         /\ f.pending = NoReplacement => Abandon(f).acknowledged = NoReplacement
         /\ f.pending = NoReplacement /\ f.acknowledged = NoReplacement =>
              Abandon(f).lease = f.lease
         /\ /\ f.pending = NoReplacement /\ f.acknowledged # NoReplacement
            /\ f.lease = f.acknowledged.lease
            => Abandon(f).lease = f.acknowledged.previous
<1>1. f.acknowledged.previous \in Lease
  BY FenceShape, ReplacementShape
<1> QED
  BY <1>1, ReplacementShape DEF Abandon, Fence

\* commit_replacement drops the acknowledged replacement and keeps the lease.
LEMMA CommitShape ==
  ASSUME NEW f \in Fence
  PROVE  /\ Commit(f) \in Fence
         /\ Commit(f).lease = f.lease /\ Commit(f).last = f.last
         /\ Commit(f).pending = f.pending /\ Commit(f).acknowledged = NoReplacement
BY ReplacementShape, LeaseShape DEF Commit, Fence

\* retain_playback keeps the shape of the fence.
LEMMA RetainShape ==
  ASSUME NEW f \in Fence
  PROVE  /\ Retain(f) \in Fence
         /\ Retain(f).lease = f.lease /\ Retain(f).last = f.last
         /\ Retain(f).pending = f.pending /\ Retain(f).acknowledged = f.acknowledged
BY DEF Retain, Fence

\* finish lets the lease go.
LEMMA ReleaseShape ==
  ASSUME NEW f \in Fence
  PROVE  /\ Release(f) \in Fence
         /\ Release(f).lease = NoLease /\ Release(f).last = f.last
         /\ Release(f).pending = f.pending /\ Release(f).acknowledged = f.acknowledged
BY LeaseShape DEF Release, Fence

\* revoke_stream leaves neither lease nor replacement.
LEMMA RevokeShape ==
  ASSUME NEW f \in Fence
  PROVE  /\ Revoke(f) \in Fence
         /\ Revoke(f).lease = NoLease /\ Revoke(f).last = f.last
         /\ Revoke(f).pending = NoReplacement /\ Revoke(f).acknowledged = NoReplacement
BY LeaseShape, ReplacementShape DEF Revoke, Fence

-----------------------------------------------------------------------------
(* The coordinator                                                         *)

\* What the coordinator is in, and what a callback may move it to.
LEMMA AdvanceShape ==
  ASSUME NEW c \in AgentState, NEW t, NEW epoch, NEW from, NEW to \in Phases
  PROVE  /\ Advance(c, t, epoch, from, to) \in AgentState
         /\ Advance(c, t, epoch, from, to).turn = c.turn
         /\ Advance(c, t, epoch, from, to).epoch = c.epoch
         /\ Advance(c, t, epoch, from, to).retained = c.retained
         /\ Advance(c, t, epoch, from, to).phase =
              IF c.turn = t /\ c.epoch = epoch /\ c.phase \in from THEN to ELSE c.phase
BY DEF Advance, AgentState

\* A callback of the coordinator returns a state of it, in the same epoch.
LEMMA CallbackShape ==
  ASSUME NEW c \in AgentState, NEW t \in Nat, NEW epoch \in Nat
  PROVE  /\ StartSynthesizing(c, t, epoch) \in AgentState
         /\ StartSynthesizing(c, t, epoch).epoch = c.epoch
         /\ AwaitCutover(c, t, epoch) \in AgentState
         /\ AwaitCutover(c, t, epoch).epoch = c.epoch
         /\ PlaybackStarted(c, t, epoch) \in AgentState
         /\ PlaybackStarted(c, t, epoch).epoch = c.epoch
         /\ RestoreRetained(c, t, epoch) \in AgentState
         /\ RestoreRetained(c, t, epoch).epoch = c.epoch
         /\ PlaybackFinished(c, t, epoch) \in AgentState
         /\ PlaybackFinished(c, t, epoch).epoch = c.epoch
         /\ OutputLost(c, t, epoch) \in AgentState
         /\ OutputLost(c, t, epoch).epoch = c.epoch
         /\ CompleteWithoutOutput(c, t, epoch) \in AgentState
         /\ CompleteWithoutOutput(c, t, epoch).epoch = c.epoch
         /\ CancelTurn(c, t, epoch) \in AgentState
         /\ CancelTurn(c, t, epoch).epoch = c.epoch
         /\ FailTurn(c, t, epoch) \in AgentState
         /\ FailTurn(c, t, epoch).epoch = c.epoch
         /\ Advance(c, t, epoch, {"reasoning"}, "failed") \in AgentState
         /\ Advance(c, t, epoch, {"reasoning"}, "failed").epoch = c.epoch
<1>1. \A from : \A to \in Phases :
        /\ Advance(c, t, epoch, from, to) \in AgentState
        /\ Advance(c, t, epoch, from, to).epoch = c.epoch
  BY AdvanceShape
<1>2. {"synthesizing", "cutover_pending", "completed", "failed", "cancelled", "playing"}
        \subseteq Phases
  BY DEF Phases
<1>3. /\ StartSynthesizing(c, t, epoch) \in AgentState
      /\ StartSynthesizing(c, t, epoch).epoch = c.epoch
  BY <1>1, <1>2 DEF StartSynthesizing, AgentState, NoTurn
<1>4. /\ PlaybackStarted(c, t, epoch) \in AgentState
      /\ PlaybackStarted(c, t, epoch).epoch = c.epoch
  BY <1>2 DEF PlaybackStarted, AgentState, NoTurn
<1>5. /\ RestoreRetained(c, t, epoch) \in AgentState
      /\ RestoreRetained(c, t, epoch).epoch = c.epoch
  BY <1>2 DEF RestoreRetained, AgentState, NoTurn
<1> QED
  BY <1>1, <1>2, <1>3, <1>4, <1>5
     DEF AwaitCutover, PlaybackFinished, OutputLost, CompleteWithoutOutput, CancelTurn, FailTurn

\* A newer turn takes the coordinator over.
LEMMA EnqueueShape ==
  ASSUME NEW c \in AgentState, NEW t \in Nat, c.epoch < t, NEW replacement \in BOOLEAN
  PROVE  /\ Enqueue(c, t, t, replacement) \in AgentState
         /\ Enqueue(c, t, t, replacement).turn = t
         /\ Enqueue(c, t, t, replacement).epoch = t
         /\ Enqueue(c, t, t, replacement).phase = "reasoning"
         /\ Enqueue(c, t, t, replacement).retained =
              IF replacement /\ c.phase = "playing" THEN c.turn ELSE NoTurn
<1>1. c.turn \in Nat /\ NoTurn \in Nat /\ "reasoning" \in Phases /\ ~ (t < c.epoch)
  BY DEF AgentState, NoTurn, Phases
<1> QED
  BY <1>1 DEF Enqueue, AgentState

-----------------------------------------------------------------------------
(* The connection                                                          *)

\* Every message has the shape of one.
LEMMA MessageShape ==
  /\ \A e \in Nat : Command(e) \in Messages /\ End(e) \in Messages /\ Finished(e) \in Messages
  /\ \A r \in Nat : /\ Flush(r) \in Messages
                    /\ Ack("applied", r) \in Messages /\ Ack("replayed", r) \in Messages
  /\ Ready \in Messages
BY DEF Command, End, Finished, Flush, Ack, Ready, Messages, NoRequest

\* The messages in a sequence.
Elements(q) == {q[i] : i \in 1..Len(q)}

\* What one message more does to them.
LEMMA ElementsOfOne ==
  ASSUME NEW S, NEW m \in S
  PROVE  <<m>> \in Seq(S) /\ Elements(<<m>>) = {m}
<1>1. <<m>> \in Seq(S) /\ Len(<<m>>) = 1 /\ <<m>>[1] = m
  OBVIOUS
<1>2. 1..1 = {1}
  OBVIOUS
<1> QED
  BY <1>1, <1>2 DEF Elements

\* Nothing is on its way in an empty sequence.
LEMMA ElementsOfNone ==
  ASSUME NEW S
  PROVE  << >> \in Seq(S) /\ Elements(<< >>) = {}
<1>1. << >> \in Seq(S) /\ Len(<< >>) = 0
  OBVIOUS
<1>2. 1..0 = {}
  OBVIOUS
<1> QED
  BY <1>1, <1>2 DEF Elements

\* What is on its way when several messages follow.
LEMMA ElementsOfConcat ==
  ASSUME NEW S, NEW p \in Seq(S), NEW q \in Seq(S)
  PROVE  p \o q \in Seq(S) /\ Elements(p \o q) \subseteq Elements(p) \cup Elements(q)
<1>1. /\ p \o q \in Seq(S) /\ Len(p) \in Nat /\ Len(q) \in Nat
      /\ Len(p \o q) = Len(p) + Len(q)
      /\ \A i \in 1..Len(p) + Len(q) : (p \o q)[i] = IF i <= Len(p) THEN p[i] ELSE q[i - Len(p)]
  OBVIOUS
<1>2. SUFFICES ASSUME NEW i \in 1..Len(p) + Len(q)
               PROVE  (p \o q)[i] \in Elements(p) \cup Elements(q)
  BY <1>1 DEF Elements
<1>3. CASE i <= Len(p)
  BY <1>1, <1>3 DEF Elements
<1>4. CASE i > Len(p)
  <2>1. i - Len(p) \in 1..Len(q)
    BY <1>1, <1>4
  <2> QED
    BY <1>1, <1>4, <2>1 DEF Elements
<1> QED
  BY <1>1, <1>3, <1>4

\* What is on its way when one message follows.
LEMMA ElementsOfAppend ==
  ASSUME NEW S, NEW q \in Seq(S), NEW m \in S
  PROVE  Append(q, m) \in Seq(S) /\ Elements(Append(q, m)) = Elements(q) \cup {m}
<1>1. /\ Append(q, m) \in Seq(S) /\ Len(q) \in Nat /\ Len(Append(q, m)) = Len(q) + 1
      /\ \A i \in 1..Len(q) : Append(q, m)[i] = q[i]
      /\ Append(q, m)[Len(q) + 1] = m
  OBVIOUS
<1>2. \A i \in 1..Len(q) + 1 : i = Len(q) + 1 \/ i \in 1..Len(q)
  BY <1>1
<1>3. \A i \in 1..Len(q) : i \in 1..Len(q) + 1
  BY <1>1
<1>4. Len(q) + 1 \in 1..Len(q) + 1
  BY <1>1
<1> QED
  BY <1>1, <1>2, <1>3, <1>4 DEF Elements

\* The first message, and the others.
LEMMA ElementsOfTail ==
  ASSUME NEW S, NEW q \in Seq(S), q # << >>
  PROVE  /\ Head(q) \in S /\ Head(q) \in Elements(q)
         /\ Tail(q) \in Seq(S) /\ Elements(Tail(q)) \subseteq Elements(q)
<1>1. /\ Len(q) \in Nat /\ Len(q) # 0 /\ Head(q) = q[1] /\ Head(q) \in S
      /\ Tail(q) \in Seq(S) /\ Len(Tail(q)) = Len(q) - 1
      /\ \A i \in 1..Len(q) - 1 : Tail(q)[i] = q[i + 1]
  OBVIOUS
<1>2. \A i \in 1..Len(q) - 1 : i + 1 \in 1..Len(q)
  BY <1>1
<1>3. 1 \in 1..Len(q)
  BY <1>1
<1> QED
  BY <1>1, <1>2, <1>3 DEF Elements

\* What is sent gets on the way only while Sound is there.
LEMMA SendShape ==
  ASSUME toSound \in Seq(Messages), NEW m \in Messages, Send(<<m>>)
  PROVE  /\ toSound' \in Seq(Messages)
         /\ Elements(toSound') \subseteq Elements(toSound) \cup {m}
<1>1. /\ <<m>> \in Seq(Messages) /\ Elements(<<m>>) = {m}
      /\ toSound \o <<m>> \in Seq(Messages)
      /\ Elements(toSound \o <<m>>) \subseteq Elements(toSound) \cup Elements(<<m>>)
  BY ElementsOfOne, ElementsOfConcat
<1> QED
  BY <1>1 DEF Send

\* Nothing is sent.
LEMMA SendNothing ==
  ASSUME toSound \in Seq(Messages), Send(<< >>)
  PROVE  toSound' = toSound
BY DEF Send

\* The end of a speech is sent if it is the one Sound would accept.
LEMMA SendEnd ==
  ASSUME toSound \in Seq(Messages), NEW s, out[s] \in Nat, Send(EndOf(s))
  PROVE  /\ toSound' \in Seq(Messages)
         /\ Elements(toSound') \subseteq Elements(toSound) \cup {End(out[s])}
<1>1. CASE sink /\ reportable = out[s]
  BY <1>1, SendShape, MessageShape DEF EndOf
<1>2. CASE ~ (sink /\ reportable = out[s])
  BY <1>2, SendNothing DEF EndOf
<1> QED
  BY <1>1, <1>2

-----------------------------------------------------------------------------
(* Type correctness                                                        *)

Stages == {"none", "awaited", "ready", "emitting", "aborting", "done"} \cup Suspended

\* The stages in which a speech has been given its output epoch.
Leased == {"announcing", "flushing", "admitting", "emitting"}

OutGiven == \A s \in Speeches : pc[s] \in Leased => out[s] \in Nat

Types == TypeOK /\ OutGiven

\* What the type of the variables says of a turn and of one speech.
LEMMA Facts ==
  ASSUME Types
  PROVE  /\ activeTurn \in Nat /\ fence \in Fence /\ agent \in AgentState
         /\ agent.turn \in Nat /\ agent.epoch \in Nat
         /\ tts \in [Speeches -> Task] /\ flush \in [Speeches -> Task]
         /\ \A s \in Speeches : tts[s] \in Task /\ flush[s] \in Task
<1>1. activeTurn \in Nat
  BY CutoverAssumption DEF Types, TypeOK
<1>2. agent \in AgentState
  BY DEF Types, TypeOK
<1> QED
  BY <1>1, <1>2 DEF Types, TypeOK, AgentState

\* What a replaced or a dropped waiter leaves.
LEMMA CutShape ==
  ASSUME Types, NEW S \in SUBSET Speeches, NEW how \in {"cancelled", "abandoned"}, Cut(S, how)
  PROVE  /\ cut' \in [Speeches -> {"no", "cancelled", "abandoned"}]
         /\ readyWaiter' \in {"none", "waiting", "done"}
BY DEF Cut, DropWaiter, Types, TypeOK

\* An exchange that ends keeps the shape of what it touches.
LEMMA EndExchangeTypes ==
  ASSUME Types, NEW s \in Speeches, NEW with \in Outcomes, EndExchange(s, with)
  PROVE  flush' \in [Speeches -> Task] /\ agent' \in AgentState /\ fence' \in Fence
<1>1. agent' \in AgentState
  <2>1. agent \in AgentState /\ activeTurn \in Nat /\ Turn(s) \in Nat
    BY SpeechShape, Facts
  <2> QED
    BY <2>1, CallbackShape DEF EndExchange, RestoredAgent
<1>2. flush' \in [Speeches -> Task]
  BY SettleShape DEF EndExchange, Types, TypeOK
<1> QED
  BY <1>1, <1>2, AbandonShape DEF EndExchange, Types, TypeOK

\* So does the first frame of a speech.
LEMMA StartOutputTypes ==
  ASSUME Types, NEW s \in Speeches, pc[s] \in Leased, StartOutput(s), out' = out
  PROVE  /\ tts' \in [Speeches -> Task] /\ agent' \in AgentState /\ window' \in BOOLEAN
         /\ pc' \in [Speeches -> Stages] /\ OutGiven'
<1>1. agent' \in AgentState
  <2>1. agent \in AgentState /\ Turn(s) \in Nat
    BY SpeechShape, Facts
  <2> QED
    BY <2>1, CallbackShape DEF StartOutput
<1>2. [tts[s] EXCEPT !.state = "succeeded"] \in Task /\ [tts[s] EXCEPT !.state = "timed_out"] \in Task
  BY Facts, SucceedShape
<1>3. tts' \in [Speeches -> Task] /\ window' \in BOOLEAN
  <2>1. \/ \E with \in {"succeeded", "timed_out"} : tts' = [tts EXCEPT ![s].state = with]
        \/ tts' = tts
    BY DEF StartOutput
  <2>2. window' = window \/ window' = TRUE
    BY DEF StartOutput
  <2>3. CASE tts' = [tts EXCEPT ![s].state = "succeeded"]
    BY <1>2, <2>2, <2>3 DEF Types, TypeOK
  <2>4. CASE tts' = [tts EXCEPT ![s].state = "timed_out"]
    BY <1>2, <2>2, <2>4 DEF Types, TypeOK
  <2> QED
    BY <2>1, <2>2, <2>3, <2>4 DEF Types, TypeOK
<1>4. pc' \in [Speeches -> Stages] /\ OutGiven'
  BY DEF StartOutput, Leave, Types, TypeOK, OutGiven, Stages, Leased
<1> QED
  BY <1>1, <1>3, <1>4

\* The steps of the turns.
LEMMA TurnTypes ==
  ASSUME Types
  PROVE  /\ \A speaks \in BOOLEAN : AdmitTurn(speaks) => Types'
         /\ \A s \in Speeches, how \in {"speech", "silence", "failure"} :
              AnswerOperation(s, how) => Types'
         /\ RevokeIdentity => Types'
         /\ ChangeTrust => Types'
<1>1. ASSUME NEW speaks \in BOOLEAN, AdmitTurn(speaks)
      PROVE  Types'
  <2> DEFINE t == activeTurn + 1
  <2>1. t \in 1..MaxTurn /\ t \in Nat /\ activeTurn \in Nat /\ activeTurn' = t
    BY <1>1, CutoverAssumption DEF AdmitTurn, Types, TypeOK
  <2>2. fence' \in Fence
    BY <1>1, RetainShape DEF AdmitTurn, Types, TypeOK
  <2>3. CancelTurn(agent, agent.turn, activeTurn) \in AgentState
    BY <2>1, CallbackShape DEF Types, TypeOK, AgentState
  <2>4. Admitted(t) \in AgentState
    <3> DEFINE c == CancelTurn(agent, agent.turn, activeTurn)
    <3>1. c \in AgentState /\ c.turn \in Nat /\ NoTurn \in Nat /\ "reasoning" \in Phases
      BY <2>3 DEF AgentState, NoTurn, Phases
    <3> HIDE DEF c
    <3>2. Enqueue(c, t, t, HasPlayback(fence) \/ c.phase = "playing") \in AgentState
      BY <2>1, <3>1 DEF Enqueue, AgentState
    <3> QED
      BY <3>2 DEF Admitted, c
  <2>5. agent' \in AgentState
    BY <1>1, <2>1, <2>4, CallbackShape DEF AdmitTurn
  <2>6. tts' \in [Speeches -> Task] /\ flush' \in [Speeches -> Task]
    BY <1>1, CancelRunningShape, TasksBegin DEF AdmitTurn, Types, TypeOK
  <2>7. pc' \in [Speeches -> Stages] /\ OutGiven'
    BY <1>1 DEF AdmitTurn, Types, TypeOK, OutGiven, Stages, Leased
  <2>8. /\ cut' \in [Speeches -> {"no", "cancelled", "abandoned"}]
        /\ readyWaiter' \in {"none", "waiting", "done"}
    BY <1>1, CutShape DEF AdmitTurn, SupersededSpeeches
  <2> QED
    BY <1>1, <2>1, <2>2, <2>5, <2>6, <2>7, <2>8, CutoverAssumption
       DEF AdmitTurn, Types, TypeOK, soundVars, Stages
<1>2. ASSUME NEW s \in Speeches, NEW how \in {"speech", "silence", "failure"},
             AnswerOperation(s, how)
      PROVE  Types'
  <2>1. agent' \in AgentState
    BY <1>2, CallbackShape, SpeechShape DEF AnswerOperation, Types, TypeOK
  <2>2. tts' \in [Speeches -> Task]
    BY <1>2, TasksBegin DEF AnswerOperation, Types, TypeOK
  <2>3. pc' \in [Speeches -> Stages] /\ OutGiven'
    BY <1>2 DEF AnswerOperation, Types, TypeOK, OutGiven, Stages, Leased
  <2> QED
    BY <1>2, <2>1, <2>2, <2>3
       DEF AnswerOperation, Types, TypeOK, Stages, controlVars, dispatchVars, soundVars
<1>3. ASSUME RevokeIdentity PROVE Types'
  BY <1>3, CancelRunningShape
     DEF RevokeIdentity, Types, TypeOK, OutGiven, speechVars, controlVars, dispatchVars, soundVars
<1>4. ASSUME ChangeTrust PROVE Types'
  BY <1>4, OutdatedShape
     DEF ChangeTrust, Types, TypeOK, OutGiven, speechVars, controlVars, dispatchVars, soundVars
<1> QED
  BY <1>1, <1>2, <1>3, <1>4

\* The steps of a speech up to its first audio.
LEMMA PrepareTypes ==
  ASSUME Types, NEW s \in Speeches
  PROVE  /\ BeginSpeech(s) => Types'
         /\ PrepareFreshOutput(s) => Types'
         /\ PrepareReplacement(s) => Types'
         /\ RefuseOutput(s) => Types'
<1>1. ASSUME BeginSpeech(s) PROVE Types'
  <2>1. agent' \in AgentState
    BY <1>1, Facts, SpeechShape, CallbackShape DEF BeginSpeech
  <2> QED
    BY <1>1, <2>1 DEF BeginSpeech, Types, TypeOK, OutGiven, Leased, Suspended, taskVars,
                      controlVars, dispatchVars, soundVars
<1>2. ASSUME PrepareFreshOutput(s) PROVE Types'
  <2> DEFINE e == Activate(fence, Turn(s)).lease.epoch
  <2>1. fence' \in Fence /\ e \in Nat
    BY <1>2, Facts, SpeechShape, ActivateShape, NewLeaseShape DEF PrepareFreshOutput
  <2> HIDE DEF e
  <2>2. toSound' \in Seq(Messages)
    <3>1. Send(<<Command(e)>>)
      BY <1>2 DEF PrepareFreshOutput, e
    <3> QED
      BY <2>1, <3>1, SendShape, MessageShape DEF Types, TypeOK
  <2>3. /\ out' = [out EXCEPT ![s] = e]
        /\ \/ pc' = [pc EXCEPT ![s] = "announcing"] /\ readyWaiter' = "waiting" /\ reportable' = e
           \/ pc' = [pc EXCEPT ![s] = "aborting"] /\ UNCHANGED <<readyWaiter, reportable>>
    BY <1>2 DEF PrepareFreshOutput, Leave, e
  <2>4. /\ pc' \in [Speeches -> Stages] /\ out' \in [Speeches -> Nat \cup {NoEpoch}] /\ OutGiven'
        /\ readyWaiter' \in {"none", "waiting", "done"} /\ reportable' \in Nat \cup {Unregistered}
    BY <2>1, <2>3 DEF Types, TypeOK, OutGiven, Leased, Stages, Suspended
  <2>5. UNCHANGED <<activeTurn, agent, window, cut, asked, tts, flush, sink, fromSound,
                    admission, admitted, applied, draining>>
    BY <1>2 DEF PrepareFreshOutput, taskVars, soundVars
  <2> QED
    BY <2>1, <2>2, <2>4, <2>5 DEF Types, TypeOK, Stages
<1>3. ASSUME PrepareReplacement(s) PROVE Types'
  <2> DEFINE f == Interrupt(fence, Turn(s))
             e == f.pending.lease.epoch
             r == f.requests
  <2>1. fence' \in Fence /\ e \in Nat /\ r \in Nat
    BY <1>3, Facts, SpeechShape, InterruptShape, NewLeaseShape DEF PrepareReplacement
  <2>2. agent' \in AgentState
    BY <1>3, Facts, SpeechShape, CallbackShape DEF PrepareReplacement
  <2>3. /\ out' = [out EXCEPT ![s] = e] /\ asked' = [asked EXCEPT ![s] = r]
        /\ Send(<<Flush(r)>>)
        /\ admission' = [request |-> r, retried |-> FALSE] /\ admitted' = NoRequest
    BY <1>3 DEF PrepareReplacement, BeginFlush
  <2> HIDE DEF e, r, f
  <2>4. toSound' \in Seq(Messages)
    BY <2>1, <2>3, SendShape, MessageShape DEF Types, TypeOK
  <2>5. admission' \in [request : Nat, retried : BOOLEAN] /\ admitted' \in Nat
    BY <2>1, <2>3 DEF NoRequest
  <2>6. flush' \in [Speeches -> Task]
    BY <1>3, Facts, TasksBegin DEF PrepareReplacement
  <2>7. pc' = [pc EXCEPT ![s] = "flushing"]
    BY <1>3 DEF PrepareReplacement
  <2>8. /\ pc' \in [Speeches -> Stages] /\ out' \in [Speeches -> Nat \cup {NoEpoch}] /\ OutGiven'
        /\ asked' \in [Speeches -> Nat]
    BY <2>1, <2>3, <2>7 DEF Types, TypeOK, OutGiven, Leased, Stages, Suspended
  <2>9. UNCHANGED <<activeTurn, window, cut, tts, sink, fromSound, readyWaiter, reportable,
                    applied, draining>>
    BY <1>3 DEF PrepareReplacement, soundVars
  <2> QED
    BY <2>1, <2>2, <2>4, <2>5, <2>6, <2>8, <2>9 DEF Types, TypeOK, Stages
<1>4. ASSUME RefuseOutput(s) PROVE Types'
  <2>1. fence' \in Fence
    BY <1>4, Facts, SpeechShape, InterruptShape, AbandonShape DEF RefuseOutput
  <2> QED
    BY <1>4, <2>1 DEF RefuseOutput, Leave, Types, TypeOK, OutGiven, Leased, Suspended, taskVars,
                      controlVars, dispatchVars, soundVars
<1> QED
  BY <1>1, <1>2, <1>3, <1>4

\* The steps of an exchange.
LEMMA ExchangeTypes ==
  ASSUME Types, NEW s \in Speeches, Exchange(s)
  PROVE  Types'
<1> USE DEF Types, TypeOK, OutGiven, Leased, Suspended, controlVars, dispatchVars, soundVars,
            Leave, Polls
<1>1. CASE ExchangeIsStale(s)
  BY <1>1, EndExchangeTypes DEF ExchangeIsStale, Outcomes
<1>2. CASE ExchangeExpires(s)
  <2>1. fence' \in Fence /\ flush' \in [Speeches -> Task]
    BY <1>2, AbandonShape, SettleShape DEF ExchangeExpires, Outcomes
  <2> QED
    BY <1>2, <2>1 DEF ExchangeExpires
<1>3. CASE ExchangeTimesOut(s)
  BY <1>3, EndExchangeTypes DEF ExchangeTimesOut, Outcomes
<1>4. CASE AdmitReplacement(s)
  <2>1. out[s] \in Nat
    BY <1>4 DEF AdmitReplacement
  <2>2. toSound' \in Seq(Messages)
    BY <1>4, <2>1, SendShape, MessageShape DEF AdmitReplacement
  <2>3. /\ pc' = [pc EXCEPT ![s] = "admitting"] /\ readyWaiter' = "waiting"
        /\ cut' \in [Speeches -> {"no", "cancelled", "abandoned"}]
        /\ reportable' = out[s]
        /\ UNCHANGED <<activeTurn, fence, agent, window, out, asked, tts, flush, sink,
                       fromSound, admission, admitted, applied, draining>>
    BY <1>4 DEF AdmitReplacement, ReplaceWaiter, taskVars
  <2> QED
    BY <2>1, <2>2, <2>3
<1>5. CASE CommitReplacement(s)
  <2>1. fence' \in Fence /\ flush' \in [Speeches -> Task]
    BY <1>5, CommitShape, Facts, SucceedShape DEF CommitReplacement
  <2>2. pc[s] \in Leased /\ StartOutput(s) /\ out' = out
    BY <1>5 DEF CommitReplacement, Resumes
  <2>3. /\ tts' \in [Speeches -> Task] /\ agent' \in AgentState /\ window' \in BOOLEAN
        /\ pc' \in [Speeches -> Stages] /\ OutGiven'
    BY <2>2, StartOutputTypes
  <2> QED
    BY <1>5, <2>1, <2>3 DEF CommitReplacement, Stages
<1>6. ASSUME NEW late \in BOOLEAN, RefuseReplacement(s, late) PROVE Types'
  <2>1. fence' \in Fence
    BY <1>6, AbandonShape, Facts DEF RefuseReplacement
  <2>2. flush' \in [Speeches -> Task]
    BY <1>6, SettleShape, Facts DEF RefuseReplacement, Outcomes
  <2>3. agent' \in AgentState
    BY <1>6, CallbackShape, Facts, SpeechShape DEF RefuseReplacement, RestoredAgent
  <2>4. /\ pc' = [pc EXCEPT ![s] = "aborting"] /\ readyWaiter' = "none"
        /\ UNCHANGED <<activeTurn, window, cut, out, asked, tts, sink, toSound, fromSound, admission,
                       admitted, reportable, applied, draining>>
    BY <1>6 DEF RefuseReplacement
  <2> QED
    BY <2>1, <2>2, <2>3, <2>4
<1> QED
  BY <1>1, <1>2, <1>3, <1>4, <1>5, <1>6 DEF Exchange

\* The steps that begin and end what is heard.
LEMMA SpokenTypes ==
  ASSUME Types, NEW s \in Speeches
  PROVE  /\ StartFresh(s) => Types'
         /\ FinishSpeech(s) => Types'
         /\ ProviderFails(s) => Types'
         /\ AbandonSpeech(s) => Types'
         /\ SpeechTimesOut(s) => Types'
         /\ DeliverCancellation(s) => Types'
<1> USE DEF Types, TypeOK, OutGiven, Leased, Suspended, controlVars, dispatchVars, soundVars, Leave
<1>1. ASSUME StartFresh(s) PROVE Types'
  <2>1. pc[s] \in Leased /\ StartOutput(s) /\ out' = out
    BY <1>1 DEF StartFresh, Resumes
  <2>2. /\ tts' \in [Speeches -> Task] /\ agent' \in AgentState /\ window' \in BOOLEAN
        /\ pc' \in [Speeches -> Stages] /\ OutGiven'
    BY <2>1, StartOutputTypes
  <2>3. /\ readyWaiter' = "none"
        /\ UNCHANGED <<activeTurn, fence, cut, out, asked, flush, sink, toSound, fromSound,
                       admission, admitted, reportable, applied, draining>>
    BY <1>1 DEF StartFresh
  <2> QED
    BY <2>2, <2>3 DEF Stages
<1>2. ASSUME FinishSpeech(s) PROVE Types'
  <2>1. out[s] \in Nat /\ Send(EndOf(s))
    BY <1>2 DEF FinishSpeech
  <2>2. toSound' \in Seq(Messages)
    BY <2>1, SendEnd
  <2>3. /\ pc' = [pc EXCEPT ![s] = "done"]
        /\ UNCHANGED <<activeTurn, fence, agent, window, cut, out, asked, tts, flush, sink,
                       fromSound, admission, admitted, readyWaiter, reportable, applied, draining>>
    BY <1>2 DEF FinishSpeech, taskVars
  <2> QED
    BY <2>2, <2>3
<1>3. ASSUME ProviderFails(s) PROVE Types'
  <2>1. Send(IF pc[s] = "emitting" THEN EndOf(s) ELSE << >>)
    BY <1>3 DEF ProviderFails, BreakOff, Playing
  <2>2. toSound' \in Seq(Messages)
    BY <2>1, SendEnd, SendNothing
  <2>3. /\ pc' = [pc EXCEPT ![s] = "aborting"]
        /\ UNCHANGED <<activeTurn, fence, agent, window, cut, out, asked, tts, flush, sink,
                       fromSound, admission, admitted, readyWaiter, reportable, applied, draining>>
    BY <1>3 DEF ProviderFails, taskVars
  <2> QED
    BY <2>2, <2>3
<1>4. ASSUME AbandonSpeech(s) PROVE Types'
  <2>1. agent' \in AgentState
    <3> HIDE DEF Types, TypeOK, OutGiven
    <3>1. /\ agent \in AgentState
          /\ OutputLost(agent, Turn(s), agent.epoch) \in AgentState
          /\ FailTurn(agent, Turn(s), Turn(s)) \in AgentState
      BY CallbackShape, SpeechShape, Facts
    <3>2. agent' \in {agent, OutputLost(agent, Turn(s), agent.epoch),
                      FailTurn(agent, Turn(s), Turn(s))}
      BY <1>4 DEF AbandonSpeech, Unverified
    <3> QED
      BY <3>1, <3>2
  <2>2. tts' \in [Speeches -> Task]
    BY <1>4, SettleShape, Facts DEF AbandonSpeech, Outcomes
  <2>3. window' \in BOOLEAN
    BY <1>4 DEF AbandonSpeech, Unverified, CloseWindow
  <2>4. /\ pc' = [pc EXCEPT ![s] = "done"]
        /\ UNCHANGED <<activeTurn, fence, cut, out, asked, flush, sink, toSound,
                       fromSound, admission, admitted, readyWaiter, reportable, applied, draining>>
    BY <1>4 DEF AbandonSpeech
  <2> QED
    BY <2>1, <2>2, <2>3, <2>4
<1>5. ASSUME SpeechTimesOut(s) PROVE Types'
  <2>1. agent' \in AgentState
    <3> HIDE DEF Types, TypeOK, OutGiven
    <3> QED
      BY <1>5, CallbackShape, SpeechShape, Facts DEF SpeechTimesOut
  <2>2. tts' \in [Speeches -> Task]
    BY <1>5, SettleShape, Facts DEF SpeechTimesOut, Outcomes
  <2>3. /\ cut' \in [Speeches -> {"no", "cancelled", "abandoned"}]
        /\ readyWaiter' \in {"none", "waiting", "done"}
    BY <1>5, CutShape DEF SpeechTimesOut
  <2>4. UNCHANGED <<activeTurn, fence, window, pc, out, asked, flush, sink, toSound,
                    fromSound, admission, admitted, reportable, applied, draining>>
    BY <1>5 DEF SpeechTimesOut
  <2> QED
    BY <2>1, <2>2, <2>3, <2>4
<1>6. ASSUME DeliverCancellation(s) PROVE Types'
  <2>1. flush' \in [Speeches -> Task] /\ agent' \in AgentState /\ fence' \in Fence
    BY <1>6, EndExchangeTypes DEF DeliverCancellation, Outcomes
  <2>2. /\ cut' = [cut EXCEPT ![s] = "no"]
        /\ \E to \in {"done", "aborting"} : pc' = [pc EXCEPT ![s] = to]
        /\ UNCHANGED <<activeTurn, window, out, asked, tts, sink, toSound, fromSound,
                       admission, admitted, readyWaiter, reportable, applied, draining>>
    BY <1>6 DEF DeliverCancellation
  <2> QED
    BY <2>1, <2>2
<1> QED
  BY <1>1, <1>2, <1>3, <1>4, <1>5, <1>6

\* The first answer of Sound, taken off the way.
LEMMA ReceiveShape ==
  ASSUME Types, NEW kinds, Receives(kinds)
  PROVE  /\ Head(fromSound) \in Messages /\ Head(fromSound) \in Elements(fromSound)
         /\ Head(fromSound).request \in Nat /\ Head(fromSound).epoch \in Nat
         /\ fromSound' \in Seq(Messages)
         /\ Elements(fromSound') \subseteq Elements(fromSound)
<1>1. fromSound \in Seq(Messages) /\ fromSound # << >> /\ fromSound' = Tail(fromSound)
  BY DEF Types, TypeOK, Receives
<1>2. /\ Head(fromSound) \in Messages /\ Head(fromSound) \in Elements(fromSound)
      /\ fromSound' \in Seq(Messages)
      /\ Elements(fromSound') \subseteq Elements(fromSound)
  BY <1>1, ElementsOfTail
<1> QED
  BY <1>2 DEF Messages

\* The steps of the dispatcher, and the end of the connection.
LEMMA DispatchTypes ==
  ASSUME Types
  PROVE  /\ Dispatch => Types'
         /\ LoseSink => Types'
<1> USE DEF Types, TypeOK, OutGiven, controlVars, dispatchVars, soundVars, speechVars, taskVars
<1>1. ASSUME ReceiveReady PROVE Types'
  BY <1>1, ReceiveShape DEF ReceiveReady
<1>2. ASSUME ReceiveAck PROVE Types'
  <2>1. /\ Head(fromSound).request \in Nat /\ fromSound' \in Seq(Messages)
    BY <1>2, ReceiveShape DEF ReceiveAck
  <2>2. fence' \in Fence
    BY <1>2, <2>1, AcknowledgeShape DEF ReceiveAck, TellFence
  <2>3. NoFlush \in [request : Nat, retried : BOOLEAN]
    BY DEF NoFlush, NoRequest
  <2>4. /\ admission' \in [request : Nat, retried : BOOLEAN] /\ admitted' \in Nat
        /\ UNCHANGED <<activeTurn, agent, window, pc, cut, out, asked, tts, flush, sink, toSound,
                       readyWaiter, reportable, applied, draining>>
    BY <1>2, <2>1, <2>3 DEF ReceiveAck
  <2> QED
    BY <2>1, <2>2, <2>4
<1>3. ASSUME ReceiveFinished PROVE Types'
  <2>1. fence' \in Fence
    BY <1>3, ReleaseShape DEF ReceiveFinished
  <2>2. agent' \in AgentState
    <3> HIDE DEF Types, TypeOK, OutGiven
    <3>1. /\ agent \in AgentState
          /\ PlaybackFinished(agent, agent.turn, activeTurn) \in AgentState
      BY CallbackShape, Facts
    <3>2. agent' \in {agent, PlaybackFinished(agent, agent.turn, activeTurn)}
      BY <1>3 DEF ReceiveFinished, FinishedAgent
    <3> QED
      BY <3>1, <3>2
  <2>3. window' \in BOOLEAN
    BY <1>3 DEF ReceiveFinished, CloseWindow
  <2>4. /\ fromSound' \in Seq(Messages)
        /\ UNCHANGED <<activeTurn, pc, cut, out, asked, tts, flush, sink, toSound, admission,
                       admitted, readyWaiter, reportable, applied, draining>>
    BY <1>3, ReceiveShape DEF ReceiveFinished
  <2> QED
    BY <2>1, <2>2, <2>3, <2>4
<1>4. ASSUME LoseSink PROVE Types'
  <2>1. fence' \in Fence
    BY <1>4, RevokeShape DEF LoseSink
  <2>2. agent' \in AgentState /\ window' = FALSE
    BY <1>4, Facts, CallbackShape DEF LoseSink, OutputIsLost, CloseWindow
  <2>3. /\ cut' \in [Speeches -> {"no", "cancelled", "abandoned"}]
        /\ UNCHANGED <<activeTurn, pc, out, asked, tts, flush, applied>>
    BY <1>4 DEF LoseSink, Discard
  <2>4. /\ sink' = FALSE /\ toSound' = << >> /\ fromSound' = << >>
        /\ admission' = NoFlush /\ admitted' = NoRequest /\ readyWaiter' = "none"
        /\ reportable' = Unregistered /\ draining' = {}
    BY <1>4 DEF LoseSink, Discard
  <2> QED
    BY <2>1, <2>2, <2>3, <2>4, ElementsOfNone DEF NoFlush, NoRequest
<1> QED
  BY <1>1, <1>2, <1>3, <1>4 DEF Dispatch

\* What Sound does, and the messages it leaves on their way.
LEMMA ReplyShape ==
  ASSUME Types, toSound # << >>, NEW m \in Messages, Reply(<<m>>) \/ Reply(<< >>)
  PROVE  /\ Head(toSound) \in Messages /\ Head(toSound) \in Elements(toSound)
         /\ Head(toSound).request \in Nat /\ Head(toSound).epoch \in Nat
         /\ toSound' \in Seq(Messages) /\ fromSound' \in Seq(Messages)
         /\ Elements(toSound') \subseteq Elements(toSound)
         /\ Elements(fromSound') \subseteq Elements(fromSound) \cup {m}
<1>1. toSound \in Seq(Messages) /\ fromSound \in Seq(Messages) /\ toSound' = Tail(toSound)
  BY DEF Types, TypeOK, Reply
<1>2. /\ Head(toSound) \in Messages /\ Head(toSound) \in Elements(toSound)
      /\ toSound' \in Seq(Messages) /\ Elements(toSound') \subseteq Elements(toSound)
  BY <1>1, ElementsOfTail
<1>3. Head(toSound).request \in Nat /\ Head(toSound).epoch \in Nat
  BY <1>2 DEF Messages
<1>4. /\ <<m>> \in Seq(Messages) /\ Elements(<<m>>) = {m}
      /\ << >> \in Seq(Messages) /\ Elements(<< >>) = {}
  BY ElementsOfOne, ElementsOfNone
<1>5. /\ fromSound' \in Seq(Messages)
      /\ Elements(fromSound') \subseteq Elements(fromSound) \cup {m}
  <2>1. CASE fromSound' = fromSound \o <<m>>
    BY <1>1, <1>4, <2>1, ElementsOfConcat
  <2>2. CASE fromSound' = fromSound \o << >>
    <3>1. fromSound' = fromSound
      BY <1>1, <2>2
    <3> QED
      BY <1>1, <3>1
  <2> QED
    BY <2>1, <2>2 DEF Reply
<1> QED
  BY <1>2, <1>3, <1>5

\* Sound without a refusal, action by action: where its messages come from.
LEMMA SoundShape ==
  ASSUME Types, Sound
  PROVE  /\ UNCHANGED <<sink, admission, admitted, readyWaiter, reportable>>
         /\ toSound' \in Seq(Messages) /\ fromSound' \in Seq(Messages)
         /\ applied' \in SUBSET Nat /\ draining' \in SUBSET Nat
         /\ Elements(toSound') \subseteq Elements(toSound)
         /\ \/ /\ draining' \subseteq draining
               /\ \E m \in {Ready} \cup {Finished(e) : e \in draining} :
                    Elements(fromSound') \subseteq Elements(fromSound) \cup {m}
            \/ /\ draining' = draining
               /\ \E n \in Elements(toSound), kind \in {"applied", "replayed"} :
                    /\ n.kind = "flush"
                    /\ Elements(fromSound') \subseteq Elements(fromSound) \cup {Ack(kind, n.request)}
            \/ /\ Elements(fromSound') \subseteq Elements(fromSound) \cup {Ready}
               /\ \E n \in Elements(toSound) :
                    n.kind = "end" /\ draining' = draining \cup {n.epoch}
<1>1. /\ draining \in SUBSET Nat /\ applied \in SUBSET Nat
      /\ toSound \in Seq(Messages) /\ fromSound \in Seq(Messages)
  BY DEF Types, TypeOK
<1>2. CASE SoundIsReady
  <2>1. toSound # << >> /\ Reply(<<Ready>>) /\ UNCHANGED <<applied, draining>>
    BY <1>2 DEF SoundIsReady, SoundTakes, soundVars
  <2> QED
    BY <1>1, <2>1, ReplyShape, MessageShape DEF Reply, dispatchVars
<1>3. CASE SoundFlushes
  <2> DEFINE n == Head(toSound)
  <2>1. /\ toSound # << >> /\ n.kind = "flush" /\ draining' = draining
        /\ applied' = applied \cup {n.request}
        /\ \E kind \in {"applied", "replayed"} : Reply(<<Ack(kind, n.request)>>)
    BY <1>3 DEF SoundFlushes, SoundTakes
  <2>2. n \in Messages
    BY <1>1, <2>1, ElementsOfTail
  <2>3. n.request \in Nat
    BY <2>2 DEF Messages
  <2>4. PICK kind \in {"applied", "replayed"} : Reply(<<Ack(kind, n.request)>>)
    BY <2>1
  <2>5. Ack(kind, n.request) \in Messages
    BY <2>3, MessageShape
  <2>6. /\ n \in Elements(toSound)
        /\ toSound' \in Seq(Messages) /\ fromSound' \in Seq(Messages)
        /\ Elements(toSound') \subseteq Elements(toSound)
        /\ Elements(fromSound') \subseteq Elements(fromSound) \cup {Ack(kind, n.request)}
    BY <2>1, <2>4, <2>5, ReplyShape
  <2>7. UNCHANGED <<sink, admission, admitted, readyWaiter, reportable>>
    BY <2>4 DEF Reply, dispatchVars
  <2> HIDE DEF n
  <2> QED
    BY <1>1, <2>1, <2>3, <2>6, <2>7
<1>4. CASE SoundDrains
  <2> DEFINE n == Head(toSound)
  <2>1. /\ toSound # << >> /\ n.kind = "end" /\ Reply(<< >>) /\ applied' = applied
        /\ draining' = draining \cup {n.epoch}
    BY <1>4 DEF SoundDrains, SoundTakes
  <2>2. /\ n \in Elements(toSound) /\ n.epoch \in Nat
        /\ toSound' \in Seq(Messages) /\ fromSound' \in Seq(Messages)
        /\ Elements(toSound') \subseteq Elements(toSound)
        /\ Elements(fromSound') \subseteq Elements(fromSound) \cup {Ready}
    BY <2>1, ReplyShape, MessageShape
  <2>3. UNCHANGED <<sink, admission, admitted, readyWaiter, reportable>>
    BY <2>1 DEF Reply, dispatchVars
  <2> HIDE DEF n
  <2> QED
    BY <1>1, <2>1, <2>2, <2>3
<1>5. CASE \E e \in draining : SoundFinishes(e)
  <2>1. PICK e \in draining : SoundFinishes(e)
    BY <1>5
  <2>2. /\ e \in Nat /\ draining' = draining \ {e} /\ fromSound' = Append(fromSound, Finished(e))
        /\ UNCHANGED <<sink, toSound, admission, admitted, readyWaiter, reportable, applied>>
    BY <1>1, <2>1 DEF SoundFinishes, dispatchVars
  <2>3. Finished(e) \in Messages
    BY <2>2, MessageShape
  <2>4. /\ fromSound' \in Seq(Messages)
        /\ Elements(fromSound') \subseteq Elements(fromSound) \cup {Finished(e)}
    BY <1>1, <2>2, <2>3, ElementsOfAppend
  <2> QED
    BY <1>1, <2>2, <2>4
<1> QED
  BY <1>2, <1>3, <1>4, <1>5 DEF Sound

\* What the retries of a flush, a refusal and a new connection send.
LEMMA RetryShape ==
  ASSUME Types, SoundRefuses \/ RetryFlush \/ GiveUpFlush \/ RegisterSink
  PROVE  /\ UNCHANGED <<admitted, readyWaiter, applied, draining>>
         /\ toSound' \in Seq(Messages) /\ fromSound' = fromSound
         /\ \/ /\ sink' = sink /\ reportable' = reportable /\ admission' = admission
               /\ Elements(toSound') \subseteq Elements(toSound)
            \/ /\ sink' = sink /\ reportable' = reportable /\ admission # NoFlush
               /\ \/ admission' = NoFlush /\ toSound' = toSound
                  \/ /\ admission'.request = admission.request
                     /\ admission' \in [request : Nat, retried : BOOLEAN]
                     /\ Elements(toSound') \subseteq
                          Elements(toSound) \cup {Flush(admission.request)}
            \/ /\ ~ sink /\ sink' = TRUE /\ reportable' = 0 /\ admission' = admission
               /\ Elements(toSound') \subseteq {Command(0)}
<1>1. /\ toSound \in Seq(Messages) /\ fromSound \in Seq(Messages)
      /\ admission \in [request : Nat, retried : BOOLEAN]
  BY DEF Types, TypeOK
<1>2. CASE SoundRefuses
  <2>1. toSound # << >> /\ Reply(<< >>) /\ UNCHANGED <<applied, draining>>
    BY <1>2 DEF SoundRefuses, SoundTakes, soundVars
  <2>2. /\ toSound' \in Seq(Messages) /\ Elements(toSound') \subseteq Elements(toSound)
    BY <2>1, ReplyShape, MessageShape
  <2>3. fromSound' = fromSound /\ UNCHANGED <<sink, admission, admitted, readyWaiter, reportable>>
    BY <1>1, <2>1 DEF Reply, dispatchVars
  <2> QED
    BY <2>1, <2>2, <2>3
<1>3. CASE RetryFlush
  <2>1. /\ admission # NoFlush /\ admission' = [admission EXCEPT !.retried = TRUE]
        /\ Send(<<Flush(admission.request)>>)
        /\ UNCHANGED <<sink, fromSound, admitted, readyWaiter, reportable, applied, draining>>
    BY <1>3 DEF RetryFlush, soundVars
  <2>2. /\ admission'.request = admission.request
        /\ admission' \in [request : Nat, retried : BOOLEAN]
        /\ Flush(admission.request) \in Messages
    BY <1>1, <2>1, MessageShape
  <2>3. /\ toSound' \in Seq(Messages)
        /\ Elements(toSound') \subseteq Elements(toSound) \cup {Flush(admission.request)}
    BY <1>1, <2>1, <2>2, SendShape
  <2> QED
    BY <2>1, <2>2, <2>3
<1>4. CASE GiveUpFlush
  BY <1>1, <1>4 DEF GiveUpFlush, soundVars
<1>5. CASE RegisterSink
  <2>1. Command(0) \in Messages
    BY MessageShape
  <2>2. toSound' \in Seq(Messages) /\ Elements(toSound') = {Command(0)}
    BY <1>5, <2>1, ElementsOfOne DEF RegisterSink
  <2> QED
    BY <1>5, <2>2 DEF RegisterSink, soundVars
<1> QED
  BY <1>2, <1>3, <1>4, <1>5

\* The steps of the connection.
LEMMA ControlTypes ==
  ASSUME Types, Control
  PROVE  Types'
<1>1. UNCHANGED <<activeTurn, fence, agent, window, pc, cut, out, asked, tts, flush>>
  BY DEF Control, elsewhere, speechVars, taskVars
<1>2. CASE Sound
  BY <1>1, <1>2, SoundShape DEF Types, TypeOK, OutGiven
<1>3. CASE SoundRefuses \/ RetryFlush \/ GiveUpFlush \/ RegisterSink
  <2>1. NoFlush \in [request : Nat, retried : BOOLEAN]
    BY DEF NoFlush, NoRequest
  <2>2. /\ sink \in BOOLEAN /\ reportable \in Nat \cup {Unregistered}
        /\ admission \in [request : Nat, retried : BOOLEAN]
    BY DEF Types, TypeOK
  <2>3. /\ UNCHANGED <<admitted, readyWaiter, applied, draining>>
        /\ toSound' \in Seq(Messages) /\ fromSound' = fromSound
    BY <1>3, RetryShape
  <2>4. \/ sink' = sink /\ reportable' = reportable
        \/ sink' = TRUE /\ reportable' = 0
    BY <1>3, RetryShape
  <2>5. \/ admission' = admission \/ admission' = NoFlush
        \/ admission' \in [request : Nat, retried : BOOLEAN]
    BY <1>3, RetryShape
  <2>6. sink' \in BOOLEAN
    BY <2>2, <2>4
  <2>7. 0 \in Nat
    OBVIOUS
  <2>8. reportable' \in Nat \cup {Unregistered}
    BY <2>2, <2>4, <2>7
  <2>9. admission' \in [request : Nat, retried : BOOLEAN]
    BY <2>1, <2>2, <2>5
  <2> QED
    BY <1>1, <2>3, <2>6, <2>8, <2>9 DEF Types, TypeOK, OutGiven
<1> QED
  BY <1>2, <1>3 DEF Control

\* The speeches, whatever they do.
LEMMA SpeechTypes ==
  ASSUME Types, NEW s \in Speeches, Speech(s)
  PROVE  Types'
BY TurnTypes, PrepareTypes, ExchangeTypes, SpokenTypes DEF Speech, Progress

\* Nothing has happened yet.
LEMMA InitTypes ==
  ASSUME Init
  PROVE  Types
<1>1. fence \in Fence
  BY LeaseShape, ReplacementShape DEF Init, FenceInit, Fence
<1>2. agent \in AgentState
  BY DEF Init, AgentInit, AgentState, NoTurn, Phases
<1>3. Command(0) \in Messages
  BY MessageShape
<1>4. toSound \in Seq(Messages) /\ fromSound \in Seq(Messages)
  BY <1>3, ElementsOfOne, ElementsOfNone DEF Init, ControlInit
<1>5. admission \in [request : Nat, retried : BOOLEAN] /\ admitted \in Nat
  BY DEF Init, ControlInit, NoFlush, NoRequest
<1>6. /\ pc \in [Speeches -> Stages] /\ cut \in [Speeches -> {"no", "cancelled", "abandoned"}]
      /\ out \in [Speeches -> Nat \cup {NoEpoch}] /\ asked \in [Speeches -> Nat]
      /\ tts \in [Speeches -> Task] /\ flush \in [Speeches -> Task]
      /\ OutGiven
  BY TasksBegin DEF Init, Stages, OutGiven, Leased, NoRequest
<1>7. /\ activeTurn = 0 /\ reportable = 0 /\ readyWaiter = "none"
      /\ applied = {} /\ draining = {}
  BY DEF Init, ControlInit, NoTurn
<1>8. window \in BOOLEAN /\ sink \in BOOLEAN
  BY DEF Init, ControlInit
<1>9. 0 \in 0..MaxTurn /\ 0 \in Nat
  BY CutoverAssumption
<1> QED
  BY <1>1, <1>2, <1>4, <1>5, <1>6, <1>7, <1>8, <1>9 DEF Types, TypeOK, Stages

\* No step leaves the types.
LEMMA NextTypes ==
  ASSUME Types, [Next]_vars
  PROVE  Types'
<1>1. CASE UNCHANGED vars
  BY <1>1 DEF vars, speechVars, taskVars, controlVars, dispatchVars, soundVars,
              Types, TypeOK, OutGiven
<1>2. CASE \E speaks \in BOOLEAN : AdmitTurn(speaks)
  BY <1>2, TurnTypes
<1>3. CASE \E s \in Speeches : Speech(s)
  BY <1>3, SpeechTypes
<1> QED
  BY <1>1, <1>2, <1>3, TurnTypes, DispatchTypes, ControlTypes DEF Next

\* Every variable keeps its type, and a speech that has come to its output has
\* an epoch for it.
THEOREM Typing == Spec => [](TypeOK /\ OutGiven)
<1>1. Types <=> TypeOK /\ OutGiven
  BY DEF Types
<1> QED
  BY <1>1, InitTypes, NextTypes, PTL DEF Spec, Types

-----------------------------------------------------------------------------
(* How the coroutines of the speeches follow each other                    *)

Heard(s) == tts[s].state = "succeeded"

Underway == Suspended \cup {"emitting"}
Waiting  == {"none", "awaited", "ready"}

TurnsToCome == \A s \in Speeches : Turn(s) > activeTurn => pc[s] = "none"

RunningIsActive ==
  \A s \in Speeches :
    Running(tts[s]) \/ Running(flush[s]) \/ pc[s] = "awaited" => Turn(s) = activeTurn

HeardHasSpoken ==
  \A s \in Speeches : /\ Heard(s) => pc[s] \in {"emitting", "aborting", "done"}
                      /\ pc[s] = "emitting" => Heard(s)

\* The second speech of a turn begins after the first.
OneAtATime ==
  \A s \in Speeches :
    s = <<Turn(s), "final">> /\ pc[s] \notin Waiting \cup {"done"} =>
      pc[<<Turn(s), "initial">>] = "done"

CutUnderway == \A s \in Speeches : cut[s] # "no" => pc[s] \in Underway

Courses == TurnsToCome /\ RunningIsActive /\ HeardHasSpoken /\ OneAtATime /\ CutUnderway

\* Of the speeches of a turn one at most has left its waiting and is not done.
LEMMA OneSpeaks ==
  ASSUME Courses, NEW s \in Speeches, NEW u \in Speeches, Turn(s) = Turn(u),
         pc[s] \notin Waiting \cup {"done"}, pc[u] \notin Waiting \cup {"done"}
  PROVE  s = u
BY SpeechShape DEF Courses, OneAtATime

\* The stages of a speech and what is suspended have no name in common.
LEMMA StageNames ==
  /\ Underway \subseteq Stages /\ Suspended \subseteq Underway
  /\ \A x \in Underway : x \notin Waiting \cup {"done", "aborting"}
  /\ "aborting" \notin Waiting \cup {"done"}
BY DEF Underway, Suspended, Stages, Waiting

\* A step of one speech keeps the courses if it is one of these.
LEMMA SpeechMoves ==
  ASSUME Types, Courses, NEW s \in Speeches, NEW to \in Stages,
         activeTurn' = activeTurn,
         pc' = [pc EXCEPT ![s] = to],
         pc[s] \notin {"none", "done"},
         to \in Waiting => Turn(s) <= activeTurn,
         to # "awaited",
         to \notin Waiting \cup {"done"} =>
           \/ pc[s] \notin Waiting
           \/ s = <<Turn(s), "final">> => pc[<<Turn(s), "initial">>] = "done",
         \A u \in Speeches : Running(tts'[u]) \/ Running(flush'[u]) => Turn(u) = activeTurn,
         \A u \in Speeches : u # s => (tts'[u].state = "succeeded" <=> Heard(u)),
         tts'[s].state = "succeeded" => to \in {"emitting", "aborting", "done"},
         to = "emitting" => tts'[s].state = "succeeded",
         \A u \in Speeches : cut'[u] # "no" => pc'[u] \in Underway
  PROVE  Courses'
<1>1. \A u \in Speeches : pc'[u] = IF u = s THEN to ELSE pc[u]
  BY DEF Types, TypeOK
<1>2. TurnsToCome'
  BY <1>1, SpeechShape, Facts DEF Courses, TurnsToCome, Waiting
<1>3. RunningIsActive' /\ CutUnderway'
  BY <1>1 DEF Courses, RunningIsActive, CutUnderway
<1>4. HeardHasSpoken'
  BY <1>1 DEF Courses, HeardHasSpoken, Heard
<1>5. OneAtATime'
  <2> SUFFICES ASSUME NEW u \in Speeches, u = <<Turn(u), "final">>,
                      pc'[u] \notin Waiting \cup {"done"}
               PROVE  pc'[<<Turn(u), "initial">>] = "done"
    BY DEF OneAtATime
  <2> DEFINE i == <<Turn(u), "initial">>
  <2>1. i \in Speeches /\ Turn(i) = Turn(u) /\ i # u
    BY SpeechShape, SpeechesOfTurn
  <2>2. pc[i] = "done"
    BY <1>1, <2>1 DEF Courses, OneAtATime
  <2> QED
    BY <1>1, <2>1, <2>2
<1> QED
  BY <1>2, <1>3, <1>4, <1>5 DEF Courses

\* An uncut speech moves on, and what it does to its tasks begins or revives none.
LEMMA UncutMoves ==
  ASSUME Types, Courses, NEW s \in Speeches, NEW to \in Stages,
         activeTurn' = activeTurn, cut' = cut,
         pc' = [pc EXCEPT ![s] = to],
         pc[s] \notin {"none", "done"}, cut[s] = "no",
         to \notin {"none", "awaited", "ready"},
         to # "done" =>
           \/ pc[s] \notin Waiting
           \/ s = <<Turn(s), "final">> => pc[<<Turn(s), "initial">>] = "done",
         \A u \in Speeches : Running(tts'[u]) => Running(tts[u]),
         \A u \in Speeches : Running(flush'[u]) => Running(flush[u]) \/ Turn(u) = activeTurn,
         \A u \in Speeches : u # s => (tts'[u].state = "succeeded" <=> Heard(u)),
         tts'[s].state = "succeeded" => to \in {"emitting", "aborting", "done"},
         to = "emitting" => tts'[s].state = "succeeded"
  PROVE  Courses'
<1>1. \A u \in Speeches : Running(tts'[u]) \/ Running(flush'[u]) => Turn(u) = activeTurn
  BY DEF Courses, RunningIsActive
<1>2. \A u \in Speeches : pc'[u] = IF u = s THEN to ELSE pc[u]
  BY DEF Types, TypeOK
<1>3. \A u \in Speeches : cut'[u] # "no" => pc'[u] \in Underway
  BY <1>2 DEF Courses, CutUnderway
<1>4. to \notin Waiting
  BY DEF Waiting
<1> QED
  BY <1>1, <1>3, <1>4, SpeechMoves

\* An exchange that ends begins no task.
LEMMA EndExchangeTasks ==
  ASSUME Types, NEW s \in Speeches, NEW with \in Outcomes,
         flush' = [flush EXCEPT ![s] = Settle(@, with)]
  PROVE  /\ \A u \in Speeches : Running(flush'[u]) => Running(flush[u]) /\ u # s
         /\ \A u \in Speeches : u # s => flush'[u] = flush[u]
BY Facts, SettleShape

\* Nor does a speech that begins to be heard, or fails to.
LEMMA StartOutputTasks ==
  ASSUME Types, NEW s \in Speeches, StartOutput(s)
  PROVE  /\ \A u \in Speeches : u # s => tts'[u] = tts[u]
         /\ \A u \in Speeches : Running(tts'[u]) => Running(tts[u])
         /\ \/ /\ pc' = [pc EXCEPT ![s] = "emitting"] /\ tts'[s].state = "succeeded"
               /\ Running(tts[s]) /\ Turn(s) = activeTurn /\ tts[s].fresh
            \/ /\ pc' = [pc EXCEPT ![s] = "aborting"]
               /\ \/ tts' = tts /\ ~ Counts(tts[s], s)
                  \/ tts'[s].state = "timed_out" /\ Counts(tts[s], s)
<1>1. CASE Counts(tts[s], s) /\ tts' = [tts EXCEPT ![s].state = "succeeded"]
           /\ pc' = [pc EXCEPT ![s] = "emitting"]
  BY <1>1, Facts, SucceedShape DEF Counts, Running
<1>2. CASE Counts(tts[s], s) /\ tts' = [tts EXCEPT ![s].state = "timed_out"]
           /\ pc' = [pc EXCEPT ![s] = "aborting"]
  BY <1>2, Facts, SucceedShape DEF Counts, Running
<1>3. CASE ~ Counts(tts[s], s)
  BY <1>3 DEF StartOutput, Leave
<1> QED
  BY <1>1, <1>2, <1>3 DEF StartOutput, Leave

\* A speech is cut off only on its way.
LEMMA NotCutBefore ==
  ASSUME Courses, NEW s \in Speeches, pc[s] \notin Underway, cut[s] \in {"no", "cancelled", "abandoned"}
  PROVE  cut[s] = "no"
BY DEF Courses, CutUnderway

\* A speech on its way to its first audio stays on its course.
LEMMA PrepareCourses ==
  ASSUME Types, Courses, NEW s \in Speeches
  PROVE  /\ BeginSpeech(s) => Courses'
         /\ PrepareFreshOutput(s) => Courses'
         /\ PrepareReplacement(s) => Courses'
         /\ RefuseOutput(s) => Courses'
<1>0. /\ {"synthesizing", "announcing", "flushing", "aborting", "done"} \subseteq Stages
      /\ {"synthesizing", "announcing", "flushing", "aborting", "done"} \cap Waiting = {}
      /\ cut[s] \in {"no", "cancelled", "abandoned"}
      /\ ~ Heard(s) \/ pc[s] \in {"emitting", "aborting", "done"}
  BY DEF Stages, Suspended, Waiting, Types, TypeOK, Courses, HeardHasSpoken
<1>1. ASSUME BeginSpeech(s) PROVE Courses'
  <2>1. /\ pc[s] = "ready" /\ IsNext(s) /\ cut' = cut /\ tts' = tts /\ flush' = flush
        /\ activeTurn' = activeTurn
        /\ \E to \in {"synthesizing", "done"} : pc' = [pc EXCEPT ![s] = to]
    BY <1>1 DEF BeginSpeech, taskVars
  <2>2. cut[s] = "no"
    BY <1>0, <2>1, NotCutBefore DEF Underway, Suspended
  <2>3. s = <<Turn(s), "final">> => pc[<<Turn(s), "initial">>] = "done"
    BY <2>1 DEF IsNext
  <2>4. PICK to \in {"synthesizing", "done"} : pc' = [pc EXCEPT ![s] = to]
    BY <2>1
  <2> QED
    BY <1>0, <2>1, <2>2, <2>3, <2>4, UncutMoves DEF Heard
<1>2. ASSUME PrepareFreshOutput(s) \/ PrepareReplacement(s) \/ RefuseOutput(s) PROVE Courses'
  <2>1. /\ pc[s] = "synthesizing" /\ cut[s] = "no" /\ cut' = cut /\ tts' = tts
        /\ activeTurn' = activeTurn
        /\ \E to \in {"announcing", "flushing", "aborting"} : pc' = [pc EXCEPT ![s] = to]
    BY <1>2 DEF PrepareFreshOutput, PrepareReplacement, RefuseOutput, HasFirstAudio, Leave, taskVars
  <2>2. flush' = flush \/ (flush' = [flush EXCEPT ![s] = Started] /\ Turn(s) = activeTurn)
    BY <1>2 DEF PrepareFreshOutput, PrepareReplacement, RefuseOutput, taskVars
  <2>3. \A u \in Speeches : Running(flush'[u]) => Running(flush[u]) \/ Turn(u) = activeTurn
    BY <2>2, Facts
  <2>4. PICK to \in {"announcing", "flushing", "aborting"} : pc' = [pc EXCEPT ![s] = to]
    BY <2>1
  <2>5. pc[s] \notin Waiting
    BY <2>1 DEF Waiting
  <2> QED
    BY <1>0, <2>1, <2>3, <2>4, <2>5, UncutMoves DEF Heard
<1> QED
  BY <1>1, <1>2

\* So does one that asks for a replacement and waits for the answer.
LEMMA ExchangeCourses ==
  ASSUME Types, Courses, NEW s \in Speeches, Exchange(s)
  PROVE  Courses'
<1>0. /\ {"admitting", "emitting", "aborting"} \subseteq Stages
      /\ {"admitting", "emitting", "aborting"} \cap Waiting = {}
      /\ ~ Heard(s) \/ pc[s] \in {"emitting", "aborting", "done"}
      /\ "flushing" \notin Waiting /\ "admitting" \notin Waiting
  BY DEF Stages, Suspended, Waiting, Courses, HeardHasSpoken
<1>1. CASE ExchangeIsStale(s) \/ ExchangeExpires(s) \/ ExchangeTimesOut(s)
  <2>1. /\ pc[s] = "flushing" /\ cut[s] = "no" /\ cut' = cut /\ tts' = tts
        /\ activeTurn' = activeTurn
        /\ pc' = [pc EXCEPT ![s] = "aborting"]
        /\ \E with \in {"failed", "timed_out"} : flush' = [flush EXCEPT ![s] = Settle(@, with)]
    BY <1>1 DEF ExchangeIsStale, ExchangeExpires, ExchangeTimesOut, EndExchange, Polls, Leave
  <2>2. \A u \in Speeches : Running(flush'[u]) => Running(flush[u])
    BY <2>1, EndExchangeTasks DEF Outcomes
  <2> QED
    BY <1>0, <2>1, <2>2, UncutMoves DEF Heard
<1>2. CASE AdmitReplacement(s)
  <2>1. /\ pc[s] = "flushing" /\ cut[s] = "no" /\ tts' = tts /\ flush' = flush
        /\ activeTurn' = activeTurn
        /\ pc' = [pc EXCEPT ![s] = "admitting"]
        /\ \A u \in Speeches : cut'[u] # cut[u] => u # s /\ pc[u] \in {"announcing", "admitting"}
    BY <1>2 DEF AdmitReplacement, ReplaceWaiter, Polls, taskVars, Types, TypeOK
  <2>2. \A u \in Speeches : pc'[u] = IF u = s THEN "admitting" ELSE pc[u]
    BY <2>1 DEF Types, TypeOK
  <2>3. \A u \in Speeches : cut'[u] # "no" => pc'[u] \in Underway
    BY <2>1, <2>2 DEF Courses, CutUnderway, Underway, Suspended
  <2>4. \A u \in Speeches : Running(tts'[u]) \/ Running(flush'[u]) => Turn(u) = activeTurn
    BY <2>1 DEF Courses, RunningIsActive
  <2> QED
    BY <1>0, <2>1, <2>3, <2>4, SpeechMoves DEF Heard
<1>3. CASE CommitReplacement(s)
  <2>1. /\ pc[s] = "admitting" /\ cut[s] = "no" /\ cut' = cut /\ activeTurn' = activeTurn
        /\ StartOutput(s) /\ flush' = [flush EXCEPT ![s].state = "succeeded"]
    BY <1>3 DEF CommitReplacement, Resumes
  <2>2. \A u \in Speeches : Running(flush'[u]) => Running(flush[u])
    BY <2>1, Facts, SucceedShape DEF Running
  <2>3. \E to \in {"emitting", "aborting"} :
          /\ pc' = [pc EXCEPT ![s] = to]
          /\ to = "emitting" => tts'[s].state = "succeeded"
    BY <2>1, StartOutputTasks
  <2> QED
    BY <1>0, <2>1, <2>2, <2>3, StartOutputTasks, UncutMoves DEF Heard
<1>4. ASSUME NEW late \in BOOLEAN, RefuseReplacement(s, late) PROVE Courses'
  <2>1. /\ pc[s] = "admitting" /\ cut[s] = "no" /\ cut' = cut /\ activeTurn' = activeTurn
        /\ tts' = tts /\ pc' = [pc EXCEPT ![s] = "aborting"]
        /\ \E with \in {"failed", "timed_out", "succeeded"} :
             flush' = [flush EXCEPT ![s] = Settle(@, with)]
    BY <1>4 DEF RefuseReplacement, Resumes, Leave
  <2>2. \A u \in Speeches : Running(flush'[u]) => Running(flush[u])
    BY <2>1, EndExchangeTasks DEF Outcomes
  <2> QED
    BY <1>0, <2>1, <2>2, UncutMoves DEF Heard
<1> QED
  BY <1>1, <1>2, <1>3, <1>4 DEF Exchange

\* A task given up keeps its outcome if it has one, and is not accepted.
LEMMA SettledTasks ==
  ASSUME Types, NEW s \in Speeches, NEW with \in {"cancelled", "timed_out", "failed"},
         tts' = [tts EXCEPT ![s] = Settle(@, with)]
  PROVE  /\ \A u \in Speeches : u # s => tts'[u] = tts[u]
         /\ \A u \in Speeches : Running(tts'[u]) => Running(tts[u]) /\ u # s
         /\ \A u \in Speeches : tts'[u].state = "succeeded" <=> Heard(u)
<1>1. with \in Outcomes /\ with # "succeeded"
  BY DEF Outcomes
<1>2. \A u \in Speeches : tts'[u] = IF u = s THEN Settle(tts[s], with) ELSE tts[u]
  BY Facts
<1>3. /\ ~ Running(Settle(tts[s], with))
      /\ Settle(tts[s], with).state = IF Running(tts[s]) THEN with ELSE tts[s].state
  BY <1>1, Facts, SettleShape
<1> QED
  BY <1>1, <1>2, <1>3 DEF Heard, Running

\* So does one that begins to be heard, ends or is cut off.
LEMMA SpokenCourses ==
  ASSUME Types, Courses, NEW s \in Speeches
  PROVE  /\ StartFresh(s) => Courses'
         /\ FinishSpeech(s) => Courses'
         /\ ProviderFails(s) => Courses'
         /\ AbandonSpeech(s) => Courses'
         /\ SpeechTimesOut(s) => Courses'
         /\ DeliverCancellation(s) => Courses'
<1>0. /\ {"emitting", "aborting", "done"} \subseteq Stages
      /\ {"emitting", "aborting", "done"} \cap Waiting = {}
      /\ ~ Heard(s) \/ pc[s] \in {"emitting", "aborting", "done"}
      /\ cut[s] \in {"no", "cancelled", "abandoned"}
      /\ {"announcing", "emitting", "aborting", "synthesizing"} \cap Waiting = {}
      /\ Suspended \cap Waiting = {} /\ "done" \notin Suspended
  BY DEF Stages, Suspended, Waiting, Courses, HeardHasSpoken, Types, TypeOK
<1>1. ASSUME StartFresh(s) PROVE Courses'
  <2>1. /\ pc[s] = "announcing" /\ cut[s] = "no" /\ cut' = cut /\ activeTurn' = activeTurn
        /\ StartOutput(s) /\ flush' = flush
    BY <1>1 DEF StartFresh, Resumes
  <2>2. \E to \in {"emitting", "aborting"} :
          /\ pc' = [pc EXCEPT ![s] = to]
          /\ to = "emitting" => tts'[s].state = "succeeded"
    BY <2>1, StartOutputTasks
  <2> QED
    BY <1>0, <2>1, <2>2, StartOutputTasks, UncutMoves DEF Heard
<1>2. ASSUME FinishSpeech(s) \/ ProviderFails(s) PROVE Courses'
  <2>1. /\ pc[s] \in {"synthesizing", "emitting"} /\ cut[s] = "no" /\ cut' = cut
        /\ activeTurn' = activeTurn /\ tts' = tts /\ flush' = flush
        /\ \E to \in {"aborting", "done"} : pc' = [pc EXCEPT ![s] = to]
    BY <1>2 DEF FinishSpeech, ProviderFails, Leave, taskVars
  <2> QED
    BY <1>0, <2>1, UncutMoves DEF Heard
<1>3. ASSUME AbandonSpeech(s) PROVE Courses'
  <2>1. /\ pc[s] = "aborting" /\ pc' = [pc EXCEPT ![s] = "done"] /\ cut' = cut
        /\ activeTurn' = activeTurn /\ flush' = flush
        /\ tts' = [tts EXCEPT ![s] = Settle(@, "cancelled")]
    BY <1>3 DEF AbandonSpeech
  <2>2. cut[s] = "no"
    BY <1>0, <2>1, NotCutBefore DEF Underway, Suspended
  <2> QED
    BY <1>0, <2>1, <2>2, SettledTasks, UncutMoves DEF Heard
<1>4. ASSUME SpeechTimesOut(s) PROVE Courses'
  <2>1. /\ pc[s] \in Suspended /\ pc' = pc /\ activeTurn' = activeTurn /\ flush' = flush
        /\ tts' = [tts EXCEPT ![s] = Settle(@, "timed_out")]
        /\ \A u \in Speeches : cut'[u] # "no" => cut[u] # "no" \/ u = s
    BY <1>4 DEF SpeechTimesOut, Cut
  <2>2. /\ pc' = [pc EXCEPT ![s] = pc[s]] /\ pc[s] \in Stages
        /\ pc[s] \notin {"none", "done", "emitting", "awaited"}
    BY <1>0, <2>1, StageNames DEF Types, TypeOK, Suspended
  <2>3. \A u \in Speeches : cut'[u] # "no" => pc'[u] \in Underway
    BY <2>1, StageNames DEF Courses, CutUnderway
  <2>4. \A u \in Speeches : Running(tts'[u]) \/ Running(flush'[u]) => Turn(u) = activeTurn
    BY <2>1, SettledTasks DEF Courses, RunningIsActive
  <2>5. \A u \in Speeches : tts'[u].state = "succeeded" <=> Heard(u)
    BY <2>1, SettledTasks
  <2>6. pc[s] \notin Waiting
    BY <1>0, <2>1
  <2>7. ~ Heard(s)
    BY <1>0, <2>1 DEF Suspended
  <2> QED
    BY <2>1, <2>2, <2>3, <2>4, <2>5, <2>6, <2>7, SpeechMoves
<1>5. ASSUME DeliverCancellation(s) PROVE Courses'
  <2>1. /\ cut[s] # "no" /\ cut' = [cut EXCEPT ![s] = "no"] /\ activeTurn' = activeTurn
        /\ tts' = tts
        /\ \E to \in {"aborting", "done"} : pc' = [pc EXCEPT ![s] = to]
        /\ flush' = flush \/ flush' = [flush EXCEPT ![s] = Settle(@, "failed")]
    BY <1>5 DEF DeliverCancellation, EndExchange
  <2>2. PICK to \in {"aborting", "done"} : pc' = [pc EXCEPT ![s] = to]
    BY <2>1
  <2>3. pc[s] \in Underway
    BY <2>1 DEF Courses, CutUnderway
  <2>4. \A u \in Speeches : pc'[u] = IF u = s THEN to ELSE pc[u]
    BY <2>2 DEF Types, TypeOK
  <2>5. \A u \in Speeches : cut'[u] = IF u = s THEN "no" ELSE cut[u]
    BY <2>1 DEF Types, TypeOK
  <2>6. \A u \in Speeches : cut'[u] # "no" => pc'[u] \in Underway
    BY <2>4, <2>5 DEF Courses, CutUnderway
  <2>7. \A u \in Speeches : Running(flush'[u]) => Running(flush[u])
    BY <2>1, EndExchangeTasks DEF Outcomes
  <2>8. \A u \in Speeches : Running(tts'[u]) \/ Running(flush'[u]) => Turn(u) = activeTurn
    BY <2>1, <2>7 DEF Courses, RunningIsActive
  <2>9. pc[s] \notin Waiting /\ pc[s] \notin {"none", "done"}
    BY <2>3, StageNames DEF Waiting
  <2> QED
    BY <1>0, <2>1, <2>2, <2>6, <2>8, <2>9, SpeechMoves DEF Heard
<1> QED
  BY <1>1, <1>2, <1>3, <1>4, <1>5

\* A turn that begins, or ends, leaves every speech on its course.
LEMMA TurnCourses ==
  ASSUME Types, Courses
  PROVE  /\ \A speaks \in BOOLEAN : AdmitTurn(speaks) => Courses'
         /\ \A s \in Speeches, how \in {"speech", "silence", "failure"} :
              AnswerOperation(s, how) => Courses'
         /\ RevokeIdentity => Courses'
         /\ ChangeTrust => Courses'
<1>1. ASSUME NEW speaks \in BOOLEAN, AdmitTurn(speaks)
      PROVE  Courses'
  <2> DEFINE t == activeTurn + 1
             first == <<t, "initial">>
             second == <<t, "final">>
  <2>1. /\ t \in 1..MaxTurn /\ activeTurn \in Nat /\ activeTurn' = t
        /\ first \in Speeches /\ second \in Speeches /\ first # second
        /\ Turn(first) = t /\ Turn(second) = t
    BY <1>1, Facts, SpeechesOfTurn, CutoverAssumption DEF AdmitTurn
  <2>2. \A u \in Speeches : u = first \/ u = second \/ Turn(u) # t
    BY <2>1, SpeechShape
  <2>3. \A u \in Speeches :
          pc'[u] = (CASE u = first -> IF speaks THEN "ready" ELSE "done"
                      [] u = second -> IF t \in Operating THEN "awaited" ELSE "done"
                      [] OTHER -> IF pc[u] = "awaited" THEN "done" ELSE pc[u])
    BY <1>1 DEF AdmitTurn
  <2>4. /\ pc'[first] \in {"ready", "done"} /\ pc'[second] \in {"awaited", "done"}
        /\ \A u \in Speeches : Turn(u) # t =>
             pc'[u] = IF pc[u] = "awaited" THEN "done" ELSE pc[u]
    BY <2>1, <2>3
  <2>5. pc[first] = "none" /\ pc[second] = "none"
    BY <2>1 DEF Courses, TurnsToCome
  <2>6. /\ \A u \in Speeches : u # first => tts'[u] = CancelRunning(tts)[u]
        /\ tts'[first] \in {Started, NoTask}
        /\ flush' = CancelRunning(flush)
    BY <1>1, <2>1, Facts, CancelRunningShape DEF AdmitTurn
  <2>7. \A u \in Speeches : u # first => (Heard(u) <=> tts'[u].state = "succeeded")
    BY <2>6, Facts, CancelRunningShape DEF Heard, Running
  <2>8. tts'[first].state # "succeeded"
    BY <2>6, TasksBegin
  <2>9. TurnsToCome'
    <3> SUFFICES ASSUME NEW u \in Speeches, Turn(u) > t PROVE pc'[u] = "none"
      BY <2>1 DEF TurnsToCome
    <3>1. Turn(u) \in Nat
      BY SpeechShape
    <3>2. Turn(u) # t /\ Turn(u) > activeTurn
      BY <2>1, <3>1
    <3> QED
      BY <2>4, <3>2 DEF Courses, TurnsToCome
  <2>10. RunningIsActive'
    <3>1. \A u \in Speeches : ~ Running(flush'[u]) /\ (u # first => ~ Running(tts'[u]))
      BY <2>6, Facts, CancelRunningShape
    <3>2. \A u \in Speeches : pc'[u] = "awaited" => Turn(u) = t
      BY <2>4
    <3> QED
      BY <2>1, <3>1, <3>2 DEF RunningIsActive
  <2>11. HeardHasSpoken'
    <3> SUFFICES ASSUME NEW u \in Speeches
                 PROVE  /\ tts'[u].state = "succeeded" => pc'[u] \in {"emitting", "aborting", "done"}
                        /\ pc'[u] = "emitting" => tts'[u].state = "succeeded"
      BY DEF HeardHasSpoken, Heard
    <3>1. CASE u = first
      BY <2>4, <2>8, <3>1
    <3>2. CASE u = second
      BY <2>1, <2>4, <2>5, <2>7, <3>2 DEF Courses, HeardHasSpoken
    <3>3. CASE Turn(u) # t
      BY <2>1, <2>4, <2>7, <3>3 DEF Courses, HeardHasSpoken
    <3> QED
      BY <2>2, <3>1, <3>2, <3>3
  <2>12. OneAtATime'
    <3> SUFFICES ASSUME NEW u \in Speeches, u = <<Turn(u), "final">>,
                        pc'[u] \notin Waiting \cup {"done"}
                 PROVE  pc'[<<Turn(u), "initial">>] = "done"
      BY DEF OneAtATime
    <3> DEFINE i == <<Turn(u), "initial">>
    <3>1. i \in Speeches /\ Turn(i) = Turn(u)
      BY SpeechShape, SpeechesOfTurn
    <3>2. Turn(u) # t
      BY <2>1, <2>2, <2>4 DEF Waiting
    <3>3. pc[u] \notin Waiting \cup {"done"}
      BY <2>4, <3>2
    <3>4. pc[i] = "done"
      BY <3>3 DEF Courses, OneAtATime
    <3> QED
      BY <2>4, <3>1, <3>2, <3>4
  <2>13. CutUnderway'
    <3> SUFFICES ASSUME NEW u \in Speeches, cut'[u] # "no" PROVE pc'[u] \in Underway
      BY DEF CutUnderway
    <3>1. cut[u] # "no" \/ u \in SupersededSpeeches
      BY <1>1 DEF AdmitTurn, Cut
    <3>2. pc[u] \in Underway
      BY <3>1, StageNames DEF Courses, CutUnderway, SupersededSpeeches
    <3>3. Turn(u) # t /\ pc[u] # "awaited"
      BY <2>2, <2>5, <3>2, StageNames DEF Waiting
    <3> QED
      BY <2>4, <3>2, <3>3
  <2> QED
    BY <2>9, <2>10, <2>11, <2>12, <2>13 DEF Courses
<1>2. ASSUME NEW s \in Speeches, NEW how \in {"speech", "silence", "failure"},
             AnswerOperation(s, how)
      PROVE  Courses'
  <2>1. /\ pc[s] = "awaited" /\ activeTurn' = activeTurn /\ cut' = cut /\ flush' = flush
        /\ tts' = tts \/ tts' = [tts EXCEPT ![s] = Started]
        /\ pc' = [pc EXCEPT ![s] = IF how = "speech" THEN "ready" ELSE "done"]
        /\ how # "speech" => tts' = tts
    BY <1>2 DEF AnswerOperation, taskVars
  <2>2. Turn(s) = activeTurn
    BY <2>1 DEF Courses, RunningIsActive
  <2>3. cut[s] = "no"
    BY <2>1 DEF Courses, CutUnderway, Underway, Suspended
  <2>4. \E to \in {"ready", "done"} : pc' = [pc EXCEPT ![s] = to]
    BY <2>1
  <2>5. PICK to \in {"ready", "done"} : pc' = [pc EXCEPT ![s] = to]
    BY <2>4
  <2>6. /\ \A u \in Speeches : u # s => tts'[u] = tts[u]
        /\ tts'[s] = tts[s] \/ tts'[s] = Started
    BY <2>1, Facts
  <2>7. ~ Heard(s) /\ tts'[s].state # "succeeded"
    BY <2>1, <2>6, TasksBegin DEF Courses, HeardHasSpoken, Heard
  <2>8. \A u \in Speeches : Running(tts'[u]) \/ Running(flush'[u]) => Turn(u) = activeTurn
    BY <2>1, <2>2, <2>6 DEF Courses, RunningIsActive
  <2>9. \A u \in Speeches : pc'[u] = IF u = s THEN to ELSE pc[u]
    BY <2>5 DEF Types, TypeOK
  <2>10. \A u \in Speeches : cut'[u] # "no" => pc'[u] \in Underway
    BY <2>1, <2>3, <2>9 DEF Courses, CutUnderway
  <2>11. /\ to \in Stages /\ to # "awaited" /\ to # "emitting"
         /\ to \notin Waiting \cup {"done"} => FALSE
    BY DEF Stages, Waiting
  <2>12. Turn(s) <= activeTurn
    BY <2>2, Facts
  <2>13. \A u \in Speeches : u # s => (tts'[u].state = "succeeded" <=> Heard(u))
    BY <2>6 DEF Heard
  <2>14. pc[s] \notin {"none", "done"} /\ tts'[s].state # "succeeded" /\ to # "emitting"
    BY <2>1, <2>7
  <2> QED
    BY <2>1, <2>5, <2>8, <2>10, <2>11, <2>12, <2>13, <2>14, SpeechMoves
<1>3. ASSUME RevokeIdentity \/ ChangeTrust PROVE Courses'
  <2>1. /\ UNCHANGED <<activeTurn, pc, cut>>
        /\ \/ tts' = CancelRunning(tts) /\ flush' = CancelRunning(flush)
           \/ tts' = Outdated(tts) /\ flush' = Outdated(flush)
    BY <1>3 DEF RevokeIdentity, ChangeTrust, speechVars
  <2>2. \A s \in Speeches :
          /\ Running(tts'[s]) => Running(tts[s])
          /\ Running(flush'[s]) => Running(flush[s])
          /\ tts'[s].state = "succeeded" <=> tts[s].state = "succeeded"
    BY <2>1, Facts, CancelRunningShape, OutdatedShape DEF Running
  <2>3. UNCHANGED <<activeTurn, pc, cut>>
    BY <2>1
  <2>4. RunningIsActive'
    BY <2>2, <2>3 DEF Courses, RunningIsActive
  <2>5. HeardHasSpoken'
    BY <2>2, <2>3 DEF Courses, HeardHasSpoken, Heard
  <2>6. TurnsToCome' /\ OneAtATime' /\ CutUnderway'
    BY <2>3 DEF Courses, TurnsToCome, OneAtATime, CutUnderway
  <2> QED
    BY <2>4, <2>5, <2>6 DEF Courses
<1> QED
  BY <1>1, <1>2, <1>3

\* No step leaves the courses.
LEMMA NextCourses ==
  ASSUME Types, Courses, [Next]_vars
  PROVE  Courses'
<1> USE DEF Courses, TurnsToCome, RunningIsActive, HeardHasSpoken, OneAtATime, CutUnderway, Heard
<1>1. CASE UNCHANGED <<activeTurn, pc, cut, tts, flush>>
  BY <1>1
<1>2. ASSUME LoseSink PROVE Courses'
  <2>1. /\ UNCHANGED <<activeTurn, pc, tts, flush>>
        /\ \A s \in Speeches : cut'[s] # "no" => cut[s] # "no" \/ s \in FeedingSpeeches
    BY <1>2 DEF LoseSink, taskVars
  <2> QED
    BY <2>1 DEF FeedingSpeeches, Underway
<1> HIDE DEF Courses
<1>3. CASE \E s \in Speeches : Speech(s)
  BY <1>3, TurnCourses, PrepareCourses, ExchangeCourses, SpokenCourses DEF Speech, Progress
<1>4. CASE UNCHANGED vars
  BY <1>1, <1>4 DEF vars, speechVars, taskVars
<1>5. CASE Dispatch
  BY <1>1, <1>5 DEF Dispatch, ReceiveReady, ReceiveAck, ReceiveFinished, speechVars, taskVars
<1>6. CASE Control
  BY <1>1, <1>6 DEF Control, elsewhere, speechVars, taskVars
<1>7. CASE \E speaks \in BOOLEAN : AdmitTurn(speaks)
  BY <1>7, TurnCourses
<1> QED
  BY <1>2, <1>3, <1>4, <1>5, <1>6, <1>7, TurnCourses DEF Next

\* Before the first turn no speech has set out.
LEMMA InitCourses ==
  ASSUME Init
  PROVE  Courses
<1>1. \A s \in Speeches : /\ pc[s] = "none" /\ cut[s] = "no" /\ tts[s] = NoTask /\ flush[s] = NoTask
  BY DEF Init
<1>2. \A s \in Speeches : ~ Heard(s) /\ ~ Running(tts[s]) /\ ~ Running(flush[s])
  BY <1>1, TasksBegin DEF Heard
<1> QED
  BY <1>1, <1>2 DEF Courses, TurnsToCome, RunningIsActive, HeardHasSpoken, OneAtATime,
                    CutUnderway, Waiting

\* The coroutines of the speeches keep their order: nothing runs for a turn that
\* is over or has yet to come, what has been heard is no longer being prepared,
\* and the two speeches of a turn are never on their way at once.
THEOREM SpeechesInOrder == Spec => []Courses
BY InitTypes, NextTypes, InitCourses, NextCourses, PTL DEF Spec

-----------------------------------------------------------------------------
(* The tasks as the ledger knows them                                      *)

\* What has not come to its point has no task yet.
NotOpenedYet ==
  \A s \in Speeches :
    /\ pc[s] \in {"none", "awaited"} => tts[s].state = "none"
    /\ pc[s] \in {"none", "awaited", "ready", "synthesizing"} => flush[s].state = "none"

Closings == {"cancelled", "timed_out", "failed"}

Closes(old, new) == new.state = old.state \/ (Running(old) /\ new.state \in Closings)

\* The steps of the ledger, speech by speech.
StepCloses ==
  /\ activeTurn' = activeTurn
  /\ \A s \in Speeches : Closes(tts[s], tts'[s]) /\ Closes(flush[s], flush'[s])

StepOpens(s, old, new, other) ==
  /\ activeTurn' = activeTurn /\ Turn(s) = activeTurn
  /\ old[s].state = "none" /\ new[s].state = "running"
  /\ \A u \in Speeches : u # s => new[u].state = old[u].state
  /\ UNCHANGED other

StepTakes(s) ==
  /\ activeTurn' = activeTurn
  /\ (Running(tts[s]) /\ tts'[s].state \in {"succeeded", "timed_out"}) \/ tts'[s].state = tts[s].state
  /\ (Running(flush[s]) /\ flush'[s].state = "succeeded") \/ flush'[s].state = flush[s].state
  /\ \A u \in Speeches : u # s => tts'[u].state = tts[u].state /\ flush'[u].state = flush[u].state

\* Settling a task without success closes it.
LEMMA SettlingCloses ==
  ASSUME NEW tasks \in [Speeches -> Task], NEW s \in Speeches, NEW with \in Closings,
         NEW after, after = [tasks EXCEPT ![s] = Settle(@, with)]
  PROVE  \A u \in Speeches : Closes(tasks[u], after[u])
<1>1. with \in Outcomes /\ tasks[s] \in Task
  BY DEF Closings, Outcomes
<1>2. after[s] = Settle(tasks[s], with) /\ \A u \in Speeches : u # s => after[u] = tasks[u]
  OBVIOUS
<1>3. after[s].state = IF Running(tasks[s]) THEN with ELSE tasks[s].state
  BY <1>1, <1>2, SettleShape
<1> QED
  BY <1>2, <1>3 DEF Closes

\* A task that is accepted takes effect.
LEMMA SucceedingTakes ==
  ASSUME NEW tasks \in [Speeches -> Task], NEW s \in Speeches,
         NEW after, after = [tasks EXCEPT ![s].state = "succeeded"]
  PROVE  /\ after[s].state = "succeeded"
         /\ \A u \in Speeches : u # s => after[u] = tasks[u]
<1>1. after[s] = [tasks[s] EXCEPT !.state = "succeeded"] /\ tasks[s] \in Task
  OBVIOUS
<1> QED
  BY <1>1, SucceedShape

\* What each step of a speech is to the ledger.
LEMMA SpeechEffect ==
  ASSUME Types, Courses, NotOpenedYet, NEW s \in Speeches, Speech(s)
  PROVE  \/ StepCloses
         \/ StepOpens(s, tts, tts', flush) /\ pc'[s] = "ready"
         \/ StepOpens(s, flush, flush', tts) /\ pc'[s] = "flushing"
         \/ StepTakes(s)
<1>0. /\ tts \in [Speeches -> Task] /\ flush \in [Speeches -> Task] /\ tts[s] \in Task /\ flush[s] \in Task
      /\ {"failed", "timed_out", "cancelled"} \subseteq Closings
  BY Facts DEF Closings
<1>a. /\ tts' = tts => \A u \in Speeches : Closes(tts[u], tts'[u])
      /\ flush' = flush => \A u \in Speeches : Closes(flush[u], flush'[u])
  BY DEF Closes
<1>1. CASE UNCHANGED <<activeTurn, tts, flush>>
  BY <1>1, <1>a DEF StepCloses
<1>2. ASSUME NEW with \in Closings, UNCHANGED <<activeTurn, tts>>,
             flush' = [flush EXCEPT ![s] = Settle(@, with)]
      PROVE  StepCloses
  BY <1>0, <1>2, <1>a, SettlingCloses DEF StepCloses
<1>3. ASSUME NEW with \in Closings, UNCHANGED <<activeTurn, flush>>,
             tts' = [tts EXCEPT ![s] = Settle(@, with)]
      PROVE  StepCloses
  BY <1>0, <1>3, <1>a, SettlingCloses DEF StepCloses
<1>4. ASSUME NEW how \in {"speech", "silence", "failure"}, AnswerOperation(s, how)
      PROVE  StepCloses \/ (StepOpens(s, tts, tts', flush) /\ pc'[s] = "ready")
  <2>1. /\ UNCHANGED <<activeTurn, flush>> /\ pc[s] = "awaited"
        /\ tts' = IF how = "speech" THEN [tts EXCEPT ![s] = Started] ELSE tts
    BY <1>4 DEF AnswerOperation
  <2>2. tts[s].state = "none" /\ Turn(s) = activeTurn
    BY <2>1 DEF NotOpenedYet, Courses, RunningIsActive
  <2>3. CASE how = "speech"
    <3>1. tts'[s] = Started /\ \A u \in Speeches : u # s => tts'[u] = tts[u]
      BY <1>0, <2>1, <2>3
    <3>2. pc'[s] = "ready"
      BY <1>4, <2>3 DEF AnswerOperation, Types, TypeOK
    <3> QED
      BY <2>1, <2>2, <3>1, <3>2, TasksBegin DEF StepOpens
  <2>4. CASE how # "speech"
    <3>1. tts' = tts /\ UNCHANGED <<activeTurn, flush>>
      BY <2>1, <2>4
    <3> QED
      BY <1>a, <3>1 DEF StepCloses
  <2> QED
    BY <2>3, <2>4
<1>5. ASSUME PrepareReplacement(s) PROVE StepOpens(s, flush, flush', tts) /\ pc'[s] = "flushing"
  <2>1. /\ UNCHANGED <<activeTurn, tts>> /\ pc[s] = "synthesizing" /\ Turn(s) = activeTurn
        /\ flush' = [flush EXCEPT ![s] = Started]
    BY <1>5 DEF PrepareReplacement, HasFirstAudio
  <2>2. flush[s].state = "none"
    BY <2>1 DEF NotOpenedYet
  <2>3. flush'[s] = Started /\ \A u \in Speeches : u # s => flush'[u] = flush[u]
    BY <1>0, <2>1
  <2>4. pc'[s] = "flushing"
    BY <1>5 DEF PrepareReplacement, Types, TypeOK
  <2> QED
    BY <2>1, <2>2, <2>3, <2>4, TasksBegin DEF StepOpens
<1>6. ASSUME StartFresh(s) \/ CommitReplacement(s) PROVE StepTakes(s)
  <2>1. StartOutput(s) /\ activeTurn' = activeTurn
    BY <1>6 DEF StartFresh, CommitReplacement
  <2>2. /\ \/ Running(tts[s]) /\ tts'[s].state \in {"succeeded", "timed_out"}
           \/ tts'[s].state = tts[s].state
        /\ \A u \in Speeches : u # s => tts'[u] = tts[u]
    BY <2>1, StartOutputTasks DEF Counts
  <2>3. CASE StartFresh(s)
    BY <2>1, <2>2, <2>3 DEF StartFresh, StepTakes
  <2>4. CASE CommitReplacement(s)
    <3>1. Running(flush[s]) /\ flush' = [flush EXCEPT ![s].state = "succeeded"]
      BY <2>4 DEF CommitReplacement, Accepted, Counts
    <3> QED
      BY <1>0, <2>1, <2>2, <3>1, SucceedingTakes DEF StepTakes
  <2> QED
    BY <1>6, <2>3, <2>4
<1>7. ASSUME NEW late \in BOOLEAN, RefuseReplacement(s, late) PROVE StepCloses \/ StepTakes(s)
  <2> DEFINE with == IF ~ Counts(flush[s], s) THEN "failed"
                     ELSE IF late THEN "timed_out" ELSE "succeeded"
  <2>1. UNCHANGED <<activeTurn, tts>> /\ flush' = [flush EXCEPT ![s] = Settle(@, with)]
    BY <1>7 DEF RefuseReplacement
  <2>2. CASE with \in Closings
    BY <1>2, <2>1, <2>2
  <2>3. CASE with \notin Closings
    <3>1. with = "succeeded" /\ Running(flush[s])
      BY <2>3 DEF Closings, Counts
    <3>2. /\ flush'[s] = Settle(flush[s], "succeeded")
          /\ \A u \in Speeches : u # s => flush'[u] = flush[u]
      BY <1>0, <2>1, <3>1
    <3>3. flush'[s].state = "succeeded"
      BY <1>0, <3>1, <3>2, SettleShape DEF Outcomes
    <3> QED
      BY <2>1, <3>1, <3>2, <3>3 DEF StepTakes
  <2> QED
    BY <2>2, <2>3
<1>8. CASE ExchangeIsStale(s) \/ ExchangeTimesOut(s) \/ (DeliverCancellation(s) /\ pc[s] \in Exchanging)
  BY <1>0, <1>2, <1>8 DEF ExchangeIsStale, ExchangeTimesOut, DeliverCancellation, EndExchange
<1>9. CASE ExchangeExpires(s)
  BY <1>0, <1>2, <1>9 DEF ExchangeExpires
<1>10. CASE AbandonSpeech(s) \/ SpeechTimesOut(s)
  BY <1>0, <1>3, <1>10 DEF AbandonSpeech, SpeechTimesOut
<1>11. CASE \/ BeginSpeech(s) \/ PrepareFreshOutput(s) \/ RefuseOutput(s) \/ AdmitReplacement(s)
            \/ FinishSpeech(s) \/ ProviderFails(s) \/ (DeliverCancellation(s) /\ pc[s] \notin Exchanging)
  BY <1>1, <1>11 DEF BeginSpeech, PrepareFreshOutput, RefuseOutput, AdmitReplacement, FinishSpeech,
     ProviderFails, DeliverCancellation, taskVars
<1> QED
  BY <1>4, <1>5, <1>6, <1>7, <1>8, <1>9, <1>10, <1>11 DEF Speech, Progress, Exchange

\* Nobody goes back to where nothing has been opened.
LEMMA SpeechStages ==
  ASSUME Types, NEW s \in Speeches, Speech(s)
  PROVE  /\ \A u \in Speeches : u # s => pc'[u] = pc[u]
         /\ pc'[s] \in {"none", "awaited"} => pc'[s] = pc[s]
         /\ pc'[s] \in {"none", "awaited", "ready", "synthesizing"} =>
              pc[s] \in {"none", "awaited", "ready", "synthesizing"}
<1>0. pc \in [Speeches -> Stages]
  BY DEF Types, TypeOK, Stages
<1>1. CASE pc' = pc
  BY <1>1
<1>2. ASSUME NEW to \in {"announcing", "flushing", "admitting", "emitting", "aborting", "done"},
             pc' = [pc EXCEPT ![s] = to]
      PROVE  /\ \A u \in Speeches : u # s => pc'[u] = pc[u]
             /\ pc'[s] \notin {"none", "awaited", "ready", "synthesizing"}
  BY <1>0, <1>2
<1>3. CASE (\E how \in {"speech", "silence", "failure"} : AnswerOperation(s, how)) \/ BeginSpeech(s)
  BY <1>0, <1>3 DEF AnswerOperation, BeginSpeech
<1>4. CASE \/ PrepareFreshOutput(s) \/ PrepareReplacement(s) \/ RefuseOutput(s) \/ StartFresh(s)
           \/ FinishSpeech(s) \/ AbandonSpeech(s) \/ DeliverCancellation(s) \/ ProviderFails(s)
  <2>1. \E to \in {"announcing", "flushing", "admitting", "emitting", "aborting", "done"} :
          pc' = [pc EXCEPT ![s] = to]
    BY <1>4 DEF PrepareFreshOutput, PrepareReplacement, RefuseOutput, StartFresh, FinishSpeech,
       AbandonSpeech, DeliverCancellation, ProviderFails, StartOutput, Leave
  <2> QED
    BY <1>2, <2>1
<1>5. CASE Exchange(s)
  <2>1. \E to \in {"announcing", "flushing", "admitting", "emitting", "aborting", "done"} :
          pc' = [pc EXCEPT ![s] = to]
    BY <1>5 DEF Exchange, ExchangeIsStale, ExchangeExpires, ExchangeTimesOut, AdmitReplacement,
       CommitReplacement, RefuseReplacement, StartOutput, Leave
  <2> QED
    BY <1>2, <2>1
<1>6. CASE SpeechTimesOut(s)
  BY <1>1, <1>6 DEF SpeechTimesOut
<1> QED
  BY <1>3, <1>4, <1>5, <1>6 DEF Speech, Progress

\* A new turn closes what is open, and opens what its own speech needs.
StepRaises ==
  /\ activeTurn' = activeTurn + 1
  /\ \A s \in Speeches :
       flush'[s].state = IF Running(flush[s]) THEN "cancelled" ELSE flush[s].state
  /\ \A s \in Speeches :
       \/ tts'[s].state = (IF Running(tts[s]) THEN "cancelled" ELSE tts[s].state)
       \/ tts[s].state = "none" /\ tts'[s].state = "running" /\ Turn(s) = activeTurn'

LEMMA AdmitEffect ==
  ASSUME Types, Courses, NotOpenedYet, NEW speaks \in BOOLEAN, AdmitTurn(speaks)
  PROVE  StepRaises /\ NotOpenedYet'
<1> DEFINE t == activeTurn + 1
           first == <<t, "initial">>
           second == <<t, "final">>
<1>1. /\ t \in 1..MaxTurn /\ activeTurn \in Nat /\ activeTurn' = t
      /\ first \in Speeches /\ second \in Speeches /\ first # second
      /\ Turn(first) = t /\ Turn(second) = t
  BY Facts, SpeechesOfTurn, CutoverAssumption DEF AdmitTurn
<1>2. pc[first] = "none" /\ pc[second] = "none"
  BY <1>1 DEF Courses, TurnsToCome
<1>3. tts[first].state = "none" /\ tts[second].state = "none"
  BY <1>1, <1>2 DEF NotOpenedYet
<1>4. /\ \A u \in Speeches : u # first => tts'[u] = CancelRunning(tts)[u]
      /\ tts'[first] = IF speaks THEN Started ELSE NoTask
      /\ flush' = CancelRunning(flush)
  BY <1>1, Facts, CancelRunningShape DEF AdmitTurn
<1>5. \A u \in Speeches :
        /\ flush'[u].state = IF Running(flush[u]) THEN "cancelled" ELSE flush[u].state
        /\ u # first =>
             tts'[u].state = IF Running(tts[u]) THEN "cancelled" ELSE tts[u].state
  BY <1>4, Facts, CancelRunningShape
<1>6. tts'[first].state \in {"none", "running"} /\ ~ Running(tts[first])
  BY <1>3, <1>4, TasksBegin DEF Running
<1>7. StepRaises
  BY <1>1, <1>3, <1>5, <1>6 DEF StepRaises
<1>8. NotOpenedYet'
  <2> SUFFICES ASSUME NEW u \in Speeches
               PROVE  /\ pc'[u] \in {"none", "awaited"} => tts'[u].state = "none"
                      /\ pc'[u] \in {"none", "awaited", "ready", "synthesizing"} =>
                           flush'[u].state = "none"
    BY DEF NotOpenedYet
  <2>1. pc'[u] = (CASE u = first -> IF speaks THEN "ready" ELSE "done"
                    [] u = second -> IF t \in Operating THEN "awaited" ELSE "done"
                    [] OTHER -> IF pc[u] = "awaited" THEN "done" ELSE pc[u])
    BY DEF AdmitTurn
  <2>2. CASE u = first
    <3>1. pc'[u] \in {"ready", "done"} /\ flush[u].state = "none"
      BY <1>2, <2>1, <2>2 DEF NotOpenedYet
    <3> QED
      BY <1>5, <3>1 DEF Running
  <2>3. CASE u = second
    <3>1. tts[u].state = "none" /\ flush[u].state = "none" /\ u # first
      BY <1>1, <1>2, <2>3 DEF NotOpenedYet
    <3> QED
      BY <1>5, <3>1 DEF Running
  <2>4. CASE u # first /\ u # second
    <3>1. pc'[u] = IF pc[u] = "awaited" THEN "done" ELSE pc[u]
      BY <2>1, <2>4
    <3>2. /\ pc[u] \in {"none", "awaited"} => tts[u].state = "none"
          /\ pc[u] \in {"none", "awaited", "ready", "synthesizing"} => flush[u].state = "none"
      BY DEF NotOpenedYet
    <3> QED
      BY <1>5, <2>4, <3>1, <3>2 DEF Running
  <2> QED
    BY <2>2, <2>3, <2>4
<1> QED
  BY <1>7, <1>8

\* A speech that steps has opened what its stage says.
LEMMA SpeechOpens ==
  ASSUME Types, Courses, NotOpenedYet, NEW s \in Speeches, Speech(s)
  PROVE  NotOpenedYet'
<1>1. /\ \A u \in Speeches : u # s => pc'[u] = pc[u]
      /\ pc'[s] \in {"none", "awaited"} => pc'[s] = pc[s]
      /\ pc'[s] \in {"none", "awaited", "ready", "synthesizing"} =>
           pc[s] \in {"none", "awaited", "ready", "synthesizing"}
  BY SpeechStages
<1>2. ASSUME \A u \in Speeches : /\ tts[u].state = "none" => tts'[u].state = "none"
                                 /\ flush[u].state = "none" => flush'[u].state = "none"
      PROVE  NotOpenedYet'
  BY <1>1, <1>2 DEF NotOpenedYet
<1>3. CASE StepCloses
  BY <1>2, <1>3 DEF StepCloses, Closes, Running
<1>4. CASE StepTakes(s)
  <2>1. \A u \in Speeches : /\ tts[u].state = "none" => tts'[u].state = "none"
                            /\ flush[u].state = "none" => flush'[u].state = "none"
    BY <1>4 DEF StepTakes, Running
  <2> QED
    BY <1>2, <2>1
<1>5. CASE StepOpens(s, tts, tts', flush) /\ pc'[s] = "ready"
  BY <1>1, <1>5 DEF StepOpens, NotOpenedYet
<1>6. CASE StepOpens(s, flush, flush', tts) /\ pc'[s] = "flushing"
  BY <1>1, <1>6 DEF StepOpens, NotOpenedYet
<1> QED
  BY <1>3, <1>4, <1>5, <1>6, SpeechEffect

\* Away from turns and speeches tasks are at most closed.
Away == LoseSink \/ RevokeIdentity \/ ChangeTrust \/ Dispatch \/ Control \/ UNCHANGED vars

LEMMA AwayCloses ==
  ASSUME Types, Away
  PROVE  StepCloses /\ pc' = pc
<1>0. tts \in [Speeches -> Task] /\ flush \in [Speeches -> Task] /\ "cancelled" \in Closings
  BY Facts DEF Closings
<1>1. CASE RevokeIdentity
  <2>1. /\ UNCHANGED <<activeTurn, pc>>
        /\ tts' = CancelRunning(tts) /\ flush' = CancelRunning(flush)
    BY <1>1 DEF RevokeIdentity, speechVars
  <2> QED
    BY <1>0, <2>1, CancelRunningShape DEF StepCloses, Closes
<1>2. CASE ChangeTrust
  <2>1. UNCHANGED <<activeTurn, pc>> /\ tts' = Outdated(tts) /\ flush' = Outdated(flush)
    BY <1>2 DEF ChangeTrust, speechVars
  <2> QED
    BY <1>0, <2>1, OutdatedShape DEF StepCloses, Closes
<1>3. CASE LoseSink \/ Dispatch \/ Control \/ UNCHANGED vars
  <2>1. UNCHANGED <<activeTurn, pc, tts, flush>>
    BY <1>3 DEF LoseSink, Dispatch, ReceiveReady, ReceiveAck, ReceiveFinished, Control, elsewhere,
       vars, speechVars, taskVars
  <2> QED
    BY <2>1 DEF StepCloses, Closes
<1> QED
  BY <1>1, <1>2, <1>3 DEF Away

\* No step opens a task before its time.
LEMMA NextNotOpenedYet ==
  ASSUME Types, Courses, NotOpenedYet, [Next]_vars
  PROVE  NotOpenedYet'
<1>1. CASE Away
  <2>1. StepCloses /\ pc' = pc
    BY <1>1, AwayCloses
  <2>2. \A u \in Speeches : /\ tts[u].state = "none" => tts'[u].state = "none"
                            /\ flush[u].state = "none" => flush'[u].state = "none"
    BY <2>1 DEF StepCloses, Closes, Running
  <2> QED
    BY <2>1, <2>2 DEF NotOpenedYet
<1> QED
  BY <1>1, AdmitEffect, SpeechOpens DEF Next, Away

\* Every task of the ledger is the speech's own or that of its exchange.
LEMMA TaskByName ==
  ASSUME NEW n \in TaskNames
  PROVE  \E s \in Speeches :
           /\ n[2] = s
           /\ \/ n = <<"tts", s>> /\ TaskOf(n) = tts[s] /\ TaskOf(n)' = tts'[s]
              \/ n = <<"flush", s>> /\ TaskOf(n) = flush[s] /\ TaskOf(n)' = flush'[s]
BY DEF TaskNames, TaskOf

LEMMA NameOfTask ==
  ASSUME NEW s \in Speeches
  PROVE  /\ <<"tts", s>> \in TaskNames /\ <<"flush", s>> \in TaskNames
         /\ <<"tts", s>>[2] = s /\ <<"flush", s>>[2] = s
         /\ TaskOf(<<"tts", s>>) = tts[s] /\ TaskOf(<<"flush", s>>) = flush[s]
         /\ TaskOf(<<"tts", s>>)' = tts'[s] /\ TaskOf(<<"flush", s>>)' = flush'[s]
BY DEF TaskNames, TaskOf

\* What the ledger sees of a task.
Seen(state, phase) ==
  /\ state = "none" => phase = "none"
  /\ state = "running" => phase = "open"
  /\ state = "succeeded" => phase = "done"
  /\ state \in Closings => phase = "closed"

LEMMA TasksSeen ==
  ASSUME NEW n \in TaskNames
  PROVE  /\ Seen(TaskOf(n).state, PhaseOf(n)) /\ Seen(TaskOf(n)'.state, PhaseOf(n)')
         /\ StampOf(n) = IF TaskOf(n).state = "none" THEN 0 ELSE Turn(n[2])
         /\ StampOf(n)' = IF TaskOf(n)'.state = "none" THEN 0 ELSE Turn(n[2])
<1>1. Seen(TaskOf(n).state, PhaseOf(n))
  BY DEF Seen, PhaseOf, Closings
<1>2. Seen(TaskOf(n)'.state, PhaseOf(n)')
  BY DEF Seen, PhaseOf, Closings
<1>3. /\ StampOf(n) = IF TaskOf(n).state = "none" THEN 0 ELSE Turn(n[2])
      /\ StampOf(n)' = IF TaskOf(n)'.state = "none" THEN 0 ELSE Turn(n[2])
  BY DEF StampOf, Turn
<1> QED
  BY <1>1, <1>2, <1>3

TaskStates == {"none", "running", "succeeded"} \cup Closings

LEMMA StatesOfTasks ==
  ASSUME Types, Types', NEW n \in TaskNames
  PROVE  TaskOf(n).state \in TaskStates /\ TaskOf(n)'.state \in TaskStates
<1>2. \A s \in Speeches :
        tts[s] \in Task /\ flush[s] \in Task /\ tts'[s] \in Task /\ flush'[s] \in Task
  BY DEF Types, TypeOK
<1>3. \A task \in Task : task.state \in TaskStates
  BY DEF Task, TaskStates, Closings
<1>4. TaskOf(n) \in Task /\ TaskOf(n)' \in Task
  BY <1>2, TaskByName
<1> QED
  BY <1>3, <1>4

\* Closing.
LEMMA ClosesMap ==
  ASSUME Types, Types', StepCloses
  PROVE  \E shut \in SUBSET Ledger!Opened : Ledger!Close(shut)
<1> DEFINE shut == {n \in TaskNames : PhaseOf(n) = "open" /\ PhaseOf(n)' = "closed"}
<1>1. shut \in SUBSET Ledger!Opened
  BY DEF Ledger!Opened
<1>2. ASSUME NEW n \in TaskNames
      PROVE  /\ PhaseOf(n)' = IF n \in shut THEN "closed" ELSE PhaseOf(n)
             /\ StampOf(n)' = StampOf(n)
  <2>1. Closes(TaskOf(n), TaskOf(n)')
    BY TaskByName DEF StepCloses
  <2>2. /\ TaskOf(n).state \in TaskStates /\ TaskOf(n)'.state \in TaskStates
        /\ Seen(TaskOf(n).state, PhaseOf(n)) /\ Seen(TaskOf(n)'.state, PhaseOf(n)')
    BY StatesOfTasks, TasksSeen
  <2>3. PhaseOf(n)' = IF n \in shut THEN "closed" ELSE PhaseOf(n)
    BY <2>1, <2>2 DEF Closes, Running, Seen, TaskStates, Closings
  <2>4. TaskOf(n)'.state = "none" <=> TaskOf(n).state = "none"
    BY <2>1 DEF Closes, Running, Closings
  <2> QED
    BY <2>3, <2>4, TasksSeen
<1>3. Ledger!Close(shut)
  BY <1>2 DEF Ledger!Close, StepCloses
<1> QED
  BY <1>1, <1>3

\* Opening one task, under the turn that is active.
LEMMA OpensMap ==
  ASSUME Types, Types', NEW m \in TaskNames, activeTurn' = activeTurn, Turn(m[2]) = activeTurn,
         TaskOf(m).state = "none", TaskOf(m)'.state = "running",
         \A n \in TaskNames : n # m => TaskOf(n)'.state = TaskOf(n).state
  PROVE  Ledger!Open(m, {})
<1>1. PhaseOf(m) = "none" /\ PhaseOf(m)' = "open" /\ StampOf(m)' = activeTurn
  BY TasksSeen DEF Seen
<1>2. ASSUME NEW n \in TaskNames, n # m
      PROVE  PhaseOf(n)' = PhaseOf(n) /\ StampOf(n)' = StampOf(n)
  <2>1. /\ TaskOf(n).state \in TaskStates
        /\ Seen(TaskOf(n).state, PhaseOf(n)) /\ Seen(TaskOf(n)'.state, PhaseOf(n)')
        /\ TaskOf(n)'.state = TaskOf(n).state
    BY <1>2, StatesOfTasks, TasksSeen
  <2> QED
    BY <2>1, TasksSeen DEF Seen, TaskStates, Closings
<1> QED
  BY <1>1, <1>2 DEF Ledger!Open

LEMMA SpeechOpensMap ==
  ASSUME Types, Types', NEW s \in Speeches,
         StepOpens(s, tts, tts', flush) \/ StepOpens(s, flush, flush', tts)
  PROVE  \E n \in TaskNames : Ledger!Open(n, {})
<1>1. CASE StepOpens(s, tts, tts', flush)
  <2> DEFINE m == <<"tts", s>>
  <2>1. /\ m \in TaskNames /\ activeTurn' = activeTurn /\ Turn(m[2]) = activeTurn
        /\ TaskOf(m).state = "none" /\ TaskOf(m)'.state = "running"
    BY <1>1, NameOfTask DEF StepOpens
  <2>2. \A n \in TaskNames : n # m => TaskOf(n)'.state = TaskOf(n).state
    <3>1. /\ flush' = flush /\ \A u \in Speeches : u # s => tts'[u].state = tts[u].state
      BY <1>1 DEF StepOpens
    <3> QED
      BY <3>1, TaskByName
  <2> QED
    BY <2>1, <2>2, OpensMap
<1>2. CASE StepOpens(s, flush, flush', tts)
  <2> DEFINE m == <<"flush", s>>
  <2>1. /\ m \in TaskNames /\ activeTurn' = activeTurn /\ Turn(m[2]) = activeTurn
        /\ TaskOf(m).state = "none" /\ TaskOf(m)'.state = "running"
    BY <1>2, NameOfTask DEF StepOpens
  <2>2. \A n \in TaskNames : n # m => TaskOf(n)'.state = TaskOf(n).state
    <3>1. /\ tts' = tts /\ \A u \in Speeches : u # s => flush'[u].state = flush[u].state
      BY <1>2 DEF StepOpens
    <3> QED
      BY <3>1, TaskByName
  <2> QED
    BY <2>1, <2>2, OpensMap
<1> QED
  BY <1>1, <1>2

\* Taking effect: the task of the speech, that of its exchange, or both; a
\* speech that is late is closed in the step in which its exchange takes effect.
LEMMA TakesMap ==
  ASSUME Types, Types', Courses, NEW s \in Speeches, StepTakes(s)
  PROVE  \E some, shut \in SUBSET Ledger!Opened : Ledger!TakeEffect(some, shut)
<1> DEFINE some == {n \in TaskNames : PhaseOf(n) = "open" /\ PhaseOf(n)' = "done"}
           shut == {n \in TaskNames : PhaseOf(n) = "open" /\ PhaseOf(n)' = "closed"}
<1>1. some \in SUBSET Ledger!Opened /\ shut \in SUBSET Ledger!Opened
  BY DEF Ledger!Opened
<1>2. ASSUME NEW n \in TaskNames
      PROVE  /\ PhaseOf(n)' = IF n \in some THEN "done"
                              ELSE IF n \in shut THEN "closed" ELSE PhaseOf(n)
             /\ StampOf(n)' = StampOf(n)
             /\ n \in some => StampOf(n) = activeTurn
  <2>1. \/ Running(TaskOf(n)) /\ TaskOf(n)'.state \in {"succeeded", "timed_out"}
        \/ TaskOf(n)'.state = TaskOf(n).state
    BY TaskByName DEF StepTakes
  <2>2. /\ TaskOf(n).state \in TaskStates /\ TaskOf(n)'.state \in TaskStates
        /\ Seen(TaskOf(n).state, PhaseOf(n)) /\ Seen(TaskOf(n)'.state, PhaseOf(n)')
    BY StatesOfTasks, TasksSeen
  <2>3. PhaseOf(n)' = IF n \in some THEN "done"
                      ELSE IF n \in shut THEN "closed" ELSE PhaseOf(n)
    BY <2>1, <2>2 DEF Running, Seen, TaskStates, Closings
  <2>4. TaskOf(n)'.state = "none" <=> TaskOf(n).state = "none"
    BY <2>1 DEF Running
  <2>5. n \in some => Running(TaskOf(n))
    BY <2>2 DEF Running, Seen, TaskStates, Closings
  <2>6. Running(TaskOf(n)) => Turn(n[2]) = activeTurn
    BY TaskByName DEF Courses, RunningIsActive
  <2>7. Running(TaskOf(n)) => StampOf(n) = Turn(n[2])
    BY TasksSeen DEF Running
  <2> QED
    BY <2>3, <2>4, <2>5, <2>6, <2>7, TasksSeen
<1>3. Ledger!TakeEffect(some, shut)
  BY <1>2 DEF Ledger!TakeEffect, StepTakes
<1> QED
  BY <1>1, <1>3

\* A new turn.
LEMMA RaisesMap ==
  ASSUME Types, Types', StepRaises
  PROVE  \E new \in SUBSET Ledger!Unopened : Ledger!RaiseFence(new)
<1> DEFINE new == {n \in TaskNames : PhaseOf(n) = "none" /\ PhaseOf(n)' = "open"}
<1>1. new \in SUBSET Ledger!Unopened
  BY DEF Ledger!Unopened
<1>2. ASSUME NEW n \in TaskNames
      PROVE  /\ PhaseOf(n)' = IF n \in new THEN "open"
                              ELSE IF PhaseOf(n) = "open" THEN "closed" ELSE PhaseOf(n)
             /\ StampOf(n)' = IF n \in new THEN activeTurn' ELSE StampOf(n)
  <2>1. \/ TaskOf(n)'.state = (IF Running(TaskOf(n)) THEN "cancelled" ELSE TaskOf(n).state)
        \/ /\ TaskOf(n).state = "none" /\ TaskOf(n)'.state = "running"
           /\ Turn(n[2]) = activeTurn'
    BY TaskByName DEF StepRaises
  <2>2. /\ TaskOf(n).state \in TaskStates /\ TaskOf(n)'.state \in TaskStates
        /\ Seen(TaskOf(n).state, PhaseOf(n)) /\ Seen(TaskOf(n)'.state, PhaseOf(n)')
    BY StatesOfTasks, TasksSeen
  <2>3. PhaseOf(n)' = IF n \in new THEN "open"
                      ELSE IF PhaseOf(n) = "open" THEN "closed" ELSE PhaseOf(n)
    BY <2>1, <2>2 DEF Running, Seen, TaskStates, Closings
  <2>4. n \in new <=> TaskOf(n).state = "none" /\ TaskOf(n)'.state = "running"
    BY <2>2 DEF Seen, TaskStates, Closings
  <2>5. n \notin new => (TaskOf(n)'.state = "none" <=> TaskOf(n).state = "none")
    BY <2>1, <2>4 DEF Running
  <2>6. n \in new => Turn(n[2]) = activeTurn'
    BY <2>1, <2>4 DEF Running
  <2> QED
    BY <2>3, <2>4, <2>5, <2>6, TasksSeen
<1>3. Ledger!RaiseFence(new)
  BY <1>2 DEF Ledger!RaiseFence, StepRaises
<1> QED
  BY <1>1, <1>3

\* The tasks of the speeches and of their exchanges are a ledger of the kind
\* SessionTasks implements: each opens once, for the turn that is active, takes
\* effect at most once and only for that turn, and is closed in the very step
\* that begins a newer one.
THEOREM TasksImplementLedger == Spec => TasksKeepTheLedger
<1>1. Init => Ledger!LedgerInit /\ NotOpenedYet
  <2> SUFFICES ASSUME Init PROVE Ledger!LedgerInit /\ NotOpenedYet
    OBVIOUS
  <2>1. \A s \in Speeches : tts[s].state = "none" /\ flush[s].state = "none"
    BY TasksBegin DEF Init
  <2>2. \A n \in TaskNames : TaskOf(n).state = "none"
    BY <2>1, TaskByName
  <2>3. \A n \in TaskNames : PhaseOf(n) = "none" /\ StampOf(n) = 0
    BY <2>2, TasksSeen DEF Seen
  <2>4. activeTurn = 0
    BY DEF Init, NoTurn
  <2>5. Ledger!LedgerInit
    BY <2>3, <2>4 DEF Ledger!LedgerInit
  <2> QED
    BY <2>1, <2>5 DEF NotOpenedYet
<1>2. ASSUME Types, Types', Courses, NotOpenedYet, [Next]_vars
      PROVE  [Ledger!LedgerNext]_(Ledger!ledgerVars)
  <2>1. CASE StepCloses
    BY <1>2, <2>1, ClosesMap DEF Ledger!LedgerNext
  <2>2. CASE \E speaks \in BOOLEAN : AdmitTurn(speaks)
    BY <1>2, <2>2, AdmitEffect, RaisesMap DEF Ledger!LedgerNext
  <2>3. ASSUME NEW s \in Speeches, Speech(s)
        PROVE  [Ledger!LedgerNext]_(Ledger!ledgerVars)
    <3>1. CASE StepTakes(s)
      BY <1>2, <3>1, TakesMap DEF Ledger!LedgerNext
    <3>2. CASE StepOpens(s, tts, tts', flush) \/ StepOpens(s, flush, flush', tts)
      <4>1. PICK n \in TaskNames : Ledger!Open(n, {})
        BY <1>2, <3>2, SpeechOpensMap
      <4>2. {} \in SUBSET Ledger!Settled
        OBVIOUS
      <4> QED
        BY <4>1, <4>2 DEF Ledger!LedgerNext
    <3> QED
      BY <1>2, <2>1, <2>3, <3>1, <3>2, SpeechEffect
  <2>4. CASE Away
    BY <1>2, <2>1, <2>4, AwayCloses
  <2> QED
    BY <1>2, <2>2, <2>3, <2>4 DEF Next, Away
<1>3. ASSUME Types, Courses, NotOpenedYet, [Next]_vars PROVE NotOpenedYet'
  BY <1>3, NextNotOpenedYet
<1> QED
  BY <1>1, <1>2, <1>3, InitTypes, NextTypes, InitCourses, NextCourses, PTL
     DEF Spec, TasksKeepTheLedger, Ledger!LedgerSpec

=============================================================================
