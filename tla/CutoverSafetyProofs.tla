------------------------- MODULE CutoverSafetyProofs -------------------------
(***************************************************************************)
(* What Cutover promises of the stream, for any number of turns and for    *)
(* whatever goes wrong: which generations of audio are heard, in which     *)
(* order, and which exchange a replacement in the fence belongs to.        *)
(***************************************************************************)
EXTENDS CutoverProofs

-----------------------------------------------------------------------------
(* What the fence knows of what has been heard                             *)

\* The lease that an exchange would fall back to.
Base(f) == IF f.acknowledged # NoReplacement THEN f.acknowledged.previous ELSE f.lease

\* A replacement is the next generation after the lease it is to replace, or has
\* replaced, and no generation in the fence is above its high water mark.
FenceInOrder(f) ==
  /\ f.lease.epoch <= f.last
  /\ f.pending # NoReplacement =>
       /\ HasLease(f) /\ f.pending.previous = f.lease
       /\ f.pending.lease.epoch = f.lease.epoch + 1
       /\ f.pending.lease.epoch <= f.last
  /\ f.acknowledged # NoReplacement =>
       /\ f.acknowledged.previous # NoLease
       /\ f.lease = f.acknowledged.lease
       /\ f.lease.epoch = f.acknowledged.previous.epoch + 1

\* Nothing above e will be given out as new, or come back, before e.
Past(f, e) == e <= f.last /\ (HasLease(f) => e <= Base(f).epoch)

Advances(f, g) ==
  FenceInOrder(g) /\ \A e \in Int : Past(f, e) => Past(g, e)

\* The first lease, and one that follows after the end of the last.
LEMMA ActivateAdvances ==
  ASSUME NEW f \in Fence, FenceInOrder(f), ~ HasLease(f), NEW t \in Nat
  PROVE  Advances(f, Activate(f, t)) /\ \A e \in Int : Past(f, e) => e < NewLease(f, t).epoch
<1> DEFINE g == Activate(f, t)
<1>1. /\ g.lease.epoch = f.last + 1 /\ g.last = f.last + 1
      /\ g.pending = NoReplacement /\ g.acknowledged = NoReplacement
      /\ NewLease(f, t).epoch = f.last + 1 /\ f.last \in Int
  <2>1. NewLease(f, t).epoch = f.last + 1
    BY NewLeaseShape DEF HasLease
  <2> QED
    BY <2>1, ActivateShape, FenceShape
<1> HIDE DEF g
<1>2. FenceInOrder(g)
  BY <1>1 DEF FenceInOrder
<1>3. \A e \in Int : Past(f, e) => e <= f.last
  BY DEF Past
<1>4. \A e \in Int : Past(f, e) => Past(g, e) /\ e < f.last + 1
  BY <1>1, <1>3 DEF Past, Base
<1> QED
  BY <1>1, <1>2, <1>4 DEF Advances, g

\* A replacement that is opened.
LEMMA InterruptAdvances ==
  ASSUME NEW f \in Fence, FenceInOrder(f), HasLease(f), NEW t \in Nat
  PROVE  Advances(f, Interrupt(f, t))
<1> DEFINE g == Interrupt(f, t)
<1>1. /\ g.lease = f.lease /\ g.last = f.lease.epoch + 1 /\ g.acknowledged = f.acknowledged
      /\ g.pending.previous = f.lease /\ g.pending.lease.epoch = f.lease.epoch + 1
      /\ f.lease.epoch \in Int /\ f.last \in Int
  <2>1. NewLease(f, t).epoch = f.lease.epoch + 1
    BY NewLeaseShape DEF HasLease
  <2> QED
    BY <2>1, InterruptShape, FenceShape, LeaseShape
<1> HIDE DEF g
<1>2. FenceInOrder(g)
  BY <1>1 DEF FenceInOrder, HasLease
<1>3. \A e \in Int : Past(f, e) => e <= Base(f).epoch
  BY DEF Past
<1>4. Base(f).epoch \in Int /\ Base(f).epoch <= f.lease.epoch
  BY FenceShape, ReplacementShape, LeaseShape DEF Base, FenceInOrder
<1>5. Base(g) = Base(f)
  BY <1>1 DEF Base
<1>6. \A e \in Int : Past(f, e) => Past(g, e)
  BY <1>1, <1>3, <1>4, <1>5 DEF Past
<1> QED
  BY <1>2, <1>6 DEF Advances, g

\* Sound has flushed.
LEMMA AcknowledgeAdvances ==
  ASSUME NEW f \in Fence, FenceInOrder(f), NEW r \in Nat
  PROVE  Advances(f, Acknowledge(f, r))
<1> DEFINE g == Acknowledge(f, r)
<1>0. f.lease.epoch \in Int /\ f.last \in Int /\ Base(f).epoch \in Int
      /\ f.pending.previous.epoch \in Int
  BY FenceShape, ReplacementShape, LeaseShape DEF Base
<1>1. CASE g = f
  BY <1>1 DEF Advances
<1>2. CASE g # f
  <2>1. /\ f.pending # NoReplacement /\ g.lease = f.pending.lease /\ g.acknowledged = f.pending
        /\ g.pending = NoReplacement /\ g.last = f.last
    BY <1>2, AcknowledgeShape
  <2> HIDE DEF g
  <2>2. FenceInOrder(g)
    BY <1>0, <2>1 DEF FenceInOrder, HasLease
  <2>3. Base(g) = f.lease /\ Base(f).epoch <= f.lease.epoch /\ HasLease(f)
    BY <1>0, <2>1, FenceShape, ReplacementShape, LeaseShape DEF Base, FenceInOrder
  <2>4. \A e \in Int : Past(f, e) => Past(g, e)
    BY <1>0, <2>1, <2>3 DEF Past
  <2> QED
    BY <2>2, <2>4 DEF Advances, g
<1> QED
  BY <1>1, <1>2

\* A replacement that is given up.
LEMMA AbandonAdvances ==
  ASSUME NEW f \in Fence, FenceInOrder(f)
  PROVE  Advances(f, Abandon(f))
<1> DEFINE g == Abandon(f)
<1>0. /\ f.lease.epoch \in Int /\ f.last \in Int /\ f.acknowledged.previous.epoch \in Int
      /\ g.last = f.last /\ g.pending = NoReplacement
  BY FenceShape, ReplacementShape, LeaseShape, AbandonShape
<1>1. CASE f.pending # NoReplacement
  <2>1. g.lease = f.lease /\ g.acknowledged = f.acknowledged
    BY <1>1, AbandonShape
  <2> HIDE DEF g
  <2> QED
    BY <1>0, <2>1 DEF Advances, FenceInOrder, Past, Base, HasLease, g
<1>2. CASE f.pending = NoReplacement /\ f.acknowledged = NoReplacement
  <2>1. g.lease = f.lease /\ g.acknowledged = NoReplacement
    BY <1>2, AbandonShape
  <2> HIDE DEF g
  <2> QED
    BY <1>0, <1>2, <2>1 DEF Advances, FenceInOrder, Past, Base, HasLease, g
<1>3. CASE f.pending = NoReplacement /\ f.acknowledged # NoReplacement
  <2>1. g.lease = f.acknowledged.previous /\ g.acknowledged = NoReplacement
    BY <1>3, AbandonShape DEF FenceInOrder
  <2>2. f.lease.epoch = f.acknowledged.previous.epoch + 1 /\ f.lease # NoLease
    BY <1>3, FenceShape, ReplacementShape, LeaseShape DEF FenceInOrder, NoEpoch
  <2> HIDE DEF g
  <2>3. FenceInOrder(g)
    BY <1>0, <2>1, <2>2 DEF FenceInOrder
  <2>4. \A e \in Int : Past(f, e) => Past(g, e)
    BY <1>0, <1>3, <2>1, <2>2 DEF Past, Base, HasLease
  <2> QED
    BY <2>3, <2>4 DEF Advances, g
<1> QED
  BY <1>1, <1>2, <1>3

\* A replacement that becomes irreversible.
LEMMA CommitAdvances ==
  ASSUME NEW f \in Fence, FenceInOrder(f), f.acknowledged # NoReplacement
  PROVE  Advances(f, Commit(f))
<1> DEFINE g == Commit(f)
<1>0. /\ f.lease.epoch \in Int /\ f.last \in Int /\ f.acknowledged.previous.epoch \in Int
      /\ g.last = f.last /\ g.pending = f.pending /\ g.lease = f.lease
      /\ g.acknowledged = NoReplacement
  BY FenceShape, ReplacementShape, LeaseShape, CommitShape
<1> HIDE DEF g
<1>1. FenceInOrder(g)
  BY <1>0 DEF FenceInOrder, HasLease
<1>2. f.lease.epoch = f.acknowledged.previous.epoch + 1
  BY DEF FenceInOrder
<1>3. \A e \in Int : Past(f, e) => Past(g, e)
  BY <1>0, <1>2 DEF Past, Base, HasLease
<1> QED
  BY <1>1, <1>3 DEF Advances, g

\* What neither opens nor closes an exchange.
LEMMA OtherAdvances ==
  ASSUME NEW f \in Fence, FenceInOrder(f)
  PROVE  /\ Advances(f, f)
         /\ Advances(f, Retain(f))
         /\ Advances(f, Revoke(f))
         /\ f.pending = NoReplacement /\ f.acknowledged = NoReplacement => Advances(f, Release(f))
<1>0. f.last \in Int /\ f.last >= NoEpoch /\ NoLease.epoch = NoEpoch /\ NoEpoch \in Int
  BY FenceShape DEF NoLease, NoEpoch
<1>1. Advances(f, f)
  BY DEF Advances
<1>2. Advances(f, Retain(f))
  BY RetainShape DEF Advances, FenceInOrder, Past, Base, HasLease
<1>3. Advances(f, Revoke(f))
  BY <1>0, RevokeShape DEF Advances, FenceInOrder, Past, Base, HasLease
<1>4. ASSUME f.pending = NoReplacement, f.acknowledged = NoReplacement PROVE Advances(f, Release(f))
  BY <1>0, <1>4, ReleaseShape DEF Advances, FenceInOrder, Past, Base, HasLease
<1> QED
  BY <1>1, <1>2, <1>3, <1>4


-----------------------------------------------------------------------------
(* What a step can do                                                      *)

\* A speech that begins to be heard.
Begins(s) ==
  (StartFresh(s) \/ CommitReplacement(s)) /\ Counts(tts[s], s) /\ pc'[s] = "emitting"

\* The speeches other than the one that moves stay as they are; a cancellation
\* may be asked of them.
LEMMA OthersStay ==
  ASSUME Types, NEW s \in Speeches, Speech(s), NEW u \in Speeches, u # s
  PROVE  /\ activeTurn' = activeTurn
         /\ pc'[u] = pc[u] /\ out'[u] = out[u] /\ asked'[u] = asked[u]
         /\ tts'[u] = tts[u] /\ flush'[u] = flush[u]
         /\ cut'[u] = "no" => cut[u] = "no"
         /\ cut'[u] = "abandoned" => cut[u] = "abandoned"
<1> DEFINE Stay == /\ activeTurn' = activeTurn
                   /\ pc'[u] = pc[u] /\ out'[u] = out[u] /\ asked'[u] = asked[u]
                   /\ tts'[u] = tts[u] /\ flush'[u] = flush[u]
                   /\ cut'[u] = "no" => cut[u] = "no"
                   /\ cut'[u] = "abandoned" => cut[u] = "abandoned"
<1> USE DEF Types, TypeOK, speechVars, taskVars
<1>1. CASE \E how \in {"speech", "silence", "failure"} : AnswerOperation(s, how)
  BY <1>1 DEF AnswerOperation
<1>2. CASE BeginSpeech(s)
  BY <1>2 DEF BeginSpeech
<1>3. CASE PrepareFreshOutput(s)
  <2>1. /\ activeTurn' = activeTurn /\ cut' = cut /\ asked' = asked /\ UNCHANGED taskVars
        /\ \E e : out' = [out EXCEPT ![s] = e]
        /\ \E to : pc' = [pc EXCEPT ![s] = to]
    BY <1>3 DEF PrepareFreshOutput, Leave
  <2> QED
    BY <2>1
<1>4. CASE PrepareReplacement(s)
  <2>1. /\ activeTurn' = activeTurn /\ cut' = cut /\ tts' = tts
        /\ \E e : out' = [out EXCEPT ![s] = e]
        /\ \E r : asked' = [asked EXCEPT ![s] = r]
        /\ pc' = [pc EXCEPT ![s] = "flushing"] /\ flush' = [flush EXCEPT ![s] = Started]
    BY <1>4 DEF PrepareReplacement
  <2> QED
    BY <2>1
<1>5. CASE RefuseOutput(s)
  BY <1>5 DEF RefuseOutput, Leave
<1>6. CASE Exchange(s)
  <2>1. CASE ExchangeIsStale(s) \/ ExchangeExpires(s) \/ ExchangeTimesOut(s)
    BY <2>1 DEF ExchangeIsStale, ExchangeExpires, ExchangeTimesOut, EndExchange, Leave
  <2>2. CASE AdmitReplacement(s)
    BY <2>2 DEF AdmitReplacement, ReplaceWaiter
  <2>3. CASE CommitReplacement(s)
    BY <2>3 DEF CommitReplacement, StartOutput, Leave
  <2>4. CASE \E late \in BOOLEAN : RefuseReplacement(s, late)
    BY <2>4 DEF RefuseReplacement, Leave
  <2> QED
    BY <1>6, <2>1, <2>2, <2>3, <2>4 DEF Exchange
<1>7. CASE StartFresh(s)
  BY <1>7 DEF StartFresh, StartOutput, Leave
<1>8. CASE FinishSpeech(s) \/ ProviderFails(s) \/ AbandonSpeech(s)
  BY <1>8 DEF FinishSpeech, ProviderFails, AbandonSpeech, Leave
<1>9. CASE DeliverCancellation(s)
  <2>1. /\ UNCHANGED <<activeTurn, out, asked, tts>>
        /\ cut' = [cut EXCEPT ![s] = "no"]
        /\ \E to : pc' = [pc EXCEPT ![s] = to]
        /\ flush' = flush \/ \E x : flush' = [flush EXCEPT ![s] = x]
    BY <1>9 DEF DeliverCancellation, EndExchange
  <2> QED
    BY <2>1
<1>10. CASE SpeechTimesOut(s)
  <2>1. /\ UNCHANGED <<activeTurn, pc, out, asked, flush>>
        /\ tts' = [tts EXCEPT ![s] = Settle(@, "timed_out")]
        /\ \A v \in Speeches : v # s => cut'[v] = cut[v]
    BY <1>10 DEF SpeechTimesOut, Cut
  <2> QED
    BY <2>1
<1> QED
  BY <1>1, <1>2, <1>3, <1>4, <1>5, <1>6, <1>7, <1>8, <1>9, <1>10 DEF Speech, Progress

\* A new turn cancels what runs and begins at most its own first task.
LEMMA AdmitTasks ==
  ASSUME Types, Courses, NEW speaks \in BOOLEAN, AdmitTurn(speaks)
  PROVE  /\ activeTurn \in Nat /\ activeTurn' = activeTurn + 1
         /\ <<activeTurn', "initial">> \in Speeches
         /\ pc'[<<activeTurn', "initial">>] \in {"ready", "done"}
         /\ \A u \in Speeches :
              /\ ~ Running(flush'[u])
              /\ flush'[u].state = IF Running(flush[u]) THEN "cancelled" ELSE flush[u].state
              /\ Running(tts'[u]) => u = <<activeTurn', "initial">> /\ pc'[u] = "ready"
              /\ tts'[u].state = "succeeded" <=> Heard(u)
<1> DEFINE t == activeTurn + 1
           first == <<t, "initial">>
<1>1. /\ t \in 1..MaxTurn /\ activeTurn \in Nat /\ activeTurn' = t
      /\ first \in Speeches /\ Turn(first) = t
  <2>1. t \in 1..MaxTurn /\ activeTurn \in Nat /\ activeTurn' = t
    BY Facts, CutoverAssumption DEF AdmitTurn
  <2> HIDE DEF t
  <2> QED
    BY <2>1, SpeechesOfTurn
<1>2. /\ pc'[first] = (IF speaks THEN "ready" ELSE "done")
      /\ \A u \in Speeches : u # first => tts'[u] = CancelRunning(tts)[u]
      /\ tts'[first] = (IF speaks THEN Started ELSE NoTask)
      /\ flush' = CancelRunning(flush)
  BY <1>1, Facts, CancelRunningShape DEF AdmitTurn
<1>3. ~ Heard(first)
  BY <1>1 DEF Courses, TurnsToCome, HeardHasSpoken
<1>4. tts'[first].state # "succeeded" /\ (Running(tts'[first]) => pc'[first] = "ready")
  BY <1>2, TasksBegin
<1>5. \A u \in Speeches : u # first => /\ ~ Running(tts'[u])
                                       /\ tts'[u].state = "succeeded" <=> Heard(u)
  BY <1>2, Facts, CancelRunningShape DEF Heard, Running
<1>6. \A u \in Speeches :
        /\ ~ Running(flush'[u])
        /\ flush'[u].state = IF Running(flush[u]) THEN "cancelled" ELSE flush[u].state
  BY <1>2, Facts, CancelRunningShape
<1> QED
  BY <1>1, <1>2, <1>3, <1>4, <1>5, <1>6

\* An answered operation begins one task, of a speech that was awaited.
LEMMA AnswerTasks ==
  ASSUME Types, Courses, NEW s \in Speeches, NEW how \in {"speech", "silence", "failure"},
         AnswerOperation(s, how)
  PROVE  /\ pc[s] = "awaited" /\ pc'[s] \in {"ready", "done"} /\ flush' = flush
         /\ \A u \in Speeches : u # s => tts'[u] = tts[u] /\ pc'[u] = pc[u]
         /\ pc'[s] = "ready" => tts'[s] = Started
         /\ \A u \in Speeches : tts'[u].state = "succeeded" <=> Heard(u)
<1>1. /\ pc[s] = "awaited" /\ pc' = [pc EXCEPT ![s] = IF how = "speech" THEN "ready" ELSE "done"]
      /\ tts' = IF how = "speech" THEN [tts EXCEPT ![s] = Started] ELSE tts
      /\ flush' = flush
  BY DEF AnswerOperation
<1>2. /\ pc'[s] = (IF how = "speech" THEN "ready" ELSE "done")
      /\ \A u \in Speeches : u # s => pc'[u] = pc[u]
  BY <1>1 DEF Types, TypeOK
<1>3. /\ \A u \in Speeches : u # s => tts'[u] = tts[u]
      /\ tts'[s] = IF how = "speech" THEN Started ELSE tts[s]
  BY <1>1, Facts
<1>4. ~ Heard(s) /\ tts'[s].state # "succeeded"
  BY <1>1, <1>3, TasksBegin DEF Courses, HeardHasSpoken, Heard
<1> QED
  BY <1>1, <1>2, <1>3, <1>4 DEF Heard

\* The stage a speech goes to by itself while it is on its way to its first
\* frame.
Moves(s) ==
  \/ BeginSpeech(s) /\ pc'[s] = "synthesizing" /\ cut' = cut /\ Running(tts[s])
  \/ PrepareFreshOutput(s) /\ pc'[s] = "announcing"
  \/ PrepareReplacement(s) /\ pc'[s] = "flushing"
  \/ AdmitReplacement(s) /\ pc'[s] = "admitting"

\* What the speech that moves does to its own tasks.
LEMMA OwnStep ==
  ASSUME Types, Courses, NEW s \in Speeches, Speech(s)
  PROVE  /\ activeTurn' = activeTurn
         /\ pc'[s] \in Suspended =>
              pc[s] \in Suspended \cup {"ready"} /\ ((pc'[s] = pc[s] /\ cut'[s] # "no") \/ Moves(s))
         /\ out'[s] = out[s] \/ PrepareFreshOutput(s) \/ PrepareReplacement(s)
         /\ asked'[s] = asked[s] \/ PrepareReplacement(s)
         /\ Running(tts'[s]) => tts'[s] = tts[s] \/ pc'[s] = "ready"
         /\ Running(flush'[s]) => flush'[s] = flush[s] \/ PrepareReplacement(s)
         /\ Heard(s) => tts'[s] = tts[s] /\ out'[s] = out[s]
         /\ tts'[s].state = "succeeded" /\ ~ Heard(s) => Begins(s)
<1> DEFINE Goal ==
         /\ activeTurn' = activeTurn
         /\ pc'[s] \in Suspended =>
              pc[s] \in Suspended \cup {"ready"} /\ ((pc'[s] = pc[s] /\ cut'[s] # "no") \/ Moves(s))
         /\ out'[s] = out[s] \/ PrepareFreshOutput(s) \/ PrepareReplacement(s)
         /\ asked'[s] = asked[s] \/ PrepareReplacement(s)
         /\ Running(tts'[s]) => tts'[s] = tts[s] \/ pc'[s] = "ready"
         /\ Running(flush'[s]) => flush'[s] = flush[s] \/ PrepareReplacement(s)
         /\ Heard(s) => tts'[s] = tts[s] /\ out'[s] = out[s]
         /\ tts'[s].state = "succeeded" /\ ~ Heard(s) => Begins(s)
<1>0. /\ \A x \in {"none", "awaited", "ready", "emitting", "aborting", "done"} : x \notin Suspended
      /\ {"synthesizing", "announcing", "flushing", "admitting"} \subseteq Suspended
      /\ Heard(s) => pc[s] \in {"emitting", "aborting", "done"}
      /\ tts[s] \in Task /\ flush[s] \in Task
      /\ \E x : pc = [u \in Speeches |-> x[u]]
      /\ \E x : out = [u \in Speeches |-> x[u]]
  BY Facts DEF Suspended, Courses, HeardHasSpoken, Types, TypeOK
<1>a. \A to : pc' = [pc EXCEPT ![s] = to] => pc'[s] = to
  BY DEF Types, TypeOK
<1>1. CASE \E how \in {"speech", "silence", "failure"} : AnswerOperation(s, how)
  <2>1. PICK how \in {"speech", "silence", "failure"} : AnswerOperation(s, how)
    BY <1>1
  <2>2. UNCHANGED <<activeTurn, out, asked, flush>>
    BY <2>1 DEF AnswerOperation
  <2>3. /\ pc[s] = "awaited" /\ pc'[s] \in {"ready", "done"}
        /\ tts' = tts \/ pc'[s] = "ready"
        /\ tts'[s].state = "succeeded" <=> Heard(s)
    <3>1. /\ pc' = [pc EXCEPT ![s] = IF how = "speech" THEN "ready" ELSE "done"]
          /\ tts' = tts \/ how = "speech"
      BY <2>1 DEF AnswerOperation
    <3> QED
      BY <2>1, <3>1, <1>a, AnswerTasks
  <2> QED
    BY <1>0, <2>2, <2>3 DEF Heard
<1>2. CASE BeginSpeech(s)
  <2>1. /\ UNCHANGED <<activeTurn, cut, out, asked, tts, flush>> /\ pc[s] = "ready"
        /\ pc' = [pc EXCEPT ![s] = IF Running(tts[s]) THEN "synthesizing" ELSE "done"]
    BY <1>2 DEF BeginSpeech, taskVars
  <2>2. pc'[s] = IF Running(tts[s]) THEN "synthesizing" ELSE "done"
    BY <2>1, <1>a
  <2> QED
    BY <1>0, <1>2, <2>1, <2>2 DEF Moves, Heard
<1>3. CASE PrepareFreshOutput(s)
  <2>1. /\ UNCHANGED <<activeTurn, cut, asked, tts, flush>> /\ pc[s] = "synthesizing"
        /\ pc' = [pc EXCEPT ![s] = "announcing"] \/ pc' = [pc EXCEPT ![s] = "aborting"]
    BY <1>3 DEF PrepareFreshOutput, taskVars, HasFirstAudio, Leave
  <2>2. pc'[s] \in {"announcing", "aborting"}
    BY <2>1, <1>a
  <2> QED
    BY <1>0, <1>3, <2>1, <2>2 DEF Moves, Heard
<1>4. CASE PrepareReplacement(s)
  <2>1. /\ UNCHANGED <<activeTurn, cut, tts>> /\ pc[s] = "synthesizing"
        /\ pc' = [pc EXCEPT ![s] = "flushing"]
    BY <1>4 DEF PrepareReplacement, HasFirstAudio
  <2>2. pc'[s] = "flushing"
    BY <2>1, <1>a
  <2> QED
    BY <1>0, <1>4, <2>1, <2>2 DEF Moves, Heard
<1>5. CASE RefuseOutput(s)
  <2>1. /\ UNCHANGED <<activeTurn, out, asked, tts, flush>>
        /\ pc' = [pc EXCEPT ![s] = "aborting"]
    BY <1>5 DEF RefuseOutput, Leave, taskVars
  <2> QED
    BY <1>0, <1>a, <2>1 DEF Heard
<1>6. CASE ExchangeIsStale(s) \/ ExchangeExpires(s) \/ ExchangeTimesOut(s)
  <2>1. /\ UNCHANGED <<activeTurn, out, asked, tts>>
        /\ pc' = [pc EXCEPT ![s] = "aborting"]
        /\ \E with \in {"failed", "timed_out"} : flush' = [flush EXCEPT ![s] = Settle(@, with)]
    BY <1>6 DEF ExchangeIsStale, ExchangeExpires, ExchangeTimesOut, EndExchange, Leave
  <2>2. ~ Running(flush'[s])
    BY <2>1, EndExchangeTasks DEF Outcomes
  <2> QED
    BY <1>0, <1>a, <2>1, <2>2 DEF Heard
<1>7. CASE AdmitReplacement(s)
  <2>1. /\ UNCHANGED <<activeTurn, out, asked, tts, flush>> /\ pc[s] = "flushing"
        /\ pc' = [pc EXCEPT ![s] = "admitting"]
    BY <1>7 DEF AdmitReplacement, taskVars, Polls
  <2> QED
    BY <1>0, <1>7, <1>a, <2>1 DEF Heard, Moves
<1>8. CASE StartFresh(s) \/ CommitReplacement(s)
  <2>1. /\ UNCHANGED <<activeTurn, out, asked>> /\ StartOutput(s)
        /\ flush' = flush \/ flush' = [flush EXCEPT ![s].state = "succeeded"]
        /\ pc[s] \in {"announcing", "admitting"}
    BY <1>8 DEF StartFresh, CommitReplacement, Resumes
  <2>2. flush'[s] = flush[s] \/ ~ Running(flush'[s])
    BY <2>1, Facts, SucceedShape DEF Running
  <2>3. \/ /\ pc' = [pc EXCEPT ![s] = "emitting"] /\ tts'[s].state = "succeeded"
           /\ Counts(tts[s], s)
        \/ /\ pc' = [pc EXCEPT ![s] = "aborting"]
           /\ tts'[s] = tts[s] \/ tts'[s].state = "timed_out"
    BY <2>1, StartOutputTasks DEF Counts
  <2>4. ~ Heard(s)
    BY <1>0, <2>1
  <2>5. \/ pc'[s] = "emitting" /\ tts'[s].state = "succeeded" /\ Counts(tts[s], s)
        \/ pc'[s] = "aborting" /\ (tts'[s] = tts[s] \/ tts'[s].state = "timed_out")
    BY <2>3, <1>a
  <2> QED
    BY <1>0, <1>8, <2>1, <2>2, <2>4, <2>5 DEF Heard, Begins, Running
<1>9. CASE \E late \in BOOLEAN : RefuseReplacement(s, late)
  <2>1. /\ UNCHANGED <<activeTurn, out, asked, tts>>
        /\ pc' = [pc EXCEPT ![s] = "aborting"]
        /\ \E with \in {"failed", "timed_out", "succeeded"} :
             flush' = [flush EXCEPT ![s] = Settle(@, with)]
    BY <1>9 DEF RefuseReplacement, Leave
  <2>2. ~ Running(flush'[s])
    BY <2>1, EndExchangeTasks DEF Outcomes
  <2> QED
    BY <1>0, <1>a, <2>1, <2>2 DEF Heard
<1>10. CASE FinishSpeech(s) \/ ProviderFails(s)
  <2>1. /\ UNCHANGED <<activeTurn, out, asked, tts, flush>>
        /\ \E to \in {"aborting", "done"} : pc' = [pc EXCEPT ![s] = to]
    BY <1>10 DEF FinishSpeech, ProviderFails, Leave, taskVars
  <2> QED
    BY <1>0, <1>a, <2>1 DEF Heard
<1>11. CASE AbandonSpeech(s) \/ SpeechTimesOut(s)
  <2>1. /\ UNCHANGED <<activeTurn, out, asked, flush>>
        /\ \E with \in {"cancelled", "timed_out"} : tts' = [tts EXCEPT ![s] = Settle(@, with)]
    BY <1>11 DEF AbandonSpeech, SpeechTimesOut
  <2>2. /\ ~ Running(tts'[s]) /\ (tts'[s].state = "succeeded" <=> Heard(s))
        /\ Heard(s) => tts'[s] = tts[s]
    <3>1. PICK with \in {"cancelled", "timed_out"} : tts'[s] = Settle(tts[s], with)
      BY <2>1, Facts
    <3> QED
      BY <1>0, <3>1, SettleShape DEF Outcomes, Settle, Heard, Running
  <2>3. CASE AbandonSpeech(s)
    <3>1. pc'[s] = "done"
      BY <2>3, <1>a DEF AbandonSpeech
    <3> QED
      BY <1>0, <2>1, <2>2, <3>1
  <2>4. CASE SpeechTimesOut(s)
    <3>1. pc' = pc /\ cut'[s] # "no" /\ pc[s] \in Suspended
      BY <2>4 DEF SpeechTimesOut, Cut
    <3> QED
      BY <1>0, <2>1, <2>2, <3>1
  <2> QED
    BY <1>11, <2>3, <2>4
<1>12. CASE DeliverCancellation(s)
  <2>1. /\ UNCHANGED <<activeTurn, out, asked, tts>>
        /\ \E to \in {"aborting", "done"} : pc' = [pc EXCEPT ![s] = to]
        /\ flush' = flush \/ flush' = [flush EXCEPT ![s] = Settle(@, "failed")]
    BY <1>12 DEF DeliverCancellation, EndExchange
  <2>2. flush'[s] = flush[s] \/ ~ Running(flush'[s])
    BY <2>1, EndExchangeTasks DEF Outcomes
  <2>3. pc'[s] \in {"aborting", "done"}
    BY <2>1, <1>a
  <2> QED
    BY <1>0, <2>1, <2>2, <2>3 DEF Heard
<1> QED
  BY <1>1, <1>2, <1>3, <1>4, <1>5, <1>6, <1>7, <1>8, <1>9, <1>10, <1>11, <1>12
     DEF Speech, Progress, Exchange

\* A speech gets ready by an answer to its operation alone.
LEMMA ReadyIsAnswered ==
  ASSUME Types, NEW s \in Speeches, Speech(s), pc'[s] = "ready"
  PROVE  \E how \in {"speech", "silence", "failure"} : AnswerOperation(s, how)
<1>1. \A to : pc' = [pc EXCEPT ![s] = to] => to = "ready"
  BY DEF Types, TypeOK
<1>2. ~ BeginSpeech(s) /\ ~ PrepareFreshOutput(s) /\ ~ PrepareReplacement(s) /\ ~ RefuseOutput(s)
  <2>1. BeginSpeech(s) => pc' = [pc EXCEPT ![s] = "synthesizing"] \/ pc' = [pc EXCEPT ![s] = "done"]
    BY DEF BeginSpeech
  <2>2. PrepareFreshOutput(s) =>
          pc' = [pc EXCEPT ![s] = "announcing"] \/ pc' = [pc EXCEPT ![s] = "aborting"]
    BY DEF PrepareFreshOutput, Leave
  <2> QED
    BY <1>1, <2>1, <2>2 DEF PrepareReplacement, RefuseOutput, Leave
<1>3. ~ Exchange(s) /\ ~ StartFresh(s)
  BY <1>1 DEF Exchange, ExchangeIsStale, ExchangeExpires, ExchangeTimesOut, AdmitReplacement,
              CommitReplacement, RefuseReplacement, StartFresh, StartOutput, Leave
<1>4. ~ FinishSpeech(s) /\ ~ AbandonSpeech(s) /\ ~ ProviderFails(s) /\ ~ SpeechTimesOut(s)
  BY <1>1 DEF FinishSpeech, AbandonSpeech, ProviderFails, SpeechTimesOut, Leave, Suspended
<1>5. ~ DeliverCancellation(s)
  <2>1. DeliverCancellation(s) =>
          pc' = [pc EXCEPT ![s] = "done"] \/ pc' = [pc EXCEPT ![s] = "aborting"]
    BY DEF DeliverCancellation
  <2> QED
    BY <1>1, <2>1
<1> QED
  BY <1>2, <1>3, <1>4, <1>5 DEF Speech, Progress

\* What neither a turn nor a speech does.
Elsewhere == Dispatch \/ Control \/ LoseSink \/ RevokeIdentity \/ ChangeTrust \/ UNCHANGED vars

\* It moves no coroutine, and begins and completes no task.
LEMMA ElsewhereStay ==
  ASSUME Types, Elsewhere, NEW s \in Speeches
  PROVE  /\ UNCHANGED <<activeTurn, pc, out, asked>>
         /\ tts'[s].state = tts[s].state \/ (Running(tts[s]) /\ tts'[s].state = "cancelled")
         /\ flush'[s].state = flush[s].state \/ ~ Running(flush'[s])
         /\ cut'[s] = "no" => cut[s] = "no"
         /\ LoseSink => s \notin FeedingSpeeches \/ cut'[s] # "no"
<1>1. CASE Dispatch \/ Control \/ UNCHANGED vars
  <2>1. UNCHANGED <<activeTurn, pc, out, asked, tts, flush, cut>>
    BY <1>1 DEF Dispatch, ReceiveReady, ReceiveAck, ReceiveFinished, Control, elsewhere, vars,
                speechVars, taskVars
  <2>2. ~ LoseSink \/ s \notin FeedingSpeeches \/ cut'[s] # "no"
    BY DEF LoseSink, Types, TypeOK
  <2> QED
    BY <2>1, <2>2
<1>2. CASE LoseSink
  BY <1>2 DEF LoseSink, Types, TypeOK, taskVars
<1>3. CASE RevokeIdentity
  <2>1. /\ UNCHANGED <<activeTurn, pc, out, asked, cut>>
        /\ tts' = CancelRunning(tts) /\ flush' = CancelRunning(flush)
    BY <1>3 DEF RevokeIdentity, speechVars
  <2>2. /\ tts'[s].state = IF Running(tts[s]) THEN "cancelled" ELSE tts[s].state
        /\ ~ Running(flush'[s])
    BY <2>1, Facts, CancelRunningShape
  <2>3. ~ LoseSink \/ s \notin FeedingSpeeches \/ cut'[s] # "no"
    BY DEF LoseSink, Types, TypeOK
  <2> QED
    BY <2>1, <2>2, <2>3
<1>4. CASE ChangeTrust
  <2>1. /\ UNCHANGED <<activeTurn, pc, out, asked, cut>>
        /\ tts' = Outdated(tts) /\ flush' = Outdated(flush)
    BY <1>4 DEF ChangeTrust, speechVars
  <2>2. tts'[s].state = tts[s].state /\ flush'[s].state = flush[s].state
    BY <2>1, Facts, OutdatedShape
  <2>3. ~ LoseSink \/ s \notin FeedingSpeeches \/ cut'[s] # "no"
    BY DEF LoseSink, Types, TypeOK
  <2> QED
    BY <2>1, <2>2, <2>3
<1> QED
  BY <1>1, <1>2, <1>3, <1>4 DEF Elsewhere

\* A step is one of these.
LEMMA NextSplit ==
  ASSUME [Next]_vars
  PROVE  Elsewhere \/ (\E s \in Speeches : Speech(s)) \/ \E speaks \in BOOLEAN : AdmitTurn(speaks)
BY DEF Next, Elsewhere

\* How a speech can have come to where a step leaves it: by itself, uncut, and
\* for a task that was running already.
LEMMA StageSteps ==
  ASSUME Types, Courses, [Next]_vars, NEW s \in Speeches
  PROVE  /\ pc'[s] \in Suspended =>
              pc[s] \in Suspended \cup {"ready"} /\ (pc'[s] = pc[s] \/ Moves(s))
         /\ pc'[s] \in Suspended /\ cut'[s] = "no" => cut[s] = "no" /\ ~ LoseSink
         /\ out'[s] = out[s] \/ PrepareFreshOutput(s) \/ PrepareReplacement(s)
         /\ asked'[s] = asked[s] \/ PrepareReplacement(s)
         /\ pc'[s] \in Suspended /\ Running(tts'[s]) =>
              Running(tts[s]) /\ activeTurn' = activeTurn
         /\ Running(flush'[s]) =>
              activeTurn' = activeTurn /\ (Running(flush[s]) \/ PrepareReplacement(s))
         /\ Heard(s) => tts'[s].state = "succeeded" /\ out'[s] = out[s]
         /\ tts'[s].state = "succeeded" /\ ~ Heard(s) => Begins(s)
<1> DEFINE Goal ==
         /\ pc'[s] \in Suspended =>
              pc[s] \in Suspended \cup {"ready"} /\ (pc'[s] = pc[s] \/ Moves(s))
         /\ pc'[s] \in Suspended /\ cut'[s] = "no" => cut[s] = "no" /\ ~ LoseSink
         /\ out'[s] = out[s] \/ PrepareFreshOutput(s) \/ PrepareReplacement(s)
         /\ asked'[s] = asked[s] \/ PrepareReplacement(s)
         /\ pc'[s] \in Suspended /\ Running(tts'[s]) =>
              Running(tts[s]) /\ activeTurn' = activeTurn
         /\ Running(flush'[s]) =>
              activeTurn' = activeTurn /\ (Running(flush[s]) \/ PrepareReplacement(s))
         /\ Heard(s) => tts'[s].state = "succeeded" /\ out'[s] = out[s]
         /\ tts'[s].state = "succeeded" /\ ~ Heard(s) => Begins(s)
<1>0. /\ cut[s] \in {"no", "cancelled", "abandoned"} /\ "ready" \notin Suspended /\ "done" \notin Suspended
      /\ \A x \in Suspended : x # "ready"
      /\ Suspended \subseteq {"synthesizing", "announcing", "flushing", "admitting"}
      /\ Suspended \subseteq Underway /\ "ready" \notin Underway
  BY DEF Types, TypeOK, Suspended, Underway
<1>1. CASE Elsewhere
  <2>1. /\ UNCHANGED <<activeTurn, pc, out, asked>>
        /\ tts'[s].state = tts[s].state \/ (Running(tts[s]) /\ tts'[s].state = "cancelled")
        /\ flush'[s].state = flush[s].state \/ ~ Running(flush'[s])
        /\ cut'[s] = "no" => cut[s] = "no"
        /\ LoseSink => s \notin FeedingSpeeches \/ cut'[s] # "no"
    BY <1>1, ElsewhereStay
  <2>2. pc[s] \in Suspended => s \in FeedingSpeeches
    BY DEF FeedingSpeeches
  <2> QED
    BY <1>0, <2>1, <2>2 DEF Heard, Running
<1>2. CASE ~ Elsewhere /\ \E u \in Speeches : Speech(u)
  <2>0. ~ LoseSink
    BY <1>2 DEF Elsewhere
  <2>1. CASE Speech(s)
    <3>1. Moves(s) => cut[s] = "no" /\ pc'[s] = pc'[s]
      <4>1. BeginSpeech(s) => pc[s] = "ready"
        BY DEF BeginSpeech
      <4>2. pc[s] = "ready" => cut[s] = "no"
        BY <1>0, NotCutBefore
      <4> QED
        BY <4>1, <4>2 DEF Moves, PrepareFreshOutput, PrepareReplacement, AdmitReplacement,
                          HasFirstAudio, Polls
    <3> QED
      BY <1>0, <2>0, <2>1, <3>1, OwnStep DEF Heard, Running
  <2>2. ASSUME NEW u \in Speeches, Speech(u), u # s PROVE Goal
    BY <1>0, <2>0, <2>2, OthersStay DEF Heard, Running
  <2> QED
    BY <1>2, <2>1, <2>2
<1>3. CASE ~ Elsewhere /\ \E speaks \in BOOLEAN : AdmitTurn(speaks)
  <2>1. PICK speaks \in BOOLEAN : AdmitTurn(speaks)
    BY <1>3
  <2>2. /\ UNCHANGED <<out, asked>> /\ ~ LoseSink
        /\ pc'[s] \in {"ready", "done", "awaited", pc[s]}
        /\ cut'[s] = "no" => cut[s] = "no"
    BY <1>3, <2>1 DEF AdmitTurn, Cut, Elsewhere
  <2>3. /\ ~ Running(flush'[s])
        /\ Running(tts'[s]) => pc'[s] = "ready"
        /\ tts'[s].state = "succeeded" <=> Heard(s)
    BY <2>1, AdmitTasks
  <2>4. "awaited" \notin Suspended
    BY DEF Suspended
  <2> QED
    BY <1>0, <2>2, <2>3, <2>4
<1> QED
  BY <1>1, <1>2, <1>3, NextSplit

\* An exchange that ends without a replacement.
Leaves(s) ==
  /\ pc[s] \in Exchanging /\ pc'[s] \in {"aborting", "done"}
  /\ fence' = Abandon(fence)

\* A replacement that is opened and dropped again in one step.
Refuses(s) ==
  /\ HasFirstAudio(s) /\ Turn(s) = activeTurn /\ HasLease(fence)
  /\ fence' = Abandon(Interrupt(fence, Turn(s)))

\* Sound's answer to the flush that waits for one.
AnswersTheFlush ==
  /\ ReceiveAck
  /\ Answers(Head(fromSound))
  /\ fence' = Acknowledge(fence, Head(fromSound).request)

\* The audio of the active lease is over.
FinishesTheLease ==
  /\ ReceiveFinished
  /\ Head(fromSound).kind = "finished"
  /\ Finishable(fence, Head(fromSound).epoch)
  /\ fence' = Release(fence)

\* The ways of a speech out of its exchange.
LEMMA LeavesShape ==
  ASSUME Types, NEW s \in Speeches,
         \/ ExchangeIsStale(s) \/ ExchangeExpires(s) \/ ExchangeTimesOut(s)
         \/ \E late \in BOOLEAN : RefuseReplacement(s, late)
         \/ DeliverCancellation(s) /\ pc[s] \in Exchanging
  PROVE  Leaves(s)
<1> DEFINE To(to) == pc' = [pc EXCEPT ![s] = to]
<1>1. fence' = Abandon(fence) /\ pc[s] \in Exchanging /\ \E to \in {"aborting", "done"} : To(to)
  <2>1. CASE ExchangeIsStale(s) \/ ExchangeExpires(s) \/ ExchangeTimesOut(s)
    BY <2>1 DEF ExchangeIsStale, ExchangeExpires, ExchangeTimesOut, EndExchange, Polls, Leave,
                Exchanging
  <2>2. CASE \E late \in BOOLEAN : RefuseReplacement(s, late)
    BY <2>2 DEF RefuseReplacement, Resumes, Leave, Exchanging
  <2>3. CASE DeliverCancellation(s) /\ pc[s] \in Exchanging
    BY <2>3 DEF DeliverCancellation, EndExchange
  <2> QED
    BY <2>1, <2>2, <2>3
<1>2. pc'[s] \in {"aborting", "done"}
  BY <1>1 DEF Types, TypeOK
<1> QED
  BY <1>1, <1>2 DEF Leaves

\* Everything a step can do to the fence.
LEMMA FenceSteps ==
  ASSUME Types, [Next]_vars
  PROVE  \/ fence' = fence
         \/ fence' = Retain(fence) /\ \E speaks \in BOOLEAN : AdmitTurn(speaks)
         \/ \E s \in Speeches : PrepareFreshOutput(s)
         \/ \E s \in Speeches : PrepareReplacement(s)
         \/ \E s \in Speeches : Refuses(s)
         \/ \E s \in Speeches : CommitReplacement(s)
         \/ \E s \in Speeches : Leaves(s)
         \/ AnswersTheFlush
         \/ FinishesTheLease
         \/ LoseSink /\ fence' = Revoke(fence)
<1>1. CASE Elsewhere
  <2>1. CASE Control \/ RevokeIdentity \/ ChangeTrust \/ UNCHANGED vars
    BY <2>1 DEF Control, elsewhere, RevokeIdentity, ChangeTrust, vars
  <2>2. CASE LoseSink
    BY <2>2 DEF LoseSink
  <2>3. CASE ReceiveReady
    BY <2>3 DEF ReceiveReady
  <2>4. CASE ReceiveAck
    BY <2>4 DEF ReceiveAck, TellFence, AnswersTheFlush
  <2>5. CASE ReceiveFinished
    <3>1. Head(fromSound).kind = "finished"
      BY <2>5 DEF ReceiveFinished, Receives
    <3> QED
      BY <2>5, <3>1 DEF ReceiveFinished, FinishesTheLease
  <2> QED
    BY <1>1, <2>1, <2>2, <2>3, <2>4, <2>5 DEF Elsewhere, Dispatch
<1>2. ASSUME NEW s \in Speeches, Speech(s)
      PROVE  \/ fence' = fence \/ PrepareFreshOutput(s) \/ PrepareReplacement(s) \/ Refuses(s)
             \/ CommitReplacement(s) \/ Leaves(s)
  <2>1. CASE RefuseOutput(s)
    BY <2>1 DEF RefuseOutput, Refuses
  <2>2. CASE \/ ExchangeIsStale(s) \/ ExchangeExpires(s) \/ ExchangeTimesOut(s)
             \/ \E late \in BOOLEAN : RefuseReplacement(s, late)
             \/ DeliverCancellation(s) /\ pc[s] \in Exchanging
    BY <2>2, LeavesShape
  <2>3. CASE DeliverCancellation(s) /\ pc[s] \notin Exchanging
    BY <2>3 DEF DeliverCancellation
  <2>4. CASE \E how \in {"speech", "silence", "failure"} : AnswerOperation(s, how)
    BY <2>4 DEF AnswerOperation
  <2>5. CASE \/ BeginSpeech(s) \/ AdmitReplacement(s) \/ StartFresh(s) \/ FinishSpeech(s)
             \/ AbandonSpeech(s) \/ ProviderFails(s) \/ SpeechTimesOut(s)
    BY <2>5 DEF BeginSpeech, AdmitReplacement, StartFresh, FinishSpeech, AbandonSpeech,
                ProviderFails, SpeechTimesOut
  <2> QED
    BY <1>2, <2>1, <2>2, <2>3, <2>4, <2>5 DEF Speech, Progress, Exchange
<1>3. ASSUME NEW speaks \in BOOLEAN, AdmitTurn(speaks) PROVE fence' = Retain(fence)
  BY <1>3 DEF AdmitTurn
<1> QED
  BY <1>1, <1>2, <1>3, NextSplit

-----------------------------------------------------------------------------
(* What has been heard, the fence, and the messages on their way           *)

HeardEpoch(e) == \E s \in Speeches : Heard(s) /\ out[s] = e

HeardIsPast == \A s \in Speeches : Heard(s) => out[s] \in Nat /\ Past(fence, out[s])

\* Only what has been heard is ended or reported finished.
EndsAreHeard ==
  /\ \A m \in Elements(toSound) : m.kind = "end" => HeardEpoch(m.epoch)
  /\ \A m \in Elements(fromSound) : m.kind = "finished" => HeardEpoch(m.epoch)
  /\ \A e \in draining : HeardEpoch(e)

\* A fresh lease that has been announced is newer than all that has been heard.
AnnouncedIsNew ==
  \A s \in Speeches :
    pc[s] = "announcing" /\ cut[s] = "no" /\ Running(tts[s]) =>
      /\ fence.lease.epoch = out[s]
      /\ fence.pending = NoReplacement /\ fence.acknowledged = NoReplacement
      /\ \A u \in Speeches : Heard(u) => out[u] < out[s]

HeardInOrder == FenceInOrder(fence) /\ HeardIsPast /\ HeardEpochsDiffer /\ EndsAreHeard /\ AnnouncedIsNew

\* An answer that gives the stream back is about the lease that has been heard,
\* and no exchange is under way.
LEMMA FinishedIsHeard ==
  ASSUME Types, HeardInOrder, FinishesTheLease
  PROVE  /\ fence.pending = NoReplacement /\ fence.acknowledged = NoReplacement
         /\ HeardEpoch(fence.lease.epoch)
<1> DEFINE e == Head(fromSound).epoch
<1>1. /\ HasLease(fence) /\ fence.pending = NoReplacement /\ e = fence.lease.epoch
      /\ Head(fromSound).kind = "finished" /\ Head(fromSound) \in Elements(fromSound)
  BY ReceiveShape DEF FinishesTheLease, Finishable, ReceiveFinished
<1>2. HeardEpoch(e)
  BY <1>1 DEF HeardInOrder, EndsAreHeard
<1>3. Past(fence, e)
  BY <1>2 DEF HeardEpoch, HeardInOrder, HeardIsPast
<1>4. fence.acknowledged # NoReplacement => fence.lease.epoch = fence.acknowledged.previous.epoch + 1
  BY DEF HeardInOrder, FenceInOrder
<1>5. fence.lease.epoch \in Int /\ fence.acknowledged.previous.epoch \in Int
  BY Facts, FenceShape, ReplacementShape, LeaseShape
<1> QED
  BY <1>1, <1>2, <1>3, <1>4, <1>5 DEF Past, Base

\* No step brings an older generation back.
LEMMA FenceAdvances ==
  ASSUME Types, HeardInOrder, [Next]_vars
  PROVE  Advances(fence, fence')
<1>0. fence \in Fence /\ FenceInOrder(fence) /\ \A s \in Speeches : Turn(s) \in Nat
  BY Facts, SpeechShape DEF HeardInOrder
<1>1. CASE fence' = fence \/ fence' = Retain(fence) \/ fence' = Revoke(fence)
  BY <1>0, <1>1, OtherAdvances
<1>2. ASSUME NEW s \in Speeches, PrepareFreshOutput(s) PROVE Advances(fence, fence')
  BY <1>0, <1>2, ActivateAdvances DEF PrepareFreshOutput
<1>3. ASSUME NEW s \in Speeches, PrepareReplacement(s) PROVE Advances(fence, fence')
  BY <1>0, <1>3, InterruptAdvances DEF PrepareReplacement
<1>4. ASSUME NEW s \in Speeches, Refuses(s) PROVE Advances(fence, fence')
  <2>1. Advances(fence, Interrupt(fence, Turn(s))) /\ Interrupt(fence, Turn(s)) \in Fence
    BY <1>0, <1>4, InterruptAdvances, InterruptShape DEF Refuses
  <2>2. Advances(Interrupt(fence, Turn(s)), Abandon(Interrupt(fence, Turn(s))))
    BY <2>1, AbandonAdvances DEF Advances
  <2> QED
    BY <1>4, <2>1, <2>2 DEF Advances, Refuses
<1>5. ASSUME NEW s \in Speeches, CommitReplacement(s) PROVE Advances(fence, fence')
  BY <1>0, <1>5, CommitAdvances DEF CommitReplacement, Accepted, Committable
<1>6. ASSUME NEW s \in Speeches, Leaves(s) PROVE Advances(fence, fence')
  BY <1>0, <1>6, AbandonAdvances DEF Leaves
<1>7. CASE AnswersTheFlush
  <2>1. Head(fromSound).request \in Nat
    BY <1>7, ReceiveShape DEF AnswersTheFlush, ReceiveAck
  <2> QED
    BY <1>0, <1>7, <2>1, AcknowledgeAdvances DEF AnswersTheFlush
<1>8. CASE FinishesTheLease
  BY <1>0, <1>8, FinishedIsHeard, OtherAdvances DEF FinishesTheLease
<1> QED
  BY <1>1, <1>2, <1>3, <1>4, <1>5, <1>6, <1>7, <1>8, FenceSteps

\* A flush that has been asked for bears a number.
RequestsAreNumbered ==
  /\ \A m \in Elements(toSound) : m.kind = "flush" => m.request # NoRequest
  /\ \A m \in Elements(fromSound) : m.kind \in {"applied", "replayed"} => m.request # NoRequest
  /\ admission # NoFlush => admission.request # NoRequest

\* Where what is new on its way to Sound comes from.
SentNow(m) ==
  \/ m.kind = "command"
  \/ m.kind = "end" /\ \E s \in Speeches : pc[s] = "emitting" /\ m.epoch = out[s]
  \/ m.kind = "flush" /\ m.request = admission.request /\ admission # NoFlush
  \/ m.kind = "flush" /\ m.request # NoRequest

\* ... and back.
AnsweredNow(m) ==
  \/ m = Ready
  \/ \E e \in draining : m = Finished(e)
  \/ \E n \in Elements(toSound), kind \in {"applied", "replayed"} :
       n.kind = "flush" /\ m = Ack(kind, n.request)

\* What a speech sends.
LEMMA SpeechSends ==
  ASSUME Types, NEW s \in Speeches, Speech(s)
  PROVE  /\ UNCHANGED <<sink, fromSound, draining>>
         /\ admission' = admission \/ (PrepareReplacement(s) /\ admission'.request # NoRequest)
         /\ toSound' = toSound \/ \E m \in Messages : Send(<<m>>) /\ SentNow(m)
<1> DEFINE Sends == toSound' = toSound \/ \E m \in Messages : Send(<<m>>) /\ SentNow(m)
<1> USE DEF controlVars, dispatchVars, soundVars
<1>0. fence \in Fence /\ Turn(s) \in Nat /\ toSound \in Seq(Messages)
  BY Facts, SpeechShape DEF Types, TypeOK
<1>1. CASE PrepareFreshOutput(s)
  <2> DEFINE e == Activate(fence, Turn(s)).lease.epoch
  <2>1. Send(<<Command(e)>>) /\ UNCHANGED <<sink, fromSound, draining, admission>>
    BY <1>1 DEF PrepareFreshOutput
  <2>2. e \in Nat
    BY <1>0, ActivateShape, NewLeaseShape
  <2> HIDE DEF e
  <2>3. Command(e) \in Messages /\ SentNow(Command(e))
    BY <2>2, MessageShape DEF SentNow, Command
  <2> QED
    BY <2>1, <2>3
<1>2. CASE PrepareReplacement(s)
  <2> DEFINE r == Interrupt(fence, Turn(s)).requests
  <2>1. /\ Send(<<Flush(r)>>) /\ UNCHANGED <<sink, fromSound, draining>>
        /\ admission'.request = r
    BY <1>2 DEF PrepareReplacement, BeginFlush
  <2>2. r \in Nat \ {0}
    BY <1>0, InterruptShape
  <2> HIDE DEF r
  <2>3. Flush(r) \in Messages /\ SentNow(Flush(r)) /\ r # NoRequest
    BY <2>2, MessageShape DEF SentNow, Flush, NoRequest
  <2> QED
    BY <1>2, <2>1, <2>3
<1>3. CASE AdmitReplacement(s)
  <2>1. Send(<<Command(out[s])>>) /\ UNCHANGED <<sink, fromSound, draining, admission>>
    BY <1>3 DEF AdmitReplacement
  <2>2. Command(out[s]) \in Messages /\ SentNow(Command(out[s]))
    BY <1>3, MessageShape DEF AdmitReplacement, Polls, Types, OutGiven, Leased, SentNow, Command
  <2> QED
    BY <2>1, <2>2
<1>4. CASE FinishSpeech(s) \/ ProviderFails(s)
  <2>1. /\ UNCHANGED <<sink, fromSound, draining, admission>>
        /\ Send(<< >>) \/ (pc[s] = "emitting" /\ Send(EndOf(s)))
    BY <1>4 DEF FinishSpeech, ProviderFails, BreakOff, Playing
  <2>2. CASE Send(<< >>)
    BY <1>0, <2>1, <2>2, SendNothing
  <2>3. CASE pc[s] = "emitting" /\ Send(EndOf(s))
    <3>1. out[s] \in Nat
      BY <2>3 DEF Types, OutGiven, Leased
    <3>2. End(out[s]) \in Messages /\ SentNow(End(out[s]))
      BY <2>3, <3>1, MessageShape DEF SentNow, End
    <3>3. Send(<< >>) \/ Send(<<End(out[s])>>)
      BY <2>3 DEF EndOf
    <3> QED
      BY <1>0, <2>1, <3>2, <3>3, SendNothing
  <2> QED
    BY <2>1, <2>2, <2>3
<1>5. CASE \/ \E how \in {"speech", "silence", "failure"} : AnswerOperation(s, how)
           \/ BeginSpeech(s) \/ RefuseOutput(s) \/ AbandonSpeech(s) \/ DeliverCancellation(s)
           \/ ExchangeIsStale(s) \/ ExchangeExpires(s) \/ ExchangeTimesOut(s)
  BY <1>5 DEF AnswerOperation, BeginSpeech, RefuseOutput, AbandonSpeech, DeliverCancellation,
              ExchangeIsStale, ExchangeExpires, ExchangeTimesOut
<1>6. CASE \/ CommitReplacement(s) \/ StartFresh(s) \/ SpeechTimesOut(s)
           \/ \E late \in BOOLEAN : RefuseReplacement(s, late)
  BY <1>6 DEF CommitReplacement, StartFresh, SpeechTimesOut, RefuseReplacement
<1> QED
  BY <1>1, <1>2, <1>3, <1>4, <1>5, <1>6 DEF Speech, Progress, Exchange

\* What a step puts on its way.
LEMMA MessageSteps ==
  ASSUME Types, [Next]_vars
  PROVE  /\ \A m \in Elements(toSound') : m \in Elements(toSound) \/ SentNow(m)
         /\ \A m \in Elements(fromSound') : m \in Elements(fromSound) \/ AnsweredNow(m)
         /\ \A e \in draining' :
              e \in draining \/ \E n \in Elements(toSound) : n.kind = "end" /\ n.epoch = e
         /\ \/ admission' \in {admission, NoFlush}
            \/ admission # NoFlush /\ admission'.request = admission.request
            \/ \E s \in Speeches : PrepareReplacement(s) /\ admission'.request # NoRequest
<1>1. CASE \E s \in Speeches : Speech(s)
  <2>1. PICK s \in Speeches : Speech(s)
    BY <1>1
  <2>2. /\ UNCHANGED <<sink, fromSound, draining>>
        /\ admission' = admission \/ (PrepareReplacement(s) /\ admission'.request # NoRequest)
        /\ toSound' = toSound \/ \E m \in Messages : Send(<<m>>) /\ SentNow(m)
    BY <2>1, SpeechSends
  <2>3. CASE toSound' = toSound
    BY <2>2, <2>3
  <2>4. ASSUME NEW m \in Messages, Send(<<m>>), SentNow(m)
        PROVE  \A n \in Elements(toSound') : n \in Elements(toSound) \/ SentNow(n)
    <3>1. Elements(toSound') \subseteq Elements(toSound) \cup {m}
      BY <2>4, SendShape DEF Types, TypeOK
    <3> QED
      BY <2>4, <3>1
  <2> QED
    BY <2>2, <2>3, <2>4
<1>2. CASE \E speaks \in BOOLEAN : AdmitTurn(speaks)
  BY <1>2 DEF AdmitTurn, soundVars
<1>3. CASE LoseSink
  <2>1. /\ toSound' = << >> /\ fromSound' = << >> /\ draining' = {} /\ admission' = NoFlush
    BY <1>3 DEF LoseSink, Discard
  <2> QED
    BY <2>1, ElementsOfNone
<1>4. CASE Dispatch
  <2>1. UNCHANGED <<toSound, draining>> /\ admission' \in {admission, NoFlush}
    BY <1>4 DEF Dispatch, ReceiveReady, ReceiveAck, ReceiveFinished, dispatchVars, soundVars
  <2>2. Elements(fromSound') \subseteq Elements(fromSound)
    BY <1>4, ReceiveShape DEF Dispatch, ReceiveReady, ReceiveAck, ReceiveFinished
  <2> QED
    BY <2>1, <2>2
<1>5. CASE RevokeIdentity \/ ChangeTrust \/ UNCHANGED vars
  BY <1>5 DEF RevokeIdentity, ChangeTrust, vars, controlVars, dispatchVars, soundVars
<1>6. CASE Control /\ Sound
  <2>1. /\ admission' = admission /\ Elements(toSound') \subseteq Elements(toSound)
        /\ \/ /\ draining' \subseteq draining
              /\ \E m \in {Ready} \cup {Finished(e) : e \in draining} :
                   Elements(fromSound') \subseteq Elements(fromSound) \cup {m}
           \/ /\ draining' = draining
              /\ \E n \in Elements(toSound), kind \in {"applied", "replayed"} :
                   /\ n.kind = "flush"
                   /\ Elements(fromSound') \subseteq Elements(fromSound) \cup {Ack(kind, n.request)}
           \/ /\ Elements(fromSound') \subseteq Elements(fromSound) \cup {Ready}
              /\ \E n \in Elements(toSound) :
                   n.kind = "end" /\ draining' = draining \cup {n.epoch}
    BY <1>6, SoundShape
  <2>2. \A m \in Elements(fromSound') : m \in Elements(fromSound) \/ AnsweredNow(m)
    BY <2>1 DEF AnsweredNow
  <2>3. \A e \in draining' :
          e \in draining \/ \E n \in Elements(toSound) : n.kind = "end" /\ n.epoch = e
    BY <2>1
  <2> QED
    BY <2>1, <2>2, <2>3
<1>7. CASE Control /\ ~ Sound
  <2>1. SoundRefuses \/ RetryFlush \/ GiveUpFlush \/ RegisterSink
    BY <1>7 DEF Control
  <2>2. draining' = draining /\ fromSound' = fromSound
    BY <2>1, RetryShape
  <2>3. \/ admission' \in {admission, NoFlush}
        \/ admission # NoFlush /\ admission'.request = admission.request
    BY <2>1, RetryShape
  <2>4. \/ Elements(toSound') \subseteq Elements(toSound) \cup {Command(0)}
        \/ /\ admission # NoFlush
           /\ Elements(toSound') \subseteq Elements(toSound) \cup {Flush(admission.request)}
    BY <2>1, RetryShape
  <2>5. SentNow(Command(0)) /\ (admission # NoFlush => SentNow(Flush(admission.request)))
    BY DEF SentNow, Command, Flush
  <2>6. \A m \in Elements(toSound') : m \in Elements(toSound) \/ SentNow(m)
    BY <2>4, <2>5
  <2> QED
    BY <2>2, <2>3, <2>6
<1> QED
  BY <1>1, <1>2, <1>3, <1>4, <1>5, <1>6, <1>7, NextSplit DEF Elsewhere

\* The numbers stay: there is no other way for a request to become known.
LEMMA NextNumbered ==
  ASSUME Types, RequestsAreNumbered, [Next]_vars
  PROVE  RequestsAreNumbered'
<1>1. \A m \in Elements(toSound') : m.kind = "flush" => m.request # NoRequest
  <2>1. \A m : SentNow(m) /\ m.kind = "flush" => m.request # NoRequest
    BY DEF SentNow, RequestsAreNumbered
  <2> QED
    BY <2>1, MessageSteps DEF RequestsAreNumbered
<1>2. \A m \in Elements(fromSound') : m.kind \in {"applied", "replayed"} => m.request # NoRequest
  <2>1. \A m : AnsweredNow(m) /\ m.kind \in {"applied", "replayed"} => m.request # NoRequest
    BY DEF AnsweredNow, RequestsAreNumbered, Ready, Finished, Ack
  <2> QED
    BY <2>1, MessageSteps DEF RequestsAreNumbered
<1>3. admission' # NoFlush => admission'.request # NoRequest
  BY MessageSteps DEF RequestsAreNumbered
<1> QED
  BY <1>1, <1>2, <1>3 DEF RequestsAreNumbered

\* What is heard stays heard, under the epoch it was given; a speech that
\* begins to be heard is the active turn's.
LEMMA HeardSteps ==
  ASSUME Types, Courses, [Next]_vars
  PROVE  /\ \A s \in Speeches : Heard(s) => tts'[s].state = "succeeded" /\ out'[s] = out[s]
         /\ \A s \in Speeches : tts'[s].state = "succeeded" =>
              Heard(s) \/ (Begins(s) /\ out'[s] = out[s])
         /\ \A s, u \in Speeches : Begins(s) /\ Begins(u) => s = u
         /\ \A e : HeardEpoch(e) => HeardEpoch(e)'
<1>1. \A s \in Speeches : Heard(s) => tts'[s].state = "succeeded" /\ out'[s] = out[s]
  BY StageSteps
<1>2. \A s \in Speeches : Begins(s) => out'[s] = out[s]
  BY DEF Begins, StartFresh, CommitReplacement
<1>3. \A s \in Speeches : tts'[s].state = "succeeded" => Heard(s) \/ (Begins(s) /\ out'[s] = out[s])
  BY <1>2, StageSteps
<1>4. ASSUME NEW s \in Speeches, NEW u \in Speeches, Begins(s), Begins(u) PROVE s = u
  <2>1. \A v \in {s, u} : pc[v] \in {"announcing", "admitting"} /\ Turn(v) = activeTurn
    BY <1>4 DEF Begins, StartFresh, CommitReplacement, Resumes, Counts
  <2> QED
    BY <2>1, OneSpeaks DEF Waiting
<1>5. \A e : HeardEpoch(e) => HeardEpoch(e)'
  BY <1>1 DEF HeardEpoch, Heard
<1> QED
  BY <1>1, <1>3, <1>4, <1>5

\* ... and is newer than everything heard before it.
LEMMA BeginsIsNew ==
  ASSUME Types, HeardInOrder, NEW s \in Speeches, Begins(s)
  PROVE  /\ out[s] \in Nat
         /\ Past(fence', out[s])
         /\ \A u \in Speeches : Heard(u) => out[u] < out[s]
<1>0. /\ fence \in Fence /\ FenceInOrder(fence)
      /\ fence.lease.epoch \in Int /\ fence.acknowledged.previous.epoch \in Int /\ fence.last \in Int
  BY Facts, FenceShape, ReplacementShape, LeaseShape DEF HeardInOrder
<1>1. CASE StartFresh(s)
  <2>1. /\ pc[s] = "announcing" /\ cut[s] = "no" /\ Running(tts[s]) /\ fence' = fence
    BY <1>1 DEF Begins, StartFresh, Resumes, Counts
  <2>2. /\ fence.lease.epoch = out[s] /\ fence.acknowledged = NoReplacement
        /\ \A u \in Speeches : Heard(u) => out[u] < out[s]
    BY <2>1 DEF HeardInOrder, AnnouncedIsNew
  <2>3. out[s] \in Nat /\ out[s] <= fence.last
    BY <1>0, <2>1, <2>2 DEF Types, OutGiven, Leased, FenceInOrder
  <2> QED
    BY <1>0, <2>1, <2>2, <2>3 DEF Past, Base
<1>2. CASE CommitReplacement(s)
  <2>1. /\ pc[s] = "admitting" /\ fence' = Commit(fence) /\ fence.acknowledged # NoReplacement
        /\ fence.lease = fence.acknowledged.lease /\ fence.lease.epoch = out[s]
    BY <1>2 DEF CommitReplacement, Resumes, Accepted, Committable
  <2>2. out[s] \in Nat /\ out[s] <= fence.last /\ out[s] = fence.acknowledged.previous.epoch + 1
    BY <1>0, <2>1 DEF Types, OutGiven, Leased, FenceInOrder
  <2>3. /\ fence'.last = fence.last /\ fence'.lease = fence.lease
        /\ fence'.acknowledged = NoReplacement
    BY <1>0, <2>1, CommitShape
  <2>4. Past(fence', out[s])
    BY <1>0, <2>1, <2>2, <2>3 DEF Past, Base
  <2>5. ASSUME NEW u \in Speeches, Heard(u) PROVE out[u] < out[s]
    <3>1. Past(fence, out[u]) /\ out[u] \in Nat
      BY <2>5 DEF HeardInOrder, HeardIsPast
    <3>2. HasLease(fence)
      BY <1>0, <2>1, <2>2, LeaseShape, FenceShape, Facts DEF HasLease
    <3> QED
      BY <1>0, <2>1, <2>2, <3>1, <3>2 DEF Past, Base
  <2> QED
    BY <2>2, <2>4, <2>5
<1> QED
  BY <1>1, <1>2 DEF Begins

\* The fence stays in order, and above what has been heard.
LEMMA NextHeardIsPast ==
  ASSUME Types, Courses, HeardInOrder, [Next]_vars
  PROVE  FenceInOrder(fence') /\ HeardIsPast' /\ HeardEpochsDiffer'
<1>1. Advances(fence, fence')
  BY FenceAdvances
<1>2. \A s \in Speeches : Heard(s) => out[s] \in Nat /\ Past(fence, out[s])
  BY DEF HeardInOrder, HeardIsPast
<1>3. \A s \in Speeches : tts'[s].state = "succeeded" =>
        out'[s] \in Nat /\ Past(fence', out'[s])
  <2> SUFFICES ASSUME NEW s \in Speeches, tts'[s].state = "succeeded"
               PROVE  out'[s] \in Nat /\ Past(fence', out'[s])
    OBVIOUS
  <2>1. CASE Heard(s)
    BY <1>1, <1>2, <2>1, HeardSteps DEF Advances
  <2>2. CASE ~ Heard(s)
    BY <2>2, HeardSteps, BeginsIsNew
  <2> QED
    BY <2>1, <2>2
<1>4. ASSUME NEW s \in Speeches, NEW u \in Speeches, tts'[s].state = "succeeded",
             tts'[u].state = "succeeded", out'[s] = out'[u]
      PROVE  s = u
  <2>1. CASE Heard(s) /\ Heard(u)
    <3>1. out[s] = out[u]
      BY <1>4, <2>1, HeardSteps
    <3> QED
      BY <2>1, <3>1 DEF HeardInOrder, HeardEpochsDiffer, Heard
  <2>2. CASE Heard(s) /\ ~ Heard(u)
    <3>1. out[s] < out[u] /\ out'[s] = out[s] /\ out'[u] = out[u] /\ out[u] \in Nat /\ out[s] \in Nat
      BY <1>2, <1>4, <2>2, HeardSteps, BeginsIsNew
    <3>2. out[s] = out[u]
      BY <1>4, <3>1
    <3> QED
      BY <3>1, <3>2
  <2>3. CASE ~ Heard(s) /\ Heard(u)
    <3>1. out[u] < out[s] /\ out'[s] = out[s] /\ out'[u] = out[u] /\ out[u] \in Nat /\ out[s] \in Nat
      BY <1>2, <1>4, <2>3, HeardSteps, BeginsIsNew
    <3>2. out[s] = out[u]
      BY <1>4, <3>1
    <3> QED
      BY <3>1, <3>2
  <2>4. CASE ~ Heard(s) /\ ~ Heard(u)
    BY <1>4, <2>4, HeardSteps
  <2> QED
    BY <2>1, <2>2, <2>3, <2>4
<1> QED
  BY <1>1, <1>3, <1>4 DEF Advances, HeardIsPast, HeardEpochsDiffer, Heard

\* Ends and reports go on being about what has been heard.
LEMMA NextEndsAreHeard ==
  ASSUME Types, Courses, HeardInOrder, [Next]_vars
  PROVE  EndsAreHeard'
<1>1. \A e : HeardEpoch(e) => HeardEpoch(e)'
  BY HeardSteps
<1>2. ASSUME NEW m \in Elements(toSound'), m.kind = "end" PROVE HeardEpoch(m.epoch)'
  <2>1. m \in Elements(toSound) \/ SentNow(m)
    BY MessageSteps
  <2>2. ASSUME SentNow(m) PROVE HeardEpoch(m.epoch)
    BY <1>2, <2>2 DEF SentNow, HeardEpoch, Courses, HeardHasSpoken
  <2> QED
    BY <1>1, <1>2, <2>1, <2>2 DEF HeardInOrder, EndsAreHeard
<1>3. ASSUME NEW m \in Elements(fromSound'), m.kind = "finished" PROVE HeardEpoch(m.epoch)'
  <2>1. m \in Elements(fromSound) \/ AnsweredNow(m)
    BY MessageSteps
  <2>2. ASSUME AnsweredNow(m) PROVE HeardEpoch(m.epoch)
    <3>1. \E e \in draining : m = Finished(e)
      BY <1>3, <2>2 DEF AnsweredNow, Ready, Ack
    <3> QED
      BY <3>1 DEF Finished, HeardInOrder, EndsAreHeard
  <2> QED
    BY <1>1, <1>3, <2>1, <2>2 DEF HeardInOrder, EndsAreHeard
<1>4. ASSUME NEW e \in draining' PROVE HeardEpoch(e)'
  <2>1. HeardEpoch(e)
    BY MessageSteps DEF HeardInOrder, EndsAreHeard
  <2> QED
    BY <1>1, <2>1
<1> QED
  BY <1>2, <1>3, <1>4 DEF EndsAreHeard, HeardEpoch, Heard

\* A lease that has been announced stays the newest, until its speech is heard or
\* cut off: nobody else of its turn is on the way, and nothing newer is heard.
LEMMA NextAnnouncedIsNew ==
  ASSUME Types, Courses, HeardInOrder, [Next]_vars
  PROVE  AnnouncedIsNew'
<1> SUFFICES ASSUME NEW s \in Speeches, pc'[s] = "announcing", cut'[s] = "no", Running(tts'[s])
             PROVE  /\ fence'.lease.epoch = out'[s]
                    /\ fence'.pending = NoReplacement /\ fence'.acknowledged = NoReplacement
                    /\ \A u \in Speeches : tts'[u].state = "succeeded" => out'[u] < out'[s]
  BY DEF AnnouncedIsNew, Heard
<1>0. /\ {"announcing", "synthesizing", "flushing", "admitting"} \subseteq Suspended
      /\ \A x \in {"announcing", "synthesizing", "flushing", "admitting"} :
           x \notin Waiting \cup {"done"}
      /\ fence \in Fence
  BY Facts DEF Suspended, Waiting
<1>1. /\ pc[s] = "announcing" \/ PrepareFreshOutput(s)
      /\ cut[s] = "no" /\ ~ LoseSink /\ Running(tts[s]) /\ activeTurn' = activeTurn
      /\ Turn(s) = activeTurn
  BY <1>0, StageSteps DEF Moves, Courses, RunningIsActive
<1>2. CASE PrepareFreshOutput(s)
  <2>1. /\ fence' = Activate(fence, Turn(s)) /\ ~ HasLease(fence) /\ pc[s] = "synthesizing"
        /\ out' = [out EXCEPT ![s] = fence'.lease.epoch] /\ tts' = tts
        /\ Turn(s) \in Nat
    BY <1>2, SpeechShape DEF PrepareFreshOutput, HasFirstAudio, taskVars
  <2>2. /\ fence'.lease.epoch = NewLease(fence, Turn(s)).epoch
        /\ fence'.pending = NoReplacement /\ fence'.acknowledged = NoReplacement
    BY <1>0, <2>1, ActivateShape
  <2>3. ASSUME NEW u \in Speeches, Heard(u) PROVE out[u] < fence'.lease.epoch /\ u # s
    <3>1. Past(fence, out[u]) /\ out[u] \in Int
      BY <2>3 DEF HeardInOrder, HeardIsPast
    <3>2. u # s
      BY <2>1, <2>3 DEF Courses, HeardHasSpoken
    <3> QED
      BY <1>0, <2>1, <2>2, <3>1, <3>2, ActivateAdvances DEF HeardInOrder
  <2>4. \A u \in Speeches : out'[u] = IF u = s THEN fence'.lease.epoch ELSE out[u]
    BY <2>1 DEF Types, TypeOK
  <2> QED
    BY <2>1, <2>2, <2>3, <2>4 DEF Heard
<1>3. CASE pc[s] = "announcing"
  <2>1. /\ fence.lease.epoch = out[s]
        /\ fence.pending = NoReplacement /\ fence.acknowledged = NoReplacement
        /\ \A u \in Speeches : Heard(u) => out[u] < out[s]
    BY <1>1, <1>3 DEF HeardInOrder, AnnouncedIsNew
  <2>2. ASSUME NEW u \in Speeches, Turn(u) = activeTurn, pc[u] \notin Waiting \cup {"done"}
        PROVE  u = s
    BY <1>0, <1>1, <1>3, <2>2, OneSpeaks
  <2>3. out'[s] = out[s]
    BY <1>3, StageSteps DEF PrepareFreshOutput, PrepareReplacement, HasFirstAudio
  <2>4. \A u \in Speeches : ~ Begins(u)
    <3> SUFFICES ASSUME NEW u \in Speeches, Begins(u) PROVE FALSE
      OBVIOUS
    <3>1. CASE StartFresh(u)
      <4>1. pc[u] = "announcing" /\ Turn(u) = activeTurn
        BY <3>1 DEF Begins, StartFresh, Resumes, Counts
      <4>2. u = s
        BY <1>0, <2>2, <4>1
      <4>3. pc' = [pc EXCEPT ![s] = "emitting"] \/ pc' = [pc EXCEPT ![s] = "aborting"]
        BY <3>1, <4>2, StartOutputTasks DEF StartFresh
      <4> QED
        BY <4>3 DEF Types, TypeOK
    <3>2. CASE CommitReplacement(u)
      BY <2>1, <3>2 DEF CommitReplacement, Accepted, Committable
    <3> QED
      BY <3>1, <3>2 DEF Begins
  <2>5. \A u \in Speeches : tts'[u].state = "succeeded" => Heard(u) /\ out'[u] = out[u]
    BY <2>4, HeardSteps
  <2>6. /\ fence'.lease.epoch = out[s]
        /\ fence'.pending = NoReplacement /\ fence'.acknowledged = NoReplacement
    <3>1. CASE fence' = fence
      BY <2>1, <3>1
    <3>2. CASE \E speaks \in BOOLEAN : AdmitTurn(speaks)
      <4>1. activeTurn' # activeTurn
        BY <3>2, AdmitTasks
      <4> QED
        BY <1>1, <4>1
    <3>3. ASSUME NEW u \in Speeches,
                 PrepareFreshOutput(u) \/ PrepareReplacement(u) \/ Refuses(u)
          PROVE  FALSE
      <4>1. pc[u] = "synthesizing" /\ Turn(u) = activeTurn
        BY <3>3 DEF PrepareFreshOutput, PrepareReplacement, Refuses, HasFirstAudio
      <4> QED
        BY <1>0, <1>3, <2>2, <4>1
    <3>4. ASSUME NEW u \in Speeches, CommitReplacement(u) PROVE FALSE
      BY <2>1, <3>4 DEF CommitReplacement, Accepted, Committable
    <3>5. ASSUME NEW u \in Speeches, Leaves(u)
          PROVE  /\ fence'.lease = fence.lease
                 /\ fence'.pending = NoReplacement /\ fence'.acknowledged = NoReplacement
      BY <1>0, <2>1, <3>5, AbandonShape DEF Leaves
    <3>6. CASE AnswersTheFlush
      <4>1. fence' = fence
        BY <2>1, <3>6 DEF AnswersTheFlush, Acknowledge
      <4> QED
        BY <2>1, <4>1
    <3>7. ~ FinishesTheLease
      <4>1. FinishesTheLease => HeardEpoch(out[s])
        BY <2>1, FinishedIsHeard
      <4>2. \A u \in Speeches : Heard(u) => out[u] # out[s]
        BY <2>1 DEF HeardInOrder, HeardIsPast, Types, TypeOK, NoEpoch
      <4> QED
        BY <4>1, <4>2 DEF HeardEpoch
    <3> QED
      BY <1>1, <2>1, <3>1, <3>2, <3>3, <3>4, <3>5, <3>6, <3>7, FenceSteps
  <2> QED
    BY <2>1, <2>3, <2>5, <2>6
<1> QED
  BY <1>1, <1>2, <1>3

\* No turn has begun, and nothing is on its way but the first command.
LEMMA InitHeard ==
  ASSUME Init
  PROVE  HeardInOrder /\ RequestsAreNumbered
<1>1. /\ fence = FenceInit /\ tts = [s \in Speeches |-> NoTask]
      /\ toSound = <<Command(0)>> /\ fromSound = << >> /\ draining = {} /\ admission = NoFlush
  BY DEF Init, ControlInit
<1>2. \A s \in Speeches : ~ Heard(s) /\ ~ Running(tts[s])
  BY <1>1 DEF Heard, NoTask, Running
<1>3. FenceInOrder(fence)
  BY <1>1 DEF FenceInit, FenceInOrder, NoLease, NoEpoch
<1>4. Elements(toSound) = {Command(0)} /\ Elements(fromSound) = {}
  BY <1>1, ElementsOfOne, ElementsOfNone
<1> QED
  BY <1>1, <1>2, <1>3, <1>4 DEF HeardInOrder, HeardIsPast, HeardEpochsDiffer, EndsAreHeard,
       AnnouncedIsNew, RequestsAreNumbered, Heard, Command

\* The invariant of the fence: the leases and replacements in it follow each other,
\* whatever has been heard lies at or below what an exchange would fall back to,
\* and whatever Sound is told to end, or reports finished, has been heard.
THEOREM FenceKnowsWhatWasHeard == Spec => [](HeardInOrder /\ RequestsAreNumbered)
<1>1. Types /\ Courses /\ HeardInOrder /\ RequestsAreNumbered /\ [Next]_vars =>
        HeardInOrder' /\ RequestsAreNumbered'
  BY NextHeardIsPast, NextEndsAreHeard, NextAnnouncedIsNew, NextNumbered DEF HeardInOrder
<1>2. Spec => []Types
  BY InitTypes, NextTypes, PTL DEF Spec
<1> QED
  BY <1>1, <1>2, SpeechesInOrder, InitHeard, PTL DEF Spec

\* No two speeches are ever heard under one epoch, whatever goes wrong.
THEOREM EveryHeardEpochDiffers == Spec => []HeardEpochsDiffer
<1>1. HeardInOrder => HeardEpochsDiffer
  BY DEF HeardInOrder
<1> QED
  BY <1>1, FenceKnowsWhatWasHeard, PTL

\* Once a newer speech has been heard, the fence lets no frame of an older one out,
\* whatever goes wrong and however often the stream changed hands.
THEOREM NoAudioIsStale == Spec => []NoStaleAudio
<1>1. Types /\ HeardInOrder => NoStaleAudio
  <2> SUFFICES ASSUME Types, HeardInOrder, NEW old \in Speeches, NEW new \in Speeches,
                      Heard(new), out[old] < out[new], Audible(old)
               PROVE  FALSE
    BY DEF NoStaleAudio, Heard
  <2>1. /\ fence \in Fence /\ FenceInOrder(fence) /\ Past(fence, out[new])
        /\ out[new] \in Int /\ out[old] \in Int
        /\ fence.lease.epoch \in Int /\ fence.acknowledged.previous.epoch \in Int
    BY Facts, FenceShape, ReplacementShape, LeaseShape
       DEF HeardInOrder, HeardIsPast, Audible, Playing, Types, OutGiven, Leased
  <2>2. HasLease(fence) /\ out[old] = fence.lease.epoch
    BY <2>1 DEF Audible, CanEmit, FenceInOrder
  <2> QED
    BY <2>1, <2>2 DEF Past, Base, FenceInOrder
<1>2. Spec => []Types
  BY InitTypes, NextTypes, PTL DEF Spec
<1> QED
  BY <1>1, <1>2, FenceKnowsWhatWasHeard, PTL

-----------------------------------------------------------------------------
(* The fence and the dispatcher                                            *)

\* Without Sound nothing is on its way.
Quiet == ~ sink => toSound = << >> /\ fromSound = << >> /\ draining = {}

\* The fence of an exchange that polls: not answered; answered, in both places;
\* or taken away again, which no answer can undo.
Unanswered(s) ==
  /\ fence.pending # NoReplacement
  /\ fence.pending.lease.epoch = out[s] /\ fence.pending.request = asked[s]

Answered(s) ==
  /\ fence.pending = NoReplacement /\ fence.acknowledged # NoReplacement
  /\ fence.lease.epoch = out[s]
  /\ admission = NoFlush /\ admitted = asked[s] /\ sink

TakenAway(s) ==
  /\ fence.pending = NoReplacement
  /\ HasLease(fence) => fence.lease.epoch < out[s]

ExchangesStand ==
  \A s \in Speeches :
    Polls(s) /\ Running(flush[s]) => Unanswered(s) \/ Answered(s) \/ TakenAway(s)

\* What a step does to the connection and to the flush last admitted.
LEMMA ConnectionSteps ==
  ASSUME Types, [Next]_vars
  PROVE  /\ sink' = sink \/ LoseSink \/ (~ sink /\ sink')
         /\ \/ admitted' = admitted \/ LoseSink
            \/ \E s \in Speeches : PrepareReplacement(s)
            \/ ReceiveAck /\ Answers(Head(fromSound))
<1>1. CASE \E s \in Speeches : Speech(s)
  <2>1. PICK s \in Speeches : Speech(s)
    BY <1>1
  <2>2. sink' = sink
    BY <2>1, SpeechSends
  <2>3. ASSUME \/ PrepareFreshOutput(s) \/ AdmitReplacement(s) \/ FinishSpeech(s) \/ ProviderFails(s)
               \/ \E how \in {"speech", "silence", "failure"} : AnswerOperation(s, how)
        PROVE  admitted' = admitted
    BY <2>3 DEF PrepareFreshOutput, AdmitReplacement, FinishSpeech, ProviderFails,
                AnswerOperation, controlVars, dispatchVars
  <2>4. ASSUME \/ BeginSpeech(s) \/ RefuseOutput(s) \/ AbandonSpeech(s) \/ DeliverCancellation(s)
               \/ ExchangeIsStale(s) \/ ExchangeExpires(s) \/ ExchangeTimesOut(s)
        PROVE  admitted' = admitted
    BY <2>4 DEF BeginSpeech, RefuseOutput, AbandonSpeech, DeliverCancellation,
                ExchangeIsStale, ExchangeExpires, ExchangeTimesOut, controlVars, dispatchVars
  <2>5. ASSUME \/ CommitReplacement(s) \/ StartFresh(s) \/ SpeechTimesOut(s)
               \/ \E late \in BOOLEAN : RefuseReplacement(s, late)
        PROVE  admitted' = admitted
    BY <2>5 DEF CommitReplacement, StartFresh, SpeechTimesOut, RefuseReplacement
  <2>6. admitted' = admitted \/ PrepareReplacement(s)
    BY <2>1, <2>3, <2>4, <2>5 DEF Speech, Progress, Exchange
  <2> QED
    BY <2>2, <2>6
<1>2. CASE \E speaks \in BOOLEAN : AdmitTurn(speaks)
  BY <1>2 DEF AdmitTurn
<1>3. CASE Dispatch
  <2>1. sink' = sink
    BY <1>3 DEF Dispatch, ReceiveReady, ReceiveAck, ReceiveFinished
  <2>2. admitted' = admitted \/ (ReceiveAck /\ Answers(Head(fromSound)))
    BY <1>3 DEF Dispatch, ReceiveReady, ReceiveAck, ReceiveFinished, dispatchVars
  <2> QED
    BY <2>1, <2>2
<1>4. CASE RevokeIdentity \/ ChangeTrust \/ UNCHANGED vars
  BY <1>4 DEF RevokeIdentity, ChangeTrust, vars, controlVars, dispatchVars
<1>5. CASE Control
  <2>1. CASE Sound
    BY <2>1, SoundShape
  <2>2. CASE ~ Sound
    <3>1. SoundRefuses \/ RetryFlush \/ GiveUpFlush \/ RegisterSink
      BY <1>5, <2>2 DEF Control
    <3> QED
      BY <3>1, RetryShape
  <2> QED
    BY <2>1, <2>2
<1> QED
  BY <1>1, <1>2, <1>3, <1>4, <1>5, NextSplit DEF Elsewhere

\* A lost connection takes with it what was on its way.
LEMMA NextQuiet ==
  ASSUME Types, Quiet, [Next]_vars
  PROVE  Quiet'
<1> SUFFICES ASSUME ~ sink' PROVE toSound' = << >> /\ fromSound' = << >> /\ draining' = {}
  BY DEF Quiet
<1>1. CASE LoseSink
  BY <1>1 DEF LoseSink, Discard
<1>2. CASE ~ LoseSink
  <2>1. ~ sink
    BY <1>2, ConnectionSteps
  <2>2. toSound = << >> /\ fromSound = << >> /\ draining = {}
    BY <2>1 DEF Quiet
  <2>3. CASE \E s \in Speeches : Speech(s)
    <3>1. PICK s \in Speeches : Speech(s)
      BY <2>3
    <3>2. /\ UNCHANGED <<fromSound, draining>>
          /\ toSound' = toSound \/ \E m \in Messages : Send(<<m>>)
      BY <3>1, SpeechSends
    <3> QED
      BY <2>1, <2>2, <3>2 DEF Send
  <2>4. CASE \E speaks \in BOOLEAN : AdmitTurn(speaks)
    BY <2>2, <2>4 DEF AdmitTurn, soundVars
  <2>5. CASE Dispatch
    BY <2>2, <2>5 DEF Dispatch, ReceiveReady, ReceiveAck, ReceiveFinished, Receives
  <2>6. CASE RevokeIdentity \/ ChangeTrust \/ UNCHANGED vars
    BY <2>2, <2>6 DEF RevokeIdentity, ChangeTrust, vars, controlVars, dispatchVars, soundVars
  <2>7. CASE Control
    <3>1. ~ Sound
      BY <2>2 DEF Sound, SoundIsReady, SoundFlushes, SoundDrains, SoundTakes, SoundFinishes
    <3>2. ~ SoundRefuses /\ ~ RegisterSink
      BY <2>2 DEF SoundRefuses, SoundTakes, RegisterSink
    <3>3. RetryFlush \/ GiveUpFlush
      BY <2>7, <3>1, <3>2 DEF Control
    <3> QED
      BY <2>1, <2>2, <3>3 DEF RetryFlush, GiveUpFlush, Send, soundVars
  <2> QED
    BY <1>2, <2>3, <2>4, <2>5, <2>6, <2>7, NextSplit DEF Elsewhere
<1> QED
  BY <1>1, <1>2

\* The exchange of the active turn is the only one that an answer, a commit or a
\* new lease can be about; the end of another takes its replacement away for good.
LEMMA NextExchangesStand ==
  ASSUME Types, Courses, HeardInOrder, RequestsAreNumbered, Quiet, ExchangesStand, [Next]_vars
  PROVE  ExchangesStand'
<1> SUFFICES ASSUME NEW s \in Speeches, pc'[s] = "flushing", cut'[s] = "no", Running(flush'[s])
             PROVE  Unanswered(s)' \/ Answered(s)' \/ TakenAway(s)'
  BY DEF ExchangesStand, Polls
<1>0. /\ {"announcing", "synthesizing", "flushing", "admitting"} \subseteq Suspended
      /\ \A x \in {"announcing", "synthesizing", "flushing", "admitting"} :
           x \notin Waiting \cup {"done"}
      /\ fence \in Fence /\ FenceInOrder(fence)
      /\ fence.lease.epoch \in Int /\ fence.acknowledged.previous.epoch \in Int
      /\ out[s] \in Int
  BY Facts, FenceShape, ReplacementShape, LeaseShape
     DEF Suspended, Waiting, HeardInOrder, Types, TypeOK, NoEpoch
<1>1. /\ pc[s] = "flushing" \/ PrepareReplacement(s)
      /\ cut[s] = "no" /\ ~ LoseSink /\ activeTurn' = activeTurn
      /\ Running(flush[s]) \/ PrepareReplacement(s)
  BY <1>0, StageSteps DEF Moves
<1>2. CASE PrepareReplacement(s)
  <2> DEFINE f == Interrupt(fence, Turn(s))
  <2>1. /\ fence' = f /\ out' = [out EXCEPT ![s] = f.pending.lease.epoch]
        /\ asked' = [asked EXCEPT ![s] = f.requests] /\ Turn(s) \in Nat
    BY <1>2, SpeechShape DEF PrepareReplacement
  <2>2. f.pending # NoReplacement /\ f.pending.request = f.requests
    BY <1>0, <2>1, InterruptShape
  <2> HIDE DEF f
  <2>3. out'[s] = f.pending.lease.epoch /\ asked'[s] = f.requests
    BY <2>1 DEF Types, TypeOK
  <2> QED
    BY <2>1, <2>2, <2>3 DEF Unanswered
<1>3. CASE pc[s] = "flushing"
  <2>0. ~ PrepareReplacement(s) /\ ~ PrepareFreshOutput(s)
    BY <1>3 DEF PrepareReplacement, PrepareFreshOutput, HasFirstAudio
  <2>1. /\ out'[s] = out[s] /\ asked'[s] = asked[s] /\ Running(flush[s]) /\ Turn(s) = activeTurn
    BY <1>1, <2>0, StageSteps DEF Courses, RunningIsActive
  <2>2. Unanswered(s) \/ Answered(s) \/ TakenAway(s)
    BY <1>1, <1>3, <2>1 DEF ExchangesStand, Polls
  <2>3. ASSUME NEW u \in Speeches, Turn(u) = activeTurn, pc[u] \notin Waiting \cup {"done"}
        PROVE  u = s
    BY <1>0, <1>3, <2>1, <2>3, OneSpeaks
  <2>4. \A u \in Speeches : ~ PrepareFreshOutput(u) /\ ~ PrepareReplacement(u) /\ ~ Refuses(u)
    <3> SUFFICES ASSUME NEW u \in Speeches,
                        PrepareFreshOutput(u) \/ PrepareReplacement(u) \/ Refuses(u)
                 PROVE  FALSE
      OBVIOUS
    <3>1. pc[u] = "synthesizing" /\ Turn(u) = activeTurn
      BY DEF PrepareFreshOutput, PrepareReplacement, Refuses, HasFirstAudio
    <3> QED
      BY <1>0, <1>3, <2>3, <3>1
  <2>5. \A u \in Speeches : ~ CommitReplacement(u)
    <3> SUFFICES ASSUME NEW u \in Speeches, CommitReplacement(u) PROVE FALSE
      OBVIOUS
    <3>1. pc[u] = "admitting" /\ Turn(u) = activeTurn
      BY DEF CommitReplacement, Resumes, Accepted, Counts
    <3> QED
      BY <1>0, <1>3, <2>3, <3>1
  <2>6. admission = NoFlush => admission' = NoFlush
    BY <2>4, MessageSteps
  <2>7. sink => sink'
    BY <1>1, ConnectionSteps
  <2>8. ASSUME ReceiveAck, Answers(Head(fromSound))
        PROVE  admission # NoFlush /\ admission' = NoFlush /\ sink
               /\ admitted' = Head(fromSound).request /\ Head(fromSound).request \in Nat
    <3>1. /\ Head(fromSound) \in Elements(fromSound) /\ Head(fromSound).request \in Nat
          /\ fromSound # << >>
      BY <2>8, ReceiveShape DEF ReceiveAck, Receives
    <3>2. Head(fromSound).request # NoRequest /\ Head(fromSound).request = admission.request
      BY <2>8, <3>1 DEF Answers, RequestsAreNumbered
    <3>3. admission' = NoFlush /\ admitted' = Head(fromSound).request
      BY <2>8 DEF ReceiveAck
    <3> QED
      BY <3>1, <3>2, <3>3 DEF Quiet, NoFlush
  <2>9. admission = NoFlush => admitted' = admitted
    BY <1>1, <2>4, <2>8, ConnectionSteps
  <2>10. CASE fence' = fence
    <3>1. TakenAway(s) => TakenAway(s)'
      BY <2>1, <2>10 DEF TakenAway
    <3>2. Unanswered(s) => Unanswered(s)'
      BY <2>1, <2>10 DEF Unanswered
    <3>3. Answered(s) => Answered(s)'
      BY <2>1, <2>6, <2>7, <2>9, <2>10 DEF Answered
    <3> QED
      BY <2>2, <3>1, <3>2, <3>3
  <2>11. ASSUME NEW u \in Speeches, Leaves(u) PROVE TakenAway(s)'
    <3>1. fence' = Abandon(fence)
      BY <2>11 DEF Leaves
    <3>2. fence'.pending = NoReplacement
      BY <1>0, <3>1, AbandonShape
    <3>3. CASE fence.pending # NoReplacement
      <4>1. Unanswered(s) /\ fence'.lease = fence.lease
        BY <1>0, <2>2, <3>1, <3>3, AbandonShape DEF Answered, TakenAway
      <4> QED
        BY <1>0, <2>1, <3>2, <3>3, <4>1 DEF TakenAway, Unanswered, FenceInOrder
    <3>4. CASE fence.pending = NoReplacement /\ fence.acknowledged # NoReplacement
      <4>1. /\ fence'.lease = fence.acknowledged.previous
            /\ fence.lease.epoch = fence.acknowledged.previous.epoch + 1
            /\ fence.acknowledged.previous # NoLease
        BY <1>0, <3>1, <3>4, AbandonShape DEF FenceInOrder
      <4>2. HasLease(fence)
        BY <1>0, <4>1, FenceShape, ReplacementShape, LeaseShape DEF HasLease, NoEpoch
      <4>3. fence.lease.epoch <= out[s]
        BY <1>0, <2>2, <3>4, <4>2 DEF Answered, TakenAway, Unanswered
      <4> QED
        BY <1>0, <2>1, <3>2, <4>1, <4>3 DEF TakenAway
    <3>5. CASE fence.pending = NoReplacement /\ fence.acknowledged = NoReplacement
      <4>1. fence'.lease = fence.lease /\ TakenAway(s)
        BY <1>0, <2>2, <3>1, <3>5, AbandonShape DEF Answered, Unanswered
      <4> QED
        BY <2>1, <3>2, <4>1 DEF TakenAway, HasLease
    <3> QED
      BY <3>3, <3>4, <3>5
  <2>12. CASE AnswersTheFlush /\ fence' # fence
    <3> DEFINE r == Head(fromSound).request
    <3>1. fence' = Acknowledge(fence, r) /\ r \in Nat /\ admission' = NoFlush /\ admitted' = r /\ sink
      BY <2>8, <2>12 DEF AnswersTheFlush
    <3> HIDE DEF r
    <3>2. /\ fence.pending # NoReplacement /\ fence.pending.request = r
          /\ fence'.lease = fence.pending.lease /\ fence'.acknowledged = fence.pending
          /\ fence'.pending = NoReplacement
      BY <1>0, <2>12, <3>1, AcknowledgeShape
    <3>3. Unanswered(s)
      BY <2>2, <3>2 DEF Answered, TakenAway
    <3> QED
      BY <2>1, <2>7, <3>1, <3>2, <3>3 DEF Unanswered, Answered
  <2>13. CASE FinishesTheLease
    <3>1. fence' = Release(fence) /\ fence.pending = NoReplacement
      BY <2>13, FinishedIsHeard DEF FinishesTheLease
    <3> QED
      BY <1>0, <3>1, ReleaseShape DEF TakenAway, HasLease
  <2>14. ~ \E speaks \in BOOLEAN : AdmitTurn(speaks)
    <3>1. \A speaks \in BOOLEAN : AdmitTurn(speaks) => activeTurn' # activeTurn
      BY AdmitTasks
    <3> QED
      BY <1>1, <3>1
  <2> QED
    BY <1>1, <2>4, <2>5, <2>10, <2>11, <2>12, <2>13, <2>14, FenceSteps
<1> QED
  BY <1>1, <1>2, <1>3

\* Nobody polls.
LEMMA InitExchangesStand ==
  ASSUME Init
  PROVE  Quiet /\ ExchangesStand
BY DEF Init, ControlInit, Quiet, ExchangesStand, Polls

\* The checks of admit_replacement that Sound is there and has admitted this very
\* flush never fail: the fence and the dispatcher, which hear of an acknowledgement
\* in two places, never disagree about an exchange that is still wanted.
THEOREM AcknowledgementsAgree == Spec => []AcknowledgedIsAdmitted
<1>1. /\ Types /\ Courses /\ HeardInOrder /\ RequestsAreNumbered /\ Quiet /\ ExchangesStand
      /\ [Next]_vars
      => Quiet' /\ ExchangesStand'
  BY NextQuiet, NextExchangesStand
<1>2. Types /\ HeardInOrder /\ ExchangesStand => AcknowledgedIsAdmitted
  <2> SUFFICES ASSUME Types, HeardInOrder, ExchangesStand, NEW s \in Speeches,
                      Polls(s), Counts(flush[s], s), Acknowledged(s)
               PROVE  sink /\ admitted = asked[s]
    BY DEF AcknowledgedIsAdmitted
  <2>1. Unanswered(s) \/ Answered(s) \/ TakenAway(s)
    BY DEF ExchangesStand, Counts
  <2>2. fence.lease.epoch \in Int /\ FenceInOrder(fence)
    BY Facts, FenceShape, LeaseShape DEF HeardInOrder
  <2>3. HasLease(fence) /\ out[s] = fence.lease.epoch
    BY <2>2 DEF Acknowledged, CanEmit, FenceInOrder
  <2>4. ~ Unanswered(s)
    BY <2>2, <2>3 DEF Unanswered, FenceInOrder
  <2>5. ~ TakenAway(s)
    BY <2>2, <2>3 DEF TakenAway
  <2> QED
    BY <2>1, <2>4, <2>5 DEF Answered
<1>3. Spec => []Types
  BY InitTypes, NextTypes, PTL DEF Spec
<1> QED
  BY <1>1, <1>2, <1>3, SpeechesInOrder, FenceKnowsWhatWasHeard, InitExchangesStand, PTL DEF Spec

-----------------------------------------------------------------------------
(* Who answers for a replacement, as long as no identity is revoked        *)

\* A coroutine that nobody has asked to stop works for a task that runs.
UncutRuns == \A s \in Speeches : pc[s] \in Suspended /\ cut[s] = "no" => Running(tts[s])

\* A task that is closed while its coroutine is on the way has the coroutine cut.
LEMMA NextUncutRuns ==
  ASSUME "revoke" \notin Troubles, Types, Courses, UncutRuns, [Next]_vars
  PROVE  UncutRuns'
<1> SUFFICES ASSUME NEW s \in Speeches, pc'[s] \in Suspended, cut'[s] = "no"
             PROVE  Running(tts'[s])
  BY DEF UncutRuns
<1>0. \A x \in {"none", "awaited", "ready", "emitting", "aborting", "done"} : x \notin Suspended
  BY DEF Suspended
<1>1. /\ cut[s] = "no" /\ ~ LoseSink
      /\ pc[s] \in Suspended \/ BeginSpeech(s)
  BY <1>0, StageSteps DEF Moves, PrepareFreshOutput, PrepareReplacement, AdmitReplacement,
                          HasFirstAudio, Polls, Suspended
<1>2. Running(tts[s])
  <2>1. CASE BeginSpeech(s)
    <3>1. pc'[s] = (IF Running(tts[s]) THEN "synthesizing" ELSE "done")
      BY <2>1 DEF BeginSpeech, Types, TypeOK
    <3> QED
      BY <1>0, <3>1
  <2> QED
    BY <1>1, <2>1 DEF UncutRuns
<1>3. CASE Elsewhere
  <2>1. CASE ChangeTrust
    BY <1>2, <2>1, Facts, OutdatedShape DEF ChangeTrust, Running
  <2>2. CASE Dispatch \/ Control \/ UNCHANGED vars
    BY <1>2, <2>2 DEF Dispatch, ReceiveReady, ReceiveAck, ReceiveFinished, Control, elsewhere, vars,
                      taskVars
  <2> QED
    BY <1>1, <1>3, <2>1, <2>2 DEF Elsewhere, RevokeIdentity
<1>4. CASE \E speaks \in BOOLEAN : AdmitTurn(speaks)
  <2>1. PICK speaks \in BOOLEAN : AdmitTurn(speaks)
    BY <1>4
  <2>2. /\ pc'[s] \in {"ready", "done", "awaited", pc[s]}
        /\ cut'[s] = IF s \in SupersededSpeeches /\ cut[s] = "no" THEN "cancelled" ELSE cut[s]
    BY <2>1 DEF AdmitTurn, Cut
  <2>3. pc[s] \in Suspended
    BY <1>0, <2>2
  <2>4. s \in SupersededSpeeches
    BY <1>2, <2>3 DEF SupersededSpeeches
  <2> QED
    BY <1>1, <2>2, <2>4
<1>5. ASSUME NEW u \in Speeches, Speech(u) PROVE Running(tts'[s])
  <2>1. CASE u # s
    BY <1>2, <1>5, <2>1, OthersStay
  <2>2. CASE u = s
    <3>1. CASE tts' = tts
      BY <1>2, <3>1
    <3>2. CASE StartFresh(s) \/ CommitReplacement(s)
      <4>1. \/ pc' = [pc EXCEPT ![s] = "emitting"]
            \/ pc' = [pc EXCEPT ![s] = "aborting"]
        BY <3>2, StartOutputTasks DEF StartFresh, CommitReplacement
      <4>2. pc'[s] \in {"emitting", "aborting"}
        BY <4>1 DEF Types, TypeOK
      <4> QED
        BY <1>0, <1>2, <4>1, <4>2
    <3>3. CASE AbandonSpeech(s)
      BY <1>0, <1>1, <3>3 DEF AbandonSpeech, Types, TypeOK
    <3>4. CASE SpeechTimesOut(s)
      BY <3>4 DEF SpeechTimesOut, Cut
    <3>5. CASE \E how \in {"speech", "silence", "failure"} : AnswerOperation(s, how)
      BY <1>0, <3>5, AnswerTasks
    <3>6. CASE \/ BeginSpeech(s) \/ PrepareFreshOutput(s) \/ PrepareReplacement(s)
               \/ RefuseOutput(s) \/ FinishSpeech(s) \/ ProviderFails(s) \/ DeliverCancellation(s)
      BY <1>2, <3>6 DEF BeginSpeech, PrepareFreshOutput, PrepareReplacement, RefuseOutput,
                 FinishSpeech, ProviderFails, DeliverCancellation, taskVars
    <3>7. CASE \/ ExchangeIsStale(s) \/ ExchangeExpires(s) \/ ExchangeTimesOut(s)
               \/ AdmitReplacement(s) \/ \E late \in BOOLEAN : RefuseReplacement(s, late)
      BY <1>2, <3>7 DEF ExchangeIsStale, ExchangeExpires, ExchangeTimesOut, AdmitReplacement,
                 RefuseReplacement, taskVars
    <3> QED
      BY <1>5, <2>2, <3>2, <3>3, <3>4, <3>5, <3>6, <3>7 DEF Speech, Progress, Exchange
  <2> QED
    BY <2>1, <2>2
<1> QED
  BY <1>3, <1>4, <1>5, NextSplit

\* Unless an identity is revoked, which closes tasks behind the backs of their
\* coroutines, a cancelled task is also a cancelled coroutine.
THEOREM ClosedTasksCutTheirSpeech ==
  ASSUME "revoke" \notin Troubles
  PROVE  Spec => []CancelledSpeechIsCut
<1>1. Types /\ Courses /\ UncutRuns /\ [Next]_vars => UncutRuns'
  BY NextUncutRuns
<1>2. Init => UncutRuns
  BY DEF Init, UncutRuns, Suspended
<1>3. Types /\ UncutRuns => CancelledSpeechIsCut
  BY DEF UncutRuns, CancelledSpeechIsCut, Running
<1>4. Spec => []Types
  BY InitTypes, NextTypes, PTL DEF Spec
<1> QED
  BY <1>1, <1>2, <1>3, <1>4, SpeechesInOrder, PTL DEF Spec

\* A coroutine leaves its exchange together with the replacement.
LEMMA ExchangeEnds ==
  ASSUME Types, Courses, [Next]_vars, NEW s \in Speeches, pc[s] \in Exchanging
  PROVE  (pc'[s] \in Exchanging /\ out'[s] = out[s]) \/ Leaves(s) \/ CommitReplacement(s)
<1>0. \A x \in {"none", "awaited", "ready", "synthesizing", "announcing", "emitting", "aborting", "done"} :
        x \notin Exchanging
  BY DEF Exchanging
<1>1. CASE Elsewhere
  BY <1>1, ElsewhereStay
<1>2. CASE \E speaks \in BOOLEAN : AdmitTurn(speaks)
  <2>1. PICK speaks \in BOOLEAN : AdmitTurn(speaks)
    BY <1>2
  <2>2. /\ out' = out /\ activeTurn' = activeTurn + 1
        /\ pc'[s] = CASE s = <<activeTurn + 1, "initial">> -> IF speaks THEN "ready" ELSE "done"
                      [] s = <<activeTurn + 1, "final">> ->
                           IF activeTurn + 1 \in Operating THEN "awaited" ELSE "done"
                      [] OTHER -> IF pc[s] = "awaited" THEN "done" ELSE pc[s]
    BY <2>1 DEF AdmitTurn
  <2>3. Turn(s) # activeTurn + 1
    BY <1>0, Facts DEF Courses, TurnsToCome
  <2> QED
    BY <1>0, <2>2, <2>3 DEF Turn
<1>3. ASSUME NEW u \in Speeches, Speech(u), u # s PROVE pc'[s] \in Exchanging /\ out'[s] = out[s]
  BY <1>3, OthersStay
<1>4. CASE Speech(s)
  <2>1. CASE \/ ExchangeIsStale(s) \/ ExchangeExpires(s) \/ ExchangeTimesOut(s)
             \/ (\E late \in BOOLEAN : RefuseReplacement(s, late)) \/ DeliverCancellation(s)
    BY <2>1, LeavesShape
  <2>2. CASE AdmitReplacement(s)
    BY <2>2 DEF AdmitReplacement, Types, TypeOK, Exchanging
  <2>3. CASE SpeechTimesOut(s)
    BY <2>3 DEF SpeechTimesOut
  <2>4. CASE \E how \in {"speech", "silence", "failure"} : AnswerOperation(s, how)
    BY <1>0, <2>4 DEF AnswerOperation
  <2>5. CASE \/ BeginSpeech(s) \/ PrepareFreshOutput(s) \/ PrepareReplacement(s)
             \/ RefuseOutput(s) \/ StartFresh(s) \/ FinishSpeech(s) \/ AbandonSpeech(s)
             \/ ProviderFails(s)
    BY <1>0, <2>5 DEF BeginSpeech, PrepareFreshOutput, PrepareReplacement, RefuseOutput,
                      HasFirstAudio, StartFresh, Resumes, FinishSpeech, AbandonSpeech, ProviderFails
  <2> QED
    BY <1>4, <2>1, <2>2, <2>3, <2>4, <2>5 DEF Speech, Progress, Exchange
<1> QED
  BY <1>1, <1>2, <1>3, <1>4, NextSplit

\* There is one exchange at most, and one replacement.
OneExchange ==
  /\ \A s, u \in Speeches : pc[s] \in Exchanging /\ pc[u] \in Exchanging => s = u
  /\ fence.pending = NoReplacement \/ fence.acknowledged = NoReplacement
  /\ ReplacementHasItsExchange

\* An output is prepared only while nobody exchanges: a coroutine that did would be
\* the active turn's, like the one that prepares.
LEMMA PreparedAlone ==
  ASSUME Types, Courses, UncutRuns, OneExchange, NEW s \in Speeches, HasFirstAudio(s),
         Turn(s) = activeTurn
  PROVE  /\ \A u \in Speeches : pc[u] \notin Exchanging
         /\ fence.pending = NoReplacement /\ fence.acknowledged = NoReplacement
<1>1. \A u \in Speeches : pc[u] \notin Exchanging
  <2> SUFFICES ASSUME NEW u \in Speeches, pc[u] \in Exchanging PROVE FALSE
    OBVIOUS
  <2>1. /\ cut[u] = "no" /\ pc[u] \in Suspended /\ pc[s] = "synthesizing"
        /\ pc[u] \notin Waiting \cup {"done"} /\ pc[s] \notin Waiting \cup {"done"}
    BY DEF HasFirstAudio, Exchanging, Suspended, Waiting
  <2>2. Turn(u) = activeTurn
    BY <2>1 DEF UncutRuns, Courses, RunningIsActive
  <2>3. u = s
    BY <2>1, <2>2, OneSpeaks
  <2> QED
    BY <2>1, <2>3 DEF Exchanging
<1> QED
  BY <1>1 DEF OneExchange, ReplacementHasItsExchange

\* Whatever ends the exchange takes the replacement away, and nothing else does.
LEMMA NextOneExchange ==
  ASSUME "revoke" \notin Troubles, Types, Courses, HeardInOrder, UncutRuns, OneExchange, [Next]_vars
  PROVE  OneExchange'
<1>0. /\ fence \in Fence /\ FenceInOrder(fence) /\ \A s \in Speeches : Turn(s) \in Nat
      /\ "synthesizing" \notin Exchanging /\ Exchanging \subseteq Suspended
      /\ "flushing" \in Exchanging
  BY Facts, SpeechShape DEF HeardInOrder, Exchanging, Suspended
<1>1. \A s \in Speeches : pc'[s] \in Exchanging => pc[s] \in Exchanging \/ PrepareReplacement(s)
  <2> SUFFICES ASSUME NEW s \in Speeches, pc'[s] \in Exchanging
               PROVE  pc[s] \in Exchanging \/ PrepareReplacement(s)
    OBVIOUS
  <2>1. pc'[s] = pc[s] \/ Moves(s)
    BY <1>0, StageSteps
  <2> QED
    BY <2>1 DEF Moves, AdmitReplacement, Polls, Exchanging
<1>2. ASSUME NEW s \in Speeches, PrepareReplacement(s) PROVE OneExchange'
  <2>1. /\ HasFirstAudio(s) /\ Turn(s) = activeTurn /\ fence' = Interrupt(fence, Turn(s))
        /\ out' = [out EXCEPT ![s] = fence'.pending.lease.epoch]
        /\ pc' = [pc EXCEPT ![s] = "flushing"]
    BY <1>2 DEF PrepareReplacement
  <2>2. /\ \A u \in Speeches : pc[u] \notin Exchanging
        /\ fence.acknowledged = NoReplacement
    BY <2>1, PreparedAlone
  <2>3. /\ pc'[s] = "flushing" /\ out'[s] = fence'.pending.lease.epoch
        /\ \A u \in Speeches : u # s => pc'[u] = pc[u]
    BY <2>1 DEF Types, TypeOK
  <2>4. fence'.acknowledged = NoReplacement
    BY <1>0, <2>1, <2>2, InterruptShape
  <2> QED
    BY <1>0, <2>2, <2>3, <2>4 DEF OneExchange, ReplacementHasItsExchange
<1>3. CASE \A s \in Speeches : ~ PrepareReplacement(s)
  <2>1. \A s, u \in Speeches : pc'[s] \in Exchanging /\ pc'[u] \in Exchanging => s = u
    BY <1>1, <1>3 DEF OneExchange
  <2>2. ASSUME fence'.pending = NoReplacement, fence'.acknowledged = NoReplacement
        PROVE  OneExchange'
    BY <2>1, <2>2 DEF OneExchange, ReplacementHasItsExchange
  <2>3. \A r \in {fence.pending, fence.acknowledged} :
          r # NoReplacement =>
            \E s \in Speeches : pc[s] \in Exchanging /\ out[s] = r.lease.epoch
    BY DEF OneExchange, ReplacementHasItsExchange
  <2>4. ASSUME \A s \in Speeches : ~ Leaves(s) /\ ~ CommitReplacement(s),
               \A r \in {fence'.pending, fence'.acknowledged} :
                 r # NoReplacement => r \in {fence.pending, fence.acknowledged},
               fence'.pending = NoReplacement \/ fence'.acknowledged = NoReplacement
        PROVE  OneExchange'
    <3>1. \A s \in Speeches : pc[s] \in Exchanging => pc'[s] \in Exchanging /\ out'[s] = out[s]
      BY <2>4, ExchangeEnds
    <3> QED
      BY <2>1, <2>3, <2>4, <3>1 DEF OneExchange, ReplacementHasItsExchange
  <2>5. ASSUME NEW s \in Speeches, Leaves(s) PROVE OneExchange'
    <3>1. fence'.pending = NoReplacement /\ fence'.acknowledged = NoReplacement
      BY <1>0, <2>5, AbandonShape DEF Leaves, OneExchange
    <3> QED
      BY <2>2, <3>1
  <2>6. ASSUME NEW s \in Speeches, CommitReplacement(s) PROVE OneExchange'
    <3>1. fence' = Commit(fence) /\ fence.acknowledged # NoReplacement
      BY <2>6 DEF CommitReplacement, Accepted, Committable
    <3>2. fence'.pending = NoReplacement /\ fence'.acknowledged = NoReplacement
      BY <1>0, <3>1, CommitShape DEF OneExchange
    <3> QED
      BY <2>2, <3>2
  <2>7. ASSUME NEW s \in Speeches, PrepareFreshOutput(s) PROVE OneExchange'
    <3>1. fence'.pending = NoReplacement /\ fence'.acknowledged = NoReplacement
      BY <1>0, <2>7, ActivateShape DEF PrepareFreshOutput
    <3> QED
      BY <2>2, <3>1
  <2>8. CASE /\ \A s \in Speeches : ~ Leaves(s) /\ ~ CommitReplacement(s) /\ ~ PrepareFreshOutput(s)
    <3>1. CASE fence' = fence \/ fence' = Retain(fence)
      <4>1. fence'.pending = fence.pending /\ fence'.acknowledged = fence.acknowledged
        BY <1>0, <3>1, RetainShape
      <4> QED
        BY <2>4, <2>8, <4>1 DEF OneExchange
    <3>2. CASE FinishesTheLease
      <4>1. fence'.pending = fence.pending /\ fence'.acknowledged = fence.acknowledged
        BY <1>0, <3>2, ReleaseShape DEF FinishesTheLease
      <4> QED
        BY <2>4, <2>8, <4>1 DEF OneExchange
    <3>3. CASE fence' = Revoke(fence)
      BY <1>0, <2>2, <3>3, RevokeShape
    <3>4. CASE AnswersTheFlush
      <4>1. Head(fromSound).request \in Nat
        BY <3>4, ReceiveShape DEF AnswersTheFlush, ReceiveAck
      <4>2. \/ fence' = fence
            \/ fence'.acknowledged = fence.pending /\ fence'.pending = NoReplacement
        BY <1>0, <3>4, <4>1, AcknowledgeShape DEF AnswersTheFlush
      <4> QED
        BY <2>4, <2>8, <4>2 DEF OneExchange
    <3>5. ASSUME NEW s \in Speeches, Refuses(s) PROVE OneExchange'
      <4> DEFINE f == Interrupt(fence, Turn(s))
      <4>1. fence' = Abandon(f) /\ fence.acknowledged = NoReplacement
        BY <3>5, PreparedAlone DEF Refuses
      <4>2. f \in Fence /\ f.pending # NoReplacement /\ f.acknowledged = NoReplacement
        BY <1>0, <4>1, InterruptShape
      <4> HIDE DEF f
      <4>3. fence'.pending = NoReplacement /\ fence'.acknowledged = NoReplacement
        BY <4>1, <4>2, AbandonShape
      <4> QED
        BY <2>2, <4>3
    <3> QED
      BY <1>3, <2>8, <3>1, <3>2, <3>3, <3>4, <3>5, FenceSteps
  <2> QED
    BY <2>5, <2>6, <2>7, <2>8
<1> QED
  BY <1>2, <1>3


\* A replacement in the fence belongs to an exchange that is still going on, for
\* any number of turns and whatever happens to Sound, to the provider or to the
\* trust in what a speech was built on.
THEOREM ReplacementsAreOwned ==
  ASSUME "revoke" \notin Troubles
  PROVE  Spec => []ReplacementHasItsExchange
<1>1. /\ Types /\ Courses /\ HeardInOrder /\ UncutRuns /\ OneExchange /\ [Next]_vars
      => UncutRuns' /\ OneExchange'
  BY NextUncutRuns, NextOneExchange
<1>2. Init => UncutRuns /\ OneExchange
  BY DEF Init, UncutRuns, Suspended, OneExchange, Exchanging, ReplacementHasItsExchange, FenceInit
<1>3. OneExchange => ReplacementHasItsExchange
  BY DEF OneExchange
<1>4. Spec => []Types
  BY InitTypes, NextTypes, PTL DEF Spec
<1> QED
  BY <1>1, <1>2, <1>3, <1>4, SpeechesInOrder, FenceKnowsWhatWasHeard, PTL DEF Spec

\* The revisions a running task was begun under still stand.
RunsFresh == \A s \in Speeches : Running(tts[s]) => tts[s].fresh

\* Without a change of trust.
LEMMA NextRunsFresh ==
  ASSUME "trust" \notin Troubles, Types, Courses, RunsFresh, [Next]_vars
  PROVE  RunsFresh'
<1> SUFFICES ASSUME NEW s \in Speeches, Running(tts'[s]) PROVE tts'[s].fresh
  BY DEF RunsFresh
<1>1. CASE Elsewhere
  <2>1. tts' = tts \/ tts' = CancelRunning(tts)
    BY <1>1 DEF Elsewhere, Dispatch, ReceiveReady, ReceiveAck, ReceiveFinished, Control, elsewhere,
                LoseSink, RevokeIdentity, ChangeTrust, vars, taskVars
  <2>2. \A u \in Speeches : ~ Running(CancelRunning(tts)[u])
    BY Facts, CancelRunningShape
  <2> QED
    BY <2>1, <2>2 DEF RunsFresh
<1>2. CASE \E speaks \in BOOLEAN : AdmitTurn(speaks)
  <2>1. PICK speaks \in BOOLEAN : AdmitTurn(speaks)
    BY <1>2
  <2> DEFINE first == <<activeTurn', "initial">>
  <2>2. s = first /\ first \in Speeches
    BY <2>1, AdmitTasks
  <2>3. /\ tts' = [CancelRunning(tts) EXCEPT ![first] = IF speaks THEN Started ELSE NoTask]
        /\ CancelRunning(tts) \in [Speeches -> Task]
    BY <2>1, Facts, CancelRunningShape DEF AdmitTurn
  <2> HIDE DEF first
  <2>4. tts'[s] \in {Started, NoTask}
    BY <2>2, <2>3
  <2> QED
    BY <2>4, TasksBegin
<1>3. ASSUME NEW u \in Speeches, Speech(u) PROVE tts'[s].fresh
  <2>1. CASE u # s
    BY <1>3, <2>1, OthersStay DEF RunsFresh
  <2>2. CASE u = s
    <3>1. CASE tts'[s] = tts[s]
      BY <3>1 DEF RunsFresh
    <3>2. CASE pc'[s] = "ready"
      BY <1>3, <2>2, <3>2, ReadyIsAnswered, AnswerTasks, TasksBegin
    <3> QED
      BY <1>3, <2>2, <3>1, <3>2, OwnStep
  <2> QED
    BY <2>1, <2>2
<1> QED
  BY <1>1, <1>2, <1>3, NextSplit

\* Only a commit leaves the stream with a lease that was a replacement before it.
LEMMA OnlyCommitsCommit ==
  ASSUME Types, HeardInOrder, [Next]_vars, Commits
  PROVE  \E s \in Speeches : CommitReplacement(s)
<1>0. /\ fence \in Fence /\ FenceInOrder(fence) /\ \A s \in Speeches : Turn(s) \in Nat
      /\ fence.acknowledged # NoReplacement
      /\ fence.lease.epoch = fence.acknowledged.previous.epoch + 1
      /\ fence.acknowledged.previous # NoLease
      /\ fence.lease.epoch \in Int /\ fence.acknowledged.previous.epoch \in Nat
      /\ fence.requests \in Nat
  BY Facts, SpeechShape, FenceShape, ReplacementShape, LeaseShape
     DEF HeardInOrder, FenceInOrder, Commits
<1>1. HasLease(fence)
  BY <1>0, LeaseShape, FenceShape DEF HasLease, NoEpoch
<1>2. /\ fence' = Commit(fence) /\ fence'.acknowledged = NoReplacement
      /\ fence'.lease = fence.lease /\ fence'.pending = fence.pending
      /\ fence'.requests = fence.requests
  BY <1>0, CommitShape DEF Commits, Commit, Fence
<1>3. fence' # fence /\ fence' # Retain(fence) /\ fence' # Revoke(fence)
  BY <1>0, <1>1, <1>2, RetainShape, RevokeShape DEF HasLease
<1>4. \A s \in Speeches : ~ PrepareFreshOutput(s)
  BY <1>1 DEF PrepareFreshOutput
<1>5. \A s \in Speeches : ~ PrepareReplacement(s) /\ ~ Refuses(s)
  <2>1. \A s \in Speeches : /\ Interrupt(fence, Turn(s)) \in Fence
                            /\ Interrupt(fence, Turn(s)).requests = fence.requests + 1
    BY <1>0, InterruptShape
  <2>2. \A s \in Speeches : Abandon(Interrupt(fence, Turn(s))).requests = fence.requests + 1
    BY <2>1, AbandonShape
  <2> QED
    BY <1>0, <1>2, <2>1, <2>2 DEF PrepareReplacement, Refuses
<1>6. \A s \in Speeches : ~ Leaves(s)
  <2>1. fence' # Abandon(fence)
    <3>1. CASE fence.pending # NoReplacement
      BY <1>0, <1>2, <3>1, AbandonShape
    <3>2. CASE fence.pending = NoReplacement
      <4>1. Abandon(fence).lease = fence.acknowledged.previous
        BY <1>0, <3>2, AbandonShape DEF FenceInOrder
      <4> QED
        BY <1>0, <1>2, <4>1
    <3> QED
      BY <3>1, <3>2
  <2> QED
    BY <2>1 DEF Leaves
<1>7. ~ AnswersTheFlush
  <2> SUFFICES ASSUME AnswersTheFlush PROVE FALSE
    OBVIOUS
  <2> DEFINE r == Head(fromSound).request
  <2>1. fence' = Acknowledge(fence, r) /\ r \in Nat
    BY ReceiveShape DEF AnswersTheFlush, ReceiveAck
  <2> HIDE DEF r
  <2>2. fence'.acknowledged = fence.pending /\ fence.pending # NoReplacement
    BY <1>0, <1>3, <2>1, AcknowledgeShape
  <2> QED
    BY <1>2, <2>2
<1>8. ~ FinishesTheLease
  BY <1>0, <1>1, <1>2, ReleaseShape DEF FinishesTheLease, HasLease
<1> QED
  BY <1>3, <1>4, <1>5, <1>6, <1>7, <1>8, FenceSteps

\* Without a revocation and without a change of trust a replacement becomes
\* irreversible only for a speech that is still wanted, and in the step that
\* decides it: with its first frame, or with its end when it is late by then.
THEOREM ReplacedOnlyWhileWanted ==
  ASSUME "revoke" \notin Troubles, "trust" \notin Troubles
  PROVE  Spec => ReplacedOnlyByLiveSpeech
<1> DEFINE Decided(s) == /\ out[s] = fence.lease.epoch
                         /\ Counts(tts[s], s)
                         /\ tts'[s].state \in {"succeeded", "timed_out"}
<1>1. ASSUME Types, Courses, HeardInOrder, UncutRuns, RunsFresh, [Next]_vars, Commits
      PROVE  \E s \in Speeches : Decided(s)
  <2>1. PICK s \in Speeches : CommitReplacement(s)
    BY <1>1, OnlyCommitsCommit
  <2>2. /\ pc[s] = "admitting" /\ cut[s] = "no" /\ out[s] = fence.lease.epoch
        /\ StartOutput(s)
    BY <2>1 DEF CommitReplacement, Resumes, Accepted, Committable
  <2>3. Running(tts[s])
    BY <1>1, <2>2 DEF UncutRuns, Suspended
  <2>4. Counts(tts[s], s)
    BY <1>1, <2>3 DEF Counts, RunsFresh, Courses, RunningIsActive
  <2>5. tts'[s].state \in {"succeeded", "timed_out"}
    BY <1>1, <2>2, <2>4, StartOutputTasks
  <2> QED
    BY <2>2, <2>4, <2>5
<1>2. /\ Types /\ Courses /\ HeardInOrder /\ UncutRuns /\ RunsFresh /\ [Next]_vars
      => UncutRuns' /\ RunsFresh'
  BY NextUncutRuns, NextRunsFresh
<1>3. Init => UncutRuns /\ RunsFresh
  BY DEF Init, UncutRuns, Suspended, RunsFresh, Running, NoTask
<1>4. /\ Types /\ Courses /\ HeardInOrder /\ UncutRuns /\ RunsFresh /\ [Next]_vars
      => [Commits => \E s \in Speeches : Decided(s)]_vars
  BY <1>1
<1>5. Spec => []Types
  BY InitTypes, NextTypes, PTL DEF Spec
<1> QED
  BY <1>2, <1>3, <1>4, <1>5, SpeechesInOrder, FenceKnowsWhatWasHeard, PTL
     DEF Spec, ReplacedOnlyByLiveSpeech

-----------------------------------------------------------------------------
(* Who answers for a coordinator that prepares speech                      *)

\* The preparations of a speech that has begun.
Speaking == {"synthesizing", "cutover_pending"}

\* No callback of the coordinator begins preparations ...
LEMMA CallbackPhases ==
  ASSUME NEW c \in AgentState, NEW t \in Nat, NEW e \in Nat,
         NEW d \in {FailTurn(c, t, e), OutputLost(c, t, e), PlaybackFinished(c, t, e),
                    PlaybackStarted(c, t, e), AwaitCutover(c, t, e), RestoreRetained(c, t, e),
                    CompleteWithoutOutput(c, t, e), Advance(c, t, e, {"reasoning"}, "failed")},
         d.phase \in Preparing
  PROVE  d.turn = c.turn /\ c.phase \in Preparing /\ (d.phase \in Speaking => c.phase \in Speaking)
BY DEF FailTurn, OutputLost, PlaybackFinished, PlaybackStarted, AwaitCutover, RestoreRetained,
       CompleteWithoutOutput, Advance, AgentState, Preparing, Speaking

\* ... but one, for the turn and the epoch the coordinator is in.
LEMMA StartPhases ==
  ASSUME NEW c \in AgentState, NEW t \in Nat, NEW e \in Nat
  PROVE  /\ StartSynthesizing(c, t, e).turn = c.turn
         /\ StartSynthesizing(c, t, e) = c \/ (c.turn = t /\ c.epoch = e)
BY DEF StartSynthesizing, Advance, AgentState

\* They all stay in its epoch.
LEMMA CallbackEpoch ==
  ASSUME NEW c \in AgentState, NEW t \in Nat, NEW e \in Nat,
         NEW d \in {FailTurn(c, t, e), OutputLost(c, t, e), PlaybackFinished(c, t, e),
                    PlaybackStarted(c, t, e), AwaitCutover(c, t, e), RestoreRetained(c, t, e),
                    CompleteWithoutOutput(c, t, e), Advance(c, t, e, {"reasoning"}, "failed"),
                    StartSynthesizing(c, t, e)}
  PROVE  d.epoch = c.epoch
BY DEF FailTurn, OutputLost, PlaybackFinished, PlaybackStarted, AwaitCutover, RestoreRetained,
       CompleteWithoutOutput, StartSynthesizing, Advance, AgentState

\* The coordinator is in the epoch of the active turn, and prepares it alone.
Coordinated ==
  /\ agent.epoch = activeTurn
  /\ agent.phase \in Preparing => agent.turn = activeTurn

\* The steps of a speech that begin preparations: the speech begins, or its operation
\* has been answered.
Starts(s) == BeginSpeech(s) \/ (AnswerOperation(s, "speech") /\ pc'[s] = "ready")

\* What a step of a speech tells the coordinator.
LEMMA SpeechCallbacks ==
  ASSUME Types, Coordinated, NEW s \in Speeches, Speech(s)
  PROVE  \/ agent' \in {agent, FailTurn(agent, Turn(s), Turn(s)),
                        OutputLost(agent, Turn(s), activeTurn),
                        PlaybackStarted(agent, Turn(s), Turn(s)),
                        AwaitCutover(agent, Turn(s), activeTurn),
                        RestoreRetained(agent, Turn(s), activeTurn),
                        CompleteWithoutOutput(agent, Turn(s), Turn(s)),
                        Advance(agent, Turn(s), Turn(s), {"reasoning"}, "failed")}
         \/ agent' = StartSynthesizing(agent, Turn(s), Turn(s)) /\ Starts(s)
<1>0. agent.epoch = activeTurn
  BY DEF Coordinated
<1>1. CASE Exchange(s) \/ StartFresh(s) \/ DeliverCancellation(s)
  BY <1>1 DEF Exchange, ExchangeIsStale, ExchangeExpires, ExchangeTimesOut, AdmitReplacement,
              CommitReplacement, RefuseReplacement, StartFresh, StartOutput, DeliverCancellation,
              EndExchange, RestoredAgent
<1>2. CASE \/ BeginSpeech(s) \/ PrepareFreshOutput(s) \/ PrepareReplacement(s)
           \/ RefuseOutput(s) \/ FinishSpeech(s) \/ ProviderFails(s) \/ SpeechTimesOut(s)
  BY <1>2 DEF BeginSpeech, PrepareFreshOutput, PrepareReplacement, RefuseOutput, FinishSpeech,
              ProviderFails, SpeechTimesOut, Starts
<1>3. CASE AbandonSpeech(s)
  BY <1>0, <1>3 DEF AbandonSpeech, Unverified
<1>4. ASSUME NEW how \in {"speech", "silence", "failure"}, AnswerOperation(s, how)
      PROVE  \/ agent' \in {CompleteWithoutOutput(agent, Turn(s), Turn(s)),
                            Advance(agent, Turn(s), Turn(s), {"reasoning"}, "failed")}
             \/ agent' = StartSynthesizing(agent, Turn(s), Turn(s)) /\ Starts(s)
  <2>1. CASE how = "speech"
    <3>1. pc' = [pc EXCEPT ![s] = "ready"] /\ agent' = StartSynthesizing(agent, Turn(s), Turn(s))
      BY <1>4, <2>1 DEF AnswerOperation
    <3>2. pc'[s] = "ready"
      BY <3>1 DEF Types, TypeOK
    <3> QED
      BY <1>4, <2>1, <3>1, <3>2 DEF Starts
  <2>2. CASE how # "speech"
    BY <1>4, <2>2 DEF AnswerOperation
  <2> QED
    BY <2>1, <2>2
<1> QED
  BY <1>1, <1>2, <1>3, <1>4 DEF Speech, Progress

\* What a step tells the coordinator, other than a new turn.
LEMMA Callbacks ==
  ASSUME Types, Coordinated, [Next]_vars, \A speaks \in BOOLEAN : ~ AdmitTurn(speaks)
  PROVE  \E t \in Nat :
           agent' \in {agent, FailTurn(agent, t, t), OutputLost(agent, t, activeTurn),
                       PlaybackFinished(agent, t, activeTurn), PlaybackStarted(agent, t, t),
                       AwaitCutover(agent, t, activeTurn), RestoreRetained(agent, t, activeTurn),
                       CompleteWithoutOutput(agent, t, t),
                       Advance(agent, t, t, {"reasoning"}, "failed"),
                       StartSynthesizing(agent, t, t)}
<1>0. agent.turn \in Nat /\ agent.epoch = activeTurn /\ \A s \in Speeches : Turn(s) \in Nat
  BY Facts, SpeechShape DEF Coordinated
<1>1. CASE Elsewhere
  <2>1. \/ agent' = agent \/ agent' = PlaybackFinished(agent, agent.turn, activeTurn)
        \/ agent' = OutputLost(agent, agent.turn, activeTurn)
    BY <1>0, <1>1 DEF Elsewhere, Dispatch, ReceiveReady, ReceiveAck, ReceiveFinished, FinishedAgent,
         Control, elsewhere, LoseSink, OutputIsLost, RevokeIdentity, ChangeTrust, vars
  <2> QED
    BY <1>0, <2>1
<1> QED
  BY <1>0, <1>1, SpeechCallbacks, NextSplit

\* A new turn puts the coordinator into its epoch.
LEMMA AdmitAgent ==
  ASSUME Types, Coordinated, NEW speaks \in BOOLEAN, AdmitTurn(speaks)
  PROVE  /\ Coordinated'
         /\ agent'.turn = activeTurn' /\ agent'.phase \in {"reasoning", "synthesizing", "completed"}
         /\ agent'.phase = "synthesizing" => speaks
<1> DEFINE t == activeTurn + 1
           fenced == CancelTurn(agent, agent.turn, activeTurn)
           held == HasPlayback(fence) \/ fenced.phase = "playing"
<1>1. /\ activeTurn' = t /\ activeTurn \in Nat /\ t \in Nat /\ agent.epoch = activeTurn
      /\ agent' = IF speaks THEN StartSynthesizing(Enqueue(fenced, t, t, held), t, t)
                  ELSE IF t \in Operating THEN Enqueue(fenced, t, t, held)
                  ELSE CompleteWithoutOutput(Enqueue(fenced, t, t, held), t, t)
  BY Facts DEF AdmitTurn, Admitted, Coordinated
<1>2. fenced.epoch = agent.epoch
  BY Facts, AdvanceShape DEF CancelTurn, Phases
<1> HIDE DEF fenced, held
<1>3. ~ (t < fenced.epoch)
  BY <1>1, <1>2
<1>4. \E r : Enqueue(fenced, t, t, held) = [turn |-> t, epoch |-> t, phase |-> "reasoning", retained |-> r]
  BY <1>3 DEF Enqueue
<1> HIDE DEF t
<1>5. /\ agent'.turn = t /\ agent'.epoch = t
      /\ agent'.phase = IF speaks THEN "synthesizing"
                        ELSE IF t \in Operating THEN "reasoning" ELSE "completed"
  BY <1>1, <1>4 DEF StartSynthesizing, CompleteWithoutOutput, Advance
<1> QED
  BY <1>1, <1>5 DEF Coordinated

\* Only a new turn is another active turn.
LEMMA TurnStays ==
  ASSUME Types, Courses, [Next]_vars, \A speaks \in BOOLEAN : ~ AdmitTurn(speaks)
  PROVE  activeTurn' = activeTurn
<1>1. Elsewhere => activeTurn' = activeTurn
  BY DEF Elsewhere, Dispatch, ReceiveReady, ReceiveAck, ReceiveFinished, Control, elsewhere,
         LoseSink, RevokeIdentity, ChangeTrust, vars
<1> QED
  BY <1>1, NextSplit, OwnStep

\* The coordinator stays with the active turn.
LEMMA NextCoordinated ==
  ASSUME Types, Courses, Coordinated, [Next]_vars
  PROVE  Coordinated'
<1>1. CASE \E speaks \in BOOLEAN : AdmitTurn(speaks)
  BY <1>1, AdmitAgent
<1>2. CASE \A speaks \in BOOLEAN : ~ AdmitTurn(speaks)
  <2>1. activeTurn' = activeTurn /\ agent.epoch = activeTurn /\ agent \in AgentState /\ activeTurn \in Nat
    BY <1>2, TurnStays, Facts DEF Coordinated
  <2>2. PICK t \in Nat :
           agent' \in {agent, FailTurn(agent, t, t), OutputLost(agent, t, activeTurn),
                       PlaybackFinished(agent, t, activeTurn), PlaybackStarted(agent, t, t),
                       AwaitCutover(agent, t, activeTurn), RestoreRetained(agent, t, activeTurn),
                       CompleteWithoutOutput(agent, t, t),
                       Advance(agent, t, t, {"reasoning"}, "failed"),
                       StartSynthesizing(agent, t, t)}
    BY <1>2, Callbacks
  <2>3. agent'.epoch = agent.epoch
    <3>1. CASE agent' \in {FailTurn(agent, t, t), PlaybackStarted(agent, t, t),
                           CompleteWithoutOutput(agent, t, t), StartSynthesizing(agent, t, t),
                           Advance(agent, t, t, {"reasoning"}, "failed")}
      BY <2>1, <3>1, CallbackEpoch
    <3>2. CASE agent' \in {OutputLost(agent, t, activeTurn), PlaybackFinished(agent, t, activeTurn),
                           AwaitCutover(agent, t, activeTurn), RestoreRetained(agent, t, activeTurn)}
      BY <2>1, <3>2, CallbackEpoch
    <3> QED
      BY <2>2, <3>1, <3>2
  <2>4. ASSUME agent'.phase \in Preparing PROVE agent'.turn = activeTurn
    <3>1. CASE agent' = agent
      BY <2>4, <3>1 DEF Coordinated
    <3>2. CASE agent' = StartSynthesizing(agent, t, t)
      BY <2>1, <2>4, <3>1, <3>2, StartPhases
    <3>3. CASE agent' \in {FailTurn(agent, t, t), PlaybackStarted(agent, t, t),
                           CompleteWithoutOutput(agent, t, t),
                           Advance(agent, t, t, {"reasoning"}, "failed")}
      BY <2>1, <2>4, <3>3, CallbackPhases DEF Coordinated
    <3>4. CASE agent' \in {OutputLost(agent, t, activeTurn), PlaybackFinished(agent, t, activeTurn),
                           AwaitCutover(agent, t, activeTurn), RestoreRetained(agent, t, activeTurn)}
      BY <2>1, <2>4, <3>4, CallbackPhases DEF Coordinated
    <3> QED
      BY <2>2, <3>1, <3>2, <3>3, <3>4
  <2> QED
    BY <2>1, <2>3, <2>4 DEF Coordinated
<1> QED
  BY <1>1, <1>2

\* The speech of the active turn that is ready works for a task that runs.
ReadyRuns == \A s \in Speeches : pc[s] = "ready" /\ Turn(s) = activeTurn => Running(tts[s])

\* What the speech will do to the coordinator sooner or later: play, or give up.
WillMove(s) ==
  \/ pc[s] = "ready"
  \/ pc[s] \in Suspended /\ cut[s] # "abandoned"
  \/ pc[s] = "aborting" /\ ~ Heard(s)

PreparingIsMoved ==
  agent.phase \in Speaking => \E s \in Speeches : Turn(s) = activeTurn /\ WillMove(s)

\* Nobody closes the task of a speech that has yet to begin, but a revocation.
LEMMA NextReadyRuns ==
  ASSUME "revoke" \notin Troubles, Types, Courses, ReadyRuns, [Next]_vars
  PROVE  ReadyRuns'
<1> SUFFICES ASSUME NEW s \in Speeches, pc'[s] = "ready", Turn(s) = activeTurn'
             PROVE  Running(tts'[s])
  BY DEF ReadyRuns
<1>1. CASE Elsewhere
  <2>1. pc[s] = "ready" /\ Turn(s) = activeTurn
    BY <1>1, ElsewhereStay
  <2>2. tts' = tts \/ tts' = Outdated(tts)
    BY <1>1 DEF Elsewhere, Dispatch, ReceiveReady, ReceiveAck, ReceiveFinished, Control, elsewhere,
                LoseSink, RevokeIdentity, ChangeTrust, vars, taskVars
  <2> QED
    BY <2>1, <2>2, Facts, OutdatedShape DEF ReadyRuns, Running
<1>2. CASE \E speaks \in BOOLEAN : AdmitTurn(speaks)
  <2>1. PICK speaks \in BOOLEAN : AdmitTurn(speaks)
    BY <1>2
  <2> DEFINE t == activeTurn + 1
             first == <<t, "initial">>
  <2>2. /\ activeTurn' = t /\ activeTurn \in Nat /\ first \in Speeches
    BY <2>1, Facts, AdmitTasks
  <2>3. /\ pc'[s] = CASE s = first -> IF speaks THEN "ready" ELSE "done"
                      [] s = <<t, "final">> -> IF t \in Operating THEN "awaited" ELSE "done"
                      [] OTHER -> IF pc[s] = "awaited" THEN "done" ELSE pc[s]
        /\ tts' = [CancelRunning(tts) EXCEPT ![first] = IF speaks THEN Started ELSE NoTask]
        /\ CancelRunning(tts) \in [Speeches -> Task]
    BY <2>1, Facts, CancelRunningShape DEF AdmitTurn
  <2>4. Turn(s) = t
    BY <2>2
  <2> HIDE DEF t
  <2>5. s = first
    BY <2>3, <2>4, SpeechShape
  <2>6. speaks /\ tts'[s] = Started
    BY <2>2, <2>3, <2>5
  <2> QED
    BY <2>6, TasksBegin
<1>3. ASSUME NEW u \in Speeches, Speech(u) PROVE Running(tts'[s])
  <2>1. CASE u # s
    BY <1>3, <2>1, OthersStay DEF ReadyRuns
  <2>2. CASE u = s
    BY <1>3, <2>2, ReadyIsAnswered, AnswerTasks, TasksBegin
  <2> QED
    BY <2>1, <2>2
<1> QED
  BY <1>1, <1>2, <1>3, NextSplit

\* A step that goes on preparing speech keeps one of these speeches, or begins one.
LEMMA NextPreparingIsMoved ==
  ASSUME Types, Courses, Coordinated, ReadyRuns, PreparingIsMoved, [Next]_vars
  PROVE  PreparingIsMoved'
<1> DEFINE Moved(v) == \/ pc'[v] = "ready"
                       \/ pc'[v] \in Suspended /\ cut'[v] # "abandoned"
                       \/ pc'[v] = "aborting" /\ tts'[v].state # "succeeded"
<1> SUFFICES ASSUME agent'.phase \in Speaking
             PROVE  \E v \in Speeches : Turn(v) = activeTurn' /\ Moved(v)
  BY DEF PreparingIsMoved, WillMove, Heard
<1>0. /\ \A x \in {"none", "awaited", "ready", "emitting", "aborting", "done"} : x \notin Suspended
      /\ {"synthesizing", "announcing", "flushing", "admitting"} \subseteq Suspended
      /\ Suspended \subseteq {"synthesizing", "announcing", "flushing", "admitting"}
      /\ agent \in AgentState /\ activeTurn \in Nat /\ agent.epoch = activeTurn
      /\ agent.phase \in Speaking => agent.turn = activeTurn
      /\ \A s \in Speeches : Turn(s) \in Nat
  BY Facts, SpeechShape DEF Suspended, Coordinated, Preparing, Speaking
<1>1. CASE \E speaks \in BOOLEAN : AdmitTurn(speaks)
  <2>1. PICK speaks \in BOOLEAN : AdmitTurn(speaks)
    BY <1>1
  <2> DEFINE first == <<activeTurn', "initial">>
  <2>2. speaks
    BY <2>1, AdmitAgent DEF Speaking
  <2>3. first \in Speeches /\ activeTurn' = activeTurn + 1
    BY <2>1, AdmitTasks
  <2>4. pc'[first] = "ready"
    BY <2>1, <2>2, <2>3 DEF AdmitTurn
  <2>5. Turn(first) = activeTurn'
    BY DEF Turn
  <2> QED
    BY <2>3, <2>4, <2>5
<1>2. CASE Elsewhere
  <2>1. \/ agent' = agent \/ agent' = PlaybackFinished(agent, agent.turn, activeTurn)
        \/ agent' = OutputLost(agent, agent.turn, agent.epoch)
    BY <1>2 DEF Elsewhere, Dispatch, ReceiveReady, ReceiveAck, ReceiveFinished, FinishedAgent,
         Control, elsewhere, LoseSink, OutputIsLost, RevokeIdentity, ChangeTrust, vars
  <2>2. agent'.phase \in Preparing /\ agent.turn \in Nat
    BY Facts DEF Speaking, Preparing
  <2>3. agent.phase \in Speaking
    BY <1>0, <2>1, <2>2, CallbackPhases
  <2>4. PICK v \in Speeches : Turn(v) = activeTurn /\ WillMove(v)
    BY <2>3 DEF PreparingIsMoved
  <2>5. ~ LoseSink
    <3>1. LoseSink => agent'.phase = "failed"
      BY <1>0, <2>3 DEF LoseSink, OutputIsLost, OutputLost, Advance, AgentState, Speaking
    <3> QED
      BY <3>1 DEF Speaking
  <2>6. cut' = cut
    BY <1>2, <2>5 DEF Elsewhere, Dispatch, ReceiveReady, ReceiveAck, ReceiveFinished, Control,
                elsewhere, RevokeIdentity, ChangeTrust, vars, speechVars
  <2>7. UNCHANGED <<activeTurn, pc>> /\ (tts'[v].state = "succeeded" => Heard(v))
    BY <1>2, ElsewhereStay DEF Heard
  <2> QED
    BY <2>4, <2>6, <2>7 DEF WillMove
<1>3. ASSUME NEW s \in Speeches, Speech(s)
      PROVE  \E v \in Speeches : Turn(v) = activeTurn' /\ Moved(v)
  <2>0. activeTurn' = activeTurn
    BY <1>3, OwnStep
  <2>a. \A to : pc' = [pc EXCEPT ![s] = to] => pc'[s] = to
    BY DEF Types, TypeOK
  <2>b. pc[s] = "ready" => cut[s] = "no"
    BY NotCutBefore DEF Types, TypeOK, Underway, Suspended
  <2>1. CASE Turn(s) = activeTurn /\ Starts(s)
    <3>1. CASE BeginSpeech(s)
      <4>1. /\ pc[s] = "ready" /\ cut' = cut
            /\ pc' = [pc EXCEPT ![s] = IF Running(tts[s]) THEN "synthesizing" ELSE "done"]
        BY <3>1 DEF BeginSpeech
      <4>2. pc'[s] = "synthesizing"
        BY <2>1, <2>a, <4>1 DEF ReadyRuns
      <4> QED
        BY <1>0, <2>0, <2>1, <2>b, <4>1, <4>2
    <3> QED
      BY <2>0, <2>1, <3>1 DEF Starts
  <2>2. CASE ~ (Turn(s) = activeTurn /\ Starts(s))
    <3>0. Starts(s) => ~ AnswerOperation(s, "speech")
      BY <2>2 DEF AnswerOperation, Courses, RunningIsActive
    <3>1. agent.phase \in Speaking
      <4>1. CASE agent' = agent
        BY <4>1
      <4>2. CASE agent' = StartSynthesizing(agent, Turn(s), Turn(s)) /\ Starts(s)
        BY <1>0, <2>2, <4>1, <4>2, StartPhases
      <4>3. CASE agent' \in {FailTurn(agent, Turn(s), Turn(s)),
                             PlaybackStarted(agent, Turn(s), Turn(s)),
                             CompleteWithoutOutput(agent, Turn(s), Turn(s)),
                             Advance(agent, Turn(s), Turn(s), {"reasoning"}, "failed")}
        BY <1>0, <4>3, CallbackPhases DEF Speaking, Preparing
      <4>4. CASE agent' \in {OutputLost(agent, Turn(s), activeTurn),
                             AwaitCutover(agent, Turn(s), activeTurn),
                             RestoreRetained(agent, Turn(s), activeTurn)}
        BY <1>0, <4>4, CallbackPhases DEF Speaking, Preparing
      <4> QED
        BY <1>3, <4>1, <4>2, <4>3, <4>4, SpeechCallbacks
    <3>2. PICK v \in Speeches : Turn(v) = activeTurn /\ WillMove(v)
      BY <3>1 DEF PreparingIsMoved
    <3>3. CASE v # s
      BY <1>3, <2>0, <3>2, <3>3, OthersStay DEF WillMove, Heard
    <3>4. ASSUME v = s PROVE Moved(s)
      <4>0. /\ WillMove(s) /\ Turn(s) = activeTurn /\ agent.turn = activeTurn
            /\ agent'.phase \notin {"failed", "playing"}
        BY <1>0, <3>1, <3>2, <3>4 DEF Speaking
      <4>1. CASE tts' = tts /\ pc'[s] = "aborting"
        <5>1. ~ Heard(s)
          BY <1>0, <4>0 DEF WillMove, Courses, HeardHasSpoken, Suspended
        <5> QED
          BY <4>1, <5>1 DEF Heard
      <4>2. CASE PrepareFreshOutput(s)
        <5>1. /\ cut[s] = "no" /\ cut' = cut /\ tts' = tts
              /\ pc' = [pc EXCEPT ![s] = "announcing"] \/ pc' = [pc EXCEPT ![s] = "aborting"]
          BY <4>2 DEF PrepareFreshOutput, HasFirstAudio, Leave, taskVars
        <5> QED
          BY <1>0, <2>a, <4>1, <5>1
      <4>3. CASE PrepareReplacement(s)
        BY <1>0, <2>a, <4>3 DEF PrepareReplacement, HasFirstAudio
      <4>4. CASE AdmitReplacement(s)
        <5>1. cut'[s] = "no" /\ pc' = [pc EXCEPT ![s] = "admitting"]
          BY <4>4 DEF AdmitReplacement, ReplaceWaiter, Polls
        <5> QED
          BY <1>0, <2>a, <5>1
      <4>5. CASE \/ RefuseOutput(s) \/ ExchangeIsStale(s) \/ ExchangeExpires(s)
                 \/ ExchangeTimesOut(s) \/ ProviderFails(s)
                 \/ \E late \in BOOLEAN : RefuseReplacement(s, late)
        <5>1. tts' = tts /\ pc' = [pc EXCEPT ![s] = "aborting"]
          BY <4>5 DEF RefuseOutput, ExchangeIsStale, ExchangeExpires, ExchangeTimesOut,
                      ProviderFails, RefuseReplacement, Leave, taskVars
        <5> QED
          BY <2>a, <4>1, <5>1
      <4>6. CASE StartFresh(s) \/ CommitReplacement(s)
        <5>1. StartOutput(s)
          BY <4>6 DEF StartFresh, CommitReplacement
        <5>2. pc' = [pc EXCEPT ![s] = "aborting"]
          <6> SUFFICES ASSUME pc' # [pc EXCEPT ![s] = "aborting"] PROVE FALSE
            OBVIOUS
          <6>1. agent' = PlaybackStarted(agent, activeTurn, activeTurn)
            BY <4>0, <5>1 DEF StartOutput, Leave
          <6>2. agent'.phase = "playing"
            BY <1>0, <3>1, <4>0, <6>1 DEF PlaybackStarted, AgentState, Speaking
          <6> QED
            BY <4>0, <6>2
        <5> QED
          BY <2>a, <4>1, <5>1, <5>2, StartOutputTasks
      <4>7. CASE FinishSpeech(s)
        BY <1>0, <4>0, <4>7 DEF FinishSpeech, WillMove
      <4>8. CASE AbandonSpeech(s) \/ SpeechTimesOut(s)
        <5>1. agent' = FailTurn(agent, activeTurn, activeTurn)
          BY <1>0, <4>0, <4>8 DEF AbandonSpeech, SpeechTimesOut, WillMove, Heard
        <5>2. agent'.phase = "failed"
          BY <1>0, <3>1, <4>0, <5>1 DEF FailTurn, Advance, AgentState, Speaking, Preparing
        <5> QED
          BY <4>0, <5>2
      <4>9. CASE DeliverCancellation(s)
        <5>1. /\ cut[s] # "no" /\ tts' = tts
              /\ pc' = [pc EXCEPT ![s] = IF cut[s] = "abandoned" THEN "done" ELSE "aborting"]
          BY <4>9 DEF DeliverCancellation
        <5>2. cut[s] # "abandoned"
          BY <1>0, <2>b, <4>0, <5>1 DEF WillMove, Courses, CutUnderway, Underway
        <5> QED
          BY <2>a, <4>1, <5>1, <5>2
      <4>10. CASE BeginSpeech(s)
        BY <2>2, <4>0, <4>10 DEF Starts
      <4>11. CASE \E how \in {"speech", "silence", "failure"} : AnswerOperation(s, how)
        BY <1>0, <4>0, <4>11 DEF AnswerOperation, WillMove
      <4> QED
        BY <1>3, <4>2, <4>3, <4>4, <4>5, <4>6, <4>7, <4>8, <4>9, <4>10, <4>11
           DEF Speech, Progress, Exchange
    <3> QED
      BY <2>0, <3>2, <3>3, <3>4
  <2> QED
    BY <2>1, <2>2
<1> QED
  BY <1>1, <1>2, <1>3, NextSplit

\* While the coordinator prepares speech, some coroutine of its turn will move it
\* on, whatever goes wrong but a revocation: the session is not busy for ever.
THEOREM PreparationsAreMoved ==
  ASSUME "revoke" \notin Troubles
  PROVE  Spec => []PreparingHasASpeech
<1>1. Types /\ Courses /\ Coordinated /\ ReadyRuns /\ PreparingIsMoved /\ [Next]_vars
      => Coordinated' /\ ReadyRuns' /\ PreparingIsMoved'
  BY NextCoordinated, NextReadyRuns, NextPreparingIsMoved
<1>2. Init => Coordinated /\ ReadyRuns /\ PreparingIsMoved
  BY DEF Init, AgentInit, Coordinated, ReadyRuns, PreparingIsMoved, Preparing, Speaking, NoTurn
<1>3. Coordinated /\ PreparingIsMoved => PreparingHasASpeech
  BY DEF Coordinated, PreparingIsMoved, PreparingHasASpeech, WillMove, Preparing, Speaking, Suspended
<1>4. Spec => []Types
  BY InitTypes, NextTypes, PTL DEF Spec
<1> QED
  BY <1>1, <1>2, <1>3, <1>4, SpeechesInOrder, PTL DEF Spec

-----------------------------------------------------------------------------
(* Whose playback is completed, as long as no turn has an operation        *)

\* A turn without an operation speaks once.
SpeaksOnce ==
  \A s \in Speeches : pc[s] # "awaited" /\ (s[2] = "final" => pc[s] \in {"none", "done"})

\* The audio on the stream is of turn t, if there is any, and nobody takes it over.
Owned(f, t) ==
  /\ f.pending = NoReplacement /\ f.acknowledged = NoReplacement
  /\ HasLease(f) => f.lease.turn = t

\* What the coordinator holds on to while the speech of the active turn exchanges:
\* the turn whose lease the exchange would fall back to.
FallsBack(s) ==
  /\ agent.phase = "cutover_pending" /\ agent.retained # NoTurn =>
       /\ fence.pending = NoReplacement \/ fence.acknowledged = NoReplacement
       /\ Base(fence) = NoLease \/ Base(fence).turn = agent.retained
  /\ \A r \in {fence.pending, fence.acknowledged} :
       r # NoReplacement /\ r.lease.epoch = out[s] => r.lease.turn = Turn(s)
  /\ pc[s] = "admitting" => fence.pending = NoReplacement

\* Where the speech of the active turn is, and what fence and coordinator then say.
InTune(s) ==
  /\ agent.phase = "playing" => pc[s] \notin {"ready"} \cup Suspended
  /\ /\ pc[s] \in {"ready", "synthesizing"}
     /\ agent.phase \in {"reasoning", "synthesizing"} /\ agent.retained # NoTurn
     => Owned(fence, agent.retained)
  /\ pc[s] = "announcing" /\ cut[s] = "no" /\ Running(tts[s]) => Owned(fence, Turn(s))
  /\ pc[s] \in Exchanging /\ Running(flush[s]) => FallsBack(s)

\* The coordinator plays the turn that the fence has the lease of.
PlaysTheLease ==
  /\ agent.phase = "playing" => Owned(fence, agent.turn)
  /\ \A s \in Speeches : Turn(s) = activeTurn => InTune(s)

\* A speech that takes a step is on its way.
LEMMA MovesOnItsWay ==
  ASSUME Types, Courses, NEW s \in Speeches, Speech(s)
  PROVE  pc[s] \notin {"none", "done"} /\ pc'[s] # "awaited"
<1> DEFINE To(S) == \E to \in S : pc' = [pc EXCEPT ![s] = to]
           Goal == pc[s] \notin {"none", "done"} /\ To({"ready", "synthesizing", "announcing",
                     "flushing", "admitting", "emitting", "aborting", "done"})
<1>0. Goal => pc[s] \notin {"none", "done"} /\ pc'[s] # "awaited"
  BY DEF Types, TypeOK
<1>1. CASE \E how \in {"speech", "silence", "failure"} : AnswerOperation(s, how)
  <2>1. PICK how \in {"speech", "silence", "failure"} : AnswerOperation(s, how)
    BY <1>1
  <2>2. Goal
    BY <2>1 DEF AnswerOperation
  <2> QED
    BY <1>0, <2>2
<1>2. CASE BeginSpeech(s)
  <2>1. Goal
    BY <1>2 DEF BeginSpeech
  <2> QED
    BY <1>0, <2>1
<1>3. CASE PrepareFreshOutput(s) \/ PrepareReplacement(s) \/ RefuseOutput(s)
  <2>1. Goal
    BY <1>3 DEF PrepareFreshOutput, PrepareReplacement, RefuseOutput, HasFirstAudio, Leave
  <2> QED
    BY <1>0, <2>1
<1>4. CASE Exchange(s)
  <2>1. Goal
    BY <1>4 DEF Exchange, ExchangeIsStale, ExchangeExpires, ExchangeTimesOut, AdmitReplacement,
                CommitReplacement, RefuseReplacement, StartOutput, Polls, Resumes, Leave
  <2> QED
    BY <1>0, <2>1
<1>5. CASE StartFresh(s) \/ FinishSpeech(s) \/ AbandonSpeech(s) \/ ProviderFails(s)
  <2>1. Goal
    BY <1>5 DEF StartFresh, StartOutput, FinishSpeech, AbandonSpeech, ProviderFails, Resumes, Leave
  <2> QED
    BY <1>0, <2>1
<1>6. CASE DeliverCancellation(s)
  <2>1. pc[s] \notin {"none", "done"}
    BY <1>6, StageNames DEF DeliverCancellation, Courses, CutUnderway, Waiting
  <2>2. Goal
    BY <1>6, <2>1 DEF DeliverCancellation
  <2> QED
    BY <1>0, <2>2
<1>7. CASE SpeechTimesOut(s)
  BY <1>7 DEF SpeechTimesOut, Suspended
<1> QED
  BY <1>1, <1>2, <1>3, <1>4, <1>5, <1>6, <1>7 DEF Speech, Progress

\* Without operations no speech is ever a second one of its turn.
LEMMA NextSpeaksOnce ==
  ASSUME Operating = {}, Types, Courses, SpeaksOnce, [Next]_vars
  PROVE  SpeaksOnce'
<1> SUFFICES ASSUME NEW u \in Speeches
             PROVE  pc'[u] # "awaited" /\ (u[2] = "final" => pc'[u] \in {"none", "done"})
  BY DEF SpeaksOnce
<1>0. pc[u] # "awaited" /\ (u[2] = "final" => pc[u] \in {"none", "done"})
  BY DEF SpeaksOnce
<1>1. CASE Elsewhere
  BY <1>0, <1>1, ElsewhereStay
<1>2. ASSUME NEW s \in Speeches, Speech(s)
      PROVE  pc'[u] # "awaited" /\ (u[2] = "final" => pc'[u] \in {"none", "done"})
  <2>1. CASE u = s
    BY <1>0, <1>2, <2>1, MovesOnItsWay
  <2>2. CASE u # s
    BY <1>0, <1>2, <2>2, OthersStay
  <2> QED
    BY <2>1, <2>2
<1>3. ASSUME NEW speaks \in BOOLEAN, AdmitTurn(speaks)
      PROVE  pc'[u] # "awaited" /\ (u[2] = "final" => pc'[u] \in {"none", "done"})
  <2>1. pc'[u] = CASE u = <<activeTurn + 1, "initial">> -> IF speaks THEN "ready" ELSE "done"
                   [] u = <<activeTurn + 1, "final">> ->
                        IF activeTurn + 1 \in Operating THEN "awaited" ELSE "done"
                   [] OTHER -> IF pc[u] = "awaited" THEN "done" ELSE pc[u]
    BY <1>3 DEF AdmitTurn
  <2>2. u = <<activeTurn + 1, "initial">> => u[2] # "final"
    OBVIOUS
  <2> QED
    BY <1>0, <2>1, <2>2
<1> QED
  BY <1>1, <1>2, <1>3, NextSplit

\* Of the speeches of a turn at most one is on its way.
LEMMA OnlyOne ==
  ASSUME SpeaksOnce, NEW s \in Speeches, NEW u \in Speeches, Turn(s) = Turn(u), u # s,
         pc[s] \notin {"none", "done"}
  PROVE  pc[u] \in {"none", "done"}
<1>1. s = <<Turn(s), "initial">>
  BY SpeechShape DEF SpeaksOnce
<1>2. u = <<Turn(u), "final">>
  BY <1>1, SpeechShape
<1> QED
  BY <1>2 DEF SpeaksOnce

\* A speech that is over or has been heard asks nothing of fence and coordinator.
LEMMA OverIsInTune ==
  ASSUME NEW s \in Speeches, pc'[s] \in {"none", "emitting", "aborting", "done"}
  PROVE  InTune(s)'
BY DEF InTune, Suspended, Exchanging

\* What a speech of the active turn does concerns that turn alone.
LEMMA ActiveSteps ==
  ASSUME Types, Courses, SpeaksOnce, PlaysTheLease,
         NEW s \in Speeches, Speech(s), Turn(s) = activeTurn, InTune(s)',
         agent'.phase = "playing" => Owned(fence', agent'.turn)
  PROVE  PlaysTheLease'
<1>1. activeTurn' = activeTurn
  BY OwnStep
<1>2. ASSUME NEW u \in Speeches, Turn(u) = activeTurn, u # s PROVE InTune(u)'
  <2>1. pc'[u] = pc[u]
    BY <1>2, OthersStay
  <2>2. pc[u] \in {"none", "done"}
    BY <1>2, MovesOnItsWay, OnlyOne
  <2> QED
    BY <2>1, <2>2, OverIsInTune
<1> QED
  BY <1>1, <1>2 DEF PlaysTheLease

\* What an exchange would fall back to is what it falls back to.
LEMMA AbandonFallsBack ==
  ASSUME NEW f \in Fence, FenceInOrder(f)
  PROVE  /\ Abandon(f).pending = NoReplacement
         /\ Abandon(f).acknowledged \in {f.acknowledged, NoReplacement}
         /\ Base(Abandon(f)) = Base(f)
         /\ f.pending = NoReplacement \/ f.acknowledged = NoReplacement =>
              Abandon(f).acknowledged = NoReplacement /\ Abandon(f).lease = Base(f)
<1>1. CASE f.pending # NoReplacement
  BY <1>1, AbandonShape DEF Base
<1>2. CASE f.pending = NoReplacement /\ f.acknowledged = NoReplacement
  BY <1>2, AbandonShape DEF Base
<1>3. CASE f.pending = NoReplacement /\ f.acknowledged # NoReplacement
  BY <1>3, AbandonShape DEF Base, FenceInOrder
<1> QED
  BY <1>1, <1>2, <1>3

\* Nothing is taken from the turn that owns the stream but the lease itself.
LEMMA StaysOwned ==
  ASSUME NEW f \in Fence, NEW t
  PROVE  /\ Owned(f, t) => Owned(Retain(f), t) /\ Owned(Abandon(f), t) /\ Owned(Release(f), t)
         /\ Owned(Revoke(f), t)
BY RetainShape, AbandonShape, ReleaseShape, RevokeShape DEF Owned, HasLease

\* A fresh lease is owned by its turn.
LEMMA FreshIsOwned ==
  ASSUME NEW f \in Fence, NEW t \in Nat
  PROVE  Owned(Activate(f, t), t)
BY ActivateShape, NewLeaseShape DEF Owned

\* The lease a speech gives up on was owned by the turn the coordinator held on to.
LEMMA RestoredIsOwned ==
  ASSUME NEW f \in Fence, FenceInOrder(f), NEW t,
         f.pending = NoReplacement \/ f.acknowledged = NoReplacement,
         Base(f) = NoLease \/ Base(f).turn = t
  PROVE  Owned(Abandon(f), t)
BY AbandonFallsBack DEF Owned, HasLease

\* What the callbacks leave of turn, phase and retained turn.
LEMMA CallbackFields ==
  ASSUME NEW c \in AgentState, NEW t \in Nat, NEW e \in Nat
  PROVE  /\ LET d == FailTurn(c, t, e) IN
              d = c \/ (c.epoch = e /\ c.turn = t /\ d.phase = "failed" /\ d.turn = c.turn)
         /\ LET d == OutputLost(c, t, e) IN
              d = c \/ (d.phase = "failed" /\ d.turn = c.turn)
         /\ LET d == PlaybackFinished(c, t, e) IN
              d = c \/ (c.phase = "playing" /\ d.phase = "completed" /\ d.turn = c.turn)
         /\ LET d == PlaybackStarted(c, t, e) IN
              d = c \/ (c.turn = t /\ d.phase = "playing" /\ d.turn = t)
         /\ LET d == AwaitCutover(c, t, e) IN
              \/ d = c /\ (c.turn # t \/ c.epoch # e \/ c.phase # "synthesizing")
              \/ /\ c.phase = "synthesizing" /\ d.phase = "cutover_pending"
                 /\ d.turn = c.turn /\ d.retained = c.retained
         /\ LET d == RestoreRetained(c, t, e) IN
              \/ d = c
              \/ /\ c.turn = t /\ c.phase = "cutover_pending" /\ c.retained # NoTurn
                 /\ d.phase = "playing" /\ d.turn = c.retained
         /\ LET d == StartSynthesizing(c, t, e) IN
              \/ d = c
              \/ c.turn = t /\ c.phase = "playing"
              \/ d.turn = c.turn /\ d.phase = "synthesizing"
                 /\ (d.retained = NoTurn \/ (c.phase = "reasoning" /\ d.retained = c.retained))
BY DEF FailTurn, OutputLost, PlaybackFinished, PlaybackStarted, AwaitCutover, RestoreRetained,
       StartSynthesizing, Advance, AgentState, NoTurn

\* A new turn holds on to the turn that plays, and to no other.
LEMMA AdmitRetains ==
  ASSUME Types, Coordinated, NEW speaks \in BOOLEAN, AdmitTurn(speaks), agent'.retained # NoTurn
  PROVE  agent.phase = "playing" /\ agent'.retained = agent.turn
<1> DEFINE t == activeTurn + 1
           fenced == CancelTurn(agent, agent.turn, activeTurn)
           held == HasPlayback(fence) \/ fenced.phase = "playing"
           queued == Enqueue(fenced, t, t, held)
<1>1. /\ activeTurn \in Nat /\ t \in Nat /\ agent \in AgentState /\ agent.epoch = activeTurn
      /\ agent' = IF speaks THEN StartSynthesizing(queued, t, t)
                  ELSE IF t \in Operating THEN queued
                  ELSE CompleteWithoutOutput(queued, t, t)
  BY Facts DEF AdmitTurn, Admitted, Coordinated
<1>2. /\ fenced \in AgentState /\ fenced.epoch = agent.epoch /\ fenced.turn = agent.turn
      /\ fenced.phase \in {agent.phase, "cancelled"}
  BY <1>1, AdvanceShape DEF CancelTurn, Phases
<1>3. held \in BOOLEAN /\ fenced.epoch < t
  BY <1>1, <1>2
<1> HIDE DEF fenced, held
<1>4. /\ queued \in AgentState /\ queued.phase = "reasoning"
      /\ queued.retained = IF held /\ fenced.phase = "playing" THEN fenced.turn ELSE NoTurn
  BY <1>1, <1>2, <1>3, EnqueueShape
<1> HIDE DEF queued, t
<1>5. agent'.retained = queued.retained
  BY <1>1, <1>4, AdvanceShape DEF StartSynthesizing, CompleteWithoutOutput, Phases
<1> QED
  BY <1>2, <1>4, <1>5

\* A step that leaves the fence alone and moves no coroutine into an exchange.
LEMMA QuietSteps ==
  ASSUME PlaysTheLease, activeTurn' = activeTurn, fence' = fence, out' = out,
         agent' = agent \/ agent'.phase \in {"failed", "completed"},
         \A u \in Speeches :
           \/ pc'[u] \in {"none", "emitting", "aborting", "done"}
           \/ /\ pc'[u] = pc[u]
              /\ cut'[u] = "no" => cut[u] = "no"
              /\ Running(tts'[u]) => Running(tts[u])
              /\ Running(flush'[u]) => Running(flush[u])
  PROVE  PlaysTheLease'
<1>1. ASSUME NEW u \in Speeches, Turn(u) = activeTurn, pc'[u] = pc[u],
             cut'[u] = "no" => cut[u] = "no", Running(tts'[u]) => Running(tts[u]),
             Running(flush'[u]) => Running(flush[u])
      PROVE  InTune(u)'
  <2>1. InTune(u)
    BY <1>1 DEF PlaysTheLease
  <2> QED
    BY <1>1, <2>1 DEF InTune, FallsBack
<1>2. \A u \in Speeches : Turn(u) = activeTurn => InTune(u)'
  BY <1>1, OverIsInTune
<1> QED
  BY <1>2 DEF PlaysTheLease

\* The coordinator knows no turn that is yet to come.
NoTurnToCome == agent.turn <= activeTurn /\ agent.retained <= activeTurn

\* No callback brings one.
LEMMA CallbackTurns ==
  ASSUME NEW c \in AgentState, NEW t \in Nat, NEW e \in Nat,
         NEW d \in {FailTurn(c, t, e), OutputLost(c, t, e), PlaybackFinished(c, t, e),
                    PlaybackStarted(c, t, e), AwaitCutover(c, t, e), RestoreRetained(c, t, e),
                    CompleteWithoutOutput(c, t, e), Advance(c, t, e, {"reasoning"}, "failed"),
                    StartSynthesizing(c, t, e)}
  PROVE  d.turn \in {c.turn, c.retained} /\ d.retained \in {c.retained, c.turn, NoTurn}
BY DEF FailTurn, OutputLost, PlaybackFinished, PlaybackStarted, AwaitCutover, RestoreRetained,
       CompleteWithoutOutput, StartSynthesizing, Advance, AgentState, NoTurn

\* Coroutines only belong to turns that have been submitted.
LEMMA NextNoTurnToCome ==
  ASSUME Types, Courses, Coordinated, NoTurnToCome, [Next]_vars
  PROVE  NoTurnToCome'
<1>0. /\ activeTurn \in Nat /\ agent \in AgentState /\ agent.turn <= activeTurn
      /\ agent.turn \in Nat /\ NoTurn \in Nat /\ agent.retained <= activeTurn /\ NoTurn <= activeTurn
  BY Facts DEF NoTurnToCome, NoTurn
<1>1. CASE \E speaks \in BOOLEAN : AdmitTurn(speaks)
  <2>1. PICK speaks \in BOOLEAN : AdmitTurn(speaks)
    BY <1>1
  <2>2. activeTurn' = activeTurn + 1 /\ agent'.turn = activeTurn'
    BY <2>1, AdmitAgent DEF AdmitTurn
  <2>3. agent'.retained \in {NoTurn, agent.turn}
    BY <2>1, AdmitRetains
  <2> QED
    BY <1>0, <2>2, <2>3 DEF NoTurnToCome
<1>2. CASE \A speaks \in BOOLEAN : ~ AdmitTurn(speaks)
  <2>1. PICK t \in Nat :
           agent' \in {agent, FailTurn(agent, t, t), OutputLost(agent, t, activeTurn),
                       PlaybackFinished(agent, t, activeTurn), PlaybackStarted(agent, t, t),
                       AwaitCutover(agent, t, activeTurn), RestoreRetained(agent, t, activeTurn),
                       CompleteWithoutOutput(agent, t, t),
                       Advance(agent, t, t, {"reasoning"}, "failed"),
                       StartSynthesizing(agent, t, t)}
    BY <1>2, Callbacks
  <2>2. agent'.turn \in {agent.turn, agent.retained}
        /\ agent'.retained \in {agent.retained, agent.turn, NoTurn}
    <3>0. agent \in AgentState /\ activeTurn \in Nat
      BY <1>0
    <3>1. CASE agent' \in {FailTurn(agent, t, t), PlaybackStarted(agent, t, t),
                           CompleteWithoutOutput(agent, t, t), StartSynthesizing(agent, t, t),
                           Advance(agent, t, t, {"reasoning"}, "failed")}
      BY <3>0, <3>1, CallbackTurns
    <3>2. CASE agent' \in {OutputLost(agent, t, activeTurn), PlaybackFinished(agent, t, activeTurn),
                           AwaitCutover(agent, t, activeTurn), RestoreRetained(agent, t, activeTurn)}
      BY <3>0, <3>2, CallbackTurns
    <3> QED
      BY <2>1, <3>1, <3>2
  <2> QED
    BY <1>0, <1>2, <2>2, TurnStays DEF NoTurnToCome
<1> QED
  BY <1>1, <1>2

\* A speech of an older turn: its coroutine can take back an exchange, but not what
\* the exchange falls back to.
LEMMA OlderSteps ==
  ASSUME Types, Courses, Coordinated, HeardInOrder, PlaysTheLease,
         NEW s \in Speeches, Speech(s), Turn(s) # activeTurn
  PROVE  PlaysTheLease'
<1>0. /\ fence \in Fence /\ FenceInOrder(fence) /\ agent \in AgentState /\ activeTurn \in Nat
      /\ agent.epoch = activeTurn /\ Turn(s) \in Nat /\ activeTurn' = activeTurn
  BY Facts, SpeechShape, OwnStep DEF HeardInOrder, Coordinated
<1>1. \A u \in Speeches : Turn(u) = activeTurn =>
        /\ pc'[u] = pc[u] /\ tts'[u] = tts[u] /\ flush'[u] = flush[u] /\ out'[u] = out[u]
        /\ cut'[u] = "no" => cut[u] = "no"
  BY OthersStay
<1>2. agent' = agent \/ agent'.phase = "failed"
  <2>1. ~ Running(tts[s]) /\ ~ Running(flush[s]) /\ pc[s] # "awaited"
    BY DEF Courses, RunningIsActive
  <2>2. CASE Exchange(s) \/ StartFresh(s) \/ DeliverCancellation(s)
    BY <2>1, <2>2 DEF Exchange, ExchangeIsStale, ExchangeExpires, ExchangeTimesOut, AdmitReplacement,
              CommitReplacement, RefuseReplacement, StartFresh, StartOutput, DeliverCancellation,
              EndExchange, RestoredAgent, Counts
  <2>3. CASE \/ BeginSpeech(s) \/ PrepareFreshOutput(s) \/ PrepareReplacement(s)
             \/ RefuseOutput(s) \/ FinishSpeech(s) \/ ProviderFails(s)
    BY <2>1, <2>3 DEF BeginSpeech, PrepareFreshOutput, PrepareReplacement, RefuseOutput, FinishSpeech,
              ProviderFails
  <2>4. CASE AbandonSpeech(s) \/ SpeechTimesOut(s)
    <3>1. \/ agent' \in {agent, FailTurn(agent, Turn(s), Turn(s))}
          \/ agent' = OutputLost(agent, Turn(s), agent.epoch)
      BY <2>4 DEF AbandonSpeech, SpeechTimesOut, Unverified
    <3> QED
      BY <1>0, <3>1, CallbackFields
  <2>5. ASSUME NEW how \in {"speech", "silence", "failure"} PROVE ~ AnswerOperation(s, how)
    BY <2>1 DEF AnswerOperation
  <2> QED
    BY <2>2, <2>3, <2>4, <2>5 DEF Speech, Progress
<1>3. fence' = fence \/ fence' = Abandon(fence)
  <2>1. CASE Exchange(s)
    BY <2>1 DEF Exchange, ExchangeIsStale, ExchangeExpires, ExchangeTimesOut, EndExchange,
                AdmitReplacement, CommitReplacement, Accepted, Counts, RefuseReplacement
  <2>2. CASE \/ (\E how \in {"speech", "silence", "failure"} : AnswerOperation(s, how))
             \/ BeginSpeech(s) \/ PrepareFreshOutput(s) \/ PrepareReplacement(s)
             \/ RefuseOutput(s) \/ StartFresh(s)
    BY <2>2 DEF AnswerOperation, BeginSpeech, PrepareFreshOutput, PrepareReplacement, RefuseOutput,
                StartFresh
  <2>3. CASE \/ FinishSpeech(s) \/ ProviderFails(s) \/ AbandonSpeech(s) \/ SpeechTimesOut(s)
             \/ DeliverCancellation(s)
    BY <2>3 DEF FinishSpeech, ProviderFails, AbandonSpeech, SpeechTimesOut, DeliverCancellation,
                EndExchange
  <2> QED
    BY <2>1, <2>2, <2>3 DEF Speech, Progress
<1>4. \A t : Owned(fence, t) => Owned(fence', t)
  BY <1>0, <1>3, StaysOwned
<1>5. /\ fence'.pending \in {fence.pending, NoReplacement}
      /\ fence'.acknowledged \in {fence.acknowledged, NoReplacement}
      /\ Base(fence') = Base(fence)
  BY <1>0, <1>3, AbandonFallsBack
<1>6. ASSUME NEW u \in Speeches, Turn(u) = activeTurn PROVE InTune(u)'
  <2>1. InTune(u)
    BY <1>6 DEF PlaysTheLease
  <2>2. FallsBack(u) => FallsBack(u)'
    BY <1>1, <1>2, <1>5, <1>6 DEF FallsBack
  <2> QED
    BY <1>1, <1>2, <1>4, <1>6, <2>1, <2>2 DEF InTune
<1> QED
  BY <1>0, <1>2, <1>4, <1>6 DEF PlaysTheLease

\* While the speech of the active turn is prepared nothing plays for the coordinator.
LEMMA PreparedInSilence ==
  ASSUME Types, PlaysTheLease, NEW s \in Speeches, Turn(s) = activeTurn,
         pc[s] \in {"ready"} \cup Suspended
  PROVE  agent.phase # "playing" /\ InTune(s)
BY DEF PlaysTheLease, InTune

\* The speech of the active turn begins.
LEMMA BeginInTune ==
  ASSUME Types, Courses, SpeaksOnce, PlaysTheLease, NEW s \in Speeches, Turn(s) = activeTurn,
         BeginSpeech(s)
  PROVE  PlaysTheLease'
<1>1. /\ pc[s] = "ready" /\ fence' = fence
      /\ agent' \in {agent, StartSynthesizing(agent, Turn(s), Turn(s))}
      /\ pc' = [pc EXCEPT ![s] = IF Running(tts[s]) THEN "synthesizing" ELSE "done"]
  BY DEF BeginSpeech
<1>2. pc'[s] \in {"synthesizing", "done"}
  BY <1>1 DEF Types, TypeOK
<1>3. agent.phase # "playing" /\ InTune(s)
  BY <1>1, PreparedInSilence
<1>4. agent \in AgentState /\ Turn(s) \in Nat
  BY Facts, SpeechShape
<1>5. \/ agent' = agent
      \/ agent'.phase = "synthesizing"
         /\ (agent'.retained = NoTurn \/ (agent.phase = "reasoning" /\ agent'.retained = agent.retained))
  BY <1>1, <1>3, <1>4, CallbackFields
<1>6. agent'.phase # "playing"
  BY <1>3, <1>5
<1>7. pc[s] = "ready" => (agent.phase \in {"reasoning", "synthesizing"} /\ agent.retained # NoTurn
                           => Owned(fence, agent.retained))
  BY <1>3 DEF InTune
<1>8. InTune(s)'
  BY <1>1, <1>2, <1>5, <1>6, <1>7 DEF InTune, Exchanging
<1>9. Speech(s)
  BY DEF Speech, Progress
<1> QED
  BY <1>6, <1>8, <1>9, ActiveSteps

\* It gets a lease of its own, opens an exchange, or neither.
LEMMA PrepareInTune ==
  ASSUME Types, Courses, SpeaksOnce, Coordinated, HeardInOrder, PlaysTheLease,
         NEW s \in Speeches, Turn(s) = activeTurn,
         PrepareFreshOutput(s) \/ PrepareReplacement(s) \/ RefuseOutput(s)
  PROVE  PlaysTheLease'
<1>0. /\ fence \in Fence /\ FenceInOrder(fence) /\ agent \in AgentState /\ activeTurn \in Nat
      /\ agent.epoch = activeTurn /\ Turn(s) \in Nat
  BY Facts, SpeechShape DEF HeardInOrder, Coordinated
<1>1. pc[s] = "synthesizing"
  BY DEF PrepareFreshOutput, PrepareReplacement, RefuseOutput, HasFirstAudio
<1>2. agent.phase # "playing" /\ InTune(s)
  BY <1>1, PreparedInSilence DEF Suspended
<1>3. Speech(s)
  BY DEF Speech, Progress
<1>4. CASE PrepareFreshOutput(s)
  <2>1. /\ agent' = agent /\ fence' = Activate(fence, Turn(s))
        /\ pc' = [pc EXCEPT ![s] = "announcing"] \/ pc' = [pc EXCEPT ![s] = "aborting"]
    BY <1>4 DEF PrepareFreshOutput, Leave
  <2>2. pc'[s] \in {"announcing", "aborting"}
    BY <2>1 DEF Types, TypeOK
  <2>3. Owned(fence', Turn(s))
    BY <1>0, <2>1, FreshIsOwned
  <2>4. InTune(s)'
    BY <1>2, <2>1, <2>2, <2>3 DEF InTune, Exchanging
  <2> QED
    BY <1>2, <1>3, <2>1, <2>4, ActiveSteps
<1>5. CASE RefuseOutput(s)
  <2>1. agent' = agent /\ pc' = [pc EXCEPT ![s] = "aborting"]
    BY <1>5 DEF RefuseOutput, Leave
  <2>2. pc'[s] = "aborting"
    BY <2>1 DEF Types, TypeOK
  <2> QED
    BY <1>2, <1>3, <2>1, <2>2, OverIsInTune, ActiveSteps
<1>6. CASE PrepareReplacement(s)
  <2>1. /\ agent' = AwaitCutover(agent, Turn(s), activeTurn) /\ fence' = Interrupt(fence, Turn(s))
        /\ HasLease(fence) /\ MayCutOver(s)
        /\ pc' = [pc EXCEPT ![s] = "flushing"]
        /\ out' = [out EXCEPT ![s] = fence'.pending.lease.epoch]
    BY <1>6 DEF PrepareReplacement
  <2>2. pc'[s] = "flushing" /\ out'[s] = fence'.pending.lease.epoch
    BY <2>1 DEF Types, TypeOK
  <2>3. /\ fence'.lease = fence.lease /\ fence'.acknowledged = fence.acknowledged
        /\ fence'.pending.lease = NewLease(fence, Turn(s))
    BY <1>0, <2>1, InterruptShape
  <2>4. /\ fence'.pending.lease.turn = Turn(s)
        /\ fence'.pending.lease.epoch = fence.lease.epoch + 1
    BY <1>0, <2>1, <2>3, NewLeaseShape
  <2>5. fence'.acknowledged # NoReplacement => fence'.acknowledged.lease.epoch # out'[s]
    <3>1. fence.acknowledged # NoReplacement => fence.acknowledged.lease = fence.lease
      BY <1>0 DEF FenceInOrder
    <3>2. fence.lease.epoch \in Int
      BY <1>0, FenceShape, LeaseShape
    <3> QED
      BY <2>2, <2>3, <2>4, <3>1, <3>2
  <2>6. /\ agent'.phase # "playing"
        /\ agent'.phase = "cutover_pending" =>
             agent.phase = "synthesizing" /\ agent'.retained = agent.retained
    <3>1. \/ agent' = agent /\ (agent.turn # Turn(s) \/ agent.phase # "synthesizing")
          \/ /\ agent.phase = "synthesizing" /\ agent'.phase = "cutover_pending"
             /\ agent'.retained = agent.retained
      BY <1>0, <2>1, CallbackFields
    <3>2. agent.phase = "cutover_pending" => agent.turn = Turn(s)
      BY DEF Coordinated, Preparing
    <3>3. agent.turn = Turn(s) => agent.phase = "synthesizing"
      BY <2>1 DEF MayCutOver, CutoverPending
    <3> QED
      BY <1>2, <3>1, <3>2, <3>3
  <2>7. agent'.phase = "cutover_pending" /\ agent'.retained # NoTurn =>
          Owned(fence, agent'.retained)
    BY <1>1, <1>2, <2>6 DEF InTune
  <2>8. agent'.phase = "cutover_pending" /\ agent'.retained # NoTurn =>
          /\ fence'.acknowledged = NoReplacement
          /\ Base(fence') = fence.lease /\ fence.lease.turn = agent'.retained
    BY <2>1, <2>3, <2>7 DEF Owned, Base
  <2>9. FallsBack(s)'
    BY <2>2, <2>4, <2>5, <2>8 DEF FallsBack
  <2>10. InTune(s)'
    BY <2>2, <2>6, <2>9 DEF InTune
  <2> QED
    BY <1>3, <2>6, <2>10, ActiveSteps
<1> QED
  BY <1>4, <1>5, <1>6

\* Its exchange is given up, and the coordinator plays on what the fence falls back to.
LEMMA LeaveInTune ==
  ASSUME Types, Courses, SpeaksOnce, Coordinated, HeardInOrder, PlaysTheLease,
         NEW s \in Speeches, Turn(s) = activeTurn,
         \/ ExchangeIsStale(s) \/ ExchangeExpires(s) \/ ExchangeTimesOut(s)
         \/ \E late \in BOOLEAN : RefuseReplacement(s, late)
         \/ DeliverCancellation(s) /\ pc[s] \in Exchanging
  PROVE  PlaysTheLease'
<1>0. /\ fence \in Fence /\ FenceInOrder(fence) /\ agent \in AgentState /\ activeTurn \in Nat
      /\ Turn(s) \in Nat
  BY Facts, SpeechShape DEF HeardInOrder
<1>1. /\ pc[s] \in Exchanging /\ pc'[s] \in {"aborting", "done"} /\ fence' = Abandon(fence)
      /\ agent' \in {agent, RestoredAgent(s)}
  <2>1. Leaves(s)
    BY LeavesShape
  <2>2. agent' \in {agent, RestoredAgent(s)}
    BY DEF ExchangeIsStale, ExchangeExpires, ExchangeTimesOut, RefuseReplacement,
           DeliverCancellation, EndExchange
  <2> QED
    BY <2>1, <2>2 DEF Leaves
<1>2. agent.phase # "playing" /\ InTune(s)
  BY <1>1, PreparedInSilence DEF Suspended, Exchanging
<1>3. agent'.phase = "playing" => Owned(fence', agent'.turn)
  <2> SUFFICES ASSUME agent'.phase = "playing" PROVE Owned(fence', agent'.turn)
    OBVIOUS
  <2>1. agent' = RestoreRetained(agent, Turn(s), activeTurn) /\ Running(flush[s])
    BY <1>1, <1>2 DEF RestoredAgent
  <2>2. /\ agent.phase = "cutover_pending" /\ agent.retained # NoTurn
        /\ agent'.turn = agent.retained
    BY <1>0, <1>2, <2>1, CallbackFields
  <2>3. FallsBack(s)
    BY <1>1, <1>2, <2>1 DEF InTune
  <2> QED
    BY <1>0, <1>1, <2>2, <2>3, RestoredIsOwned DEF FallsBack
<1>4. Speech(s)
  BY DEF Speech, Progress, Exchange
<1> QED
  BY <1>1, <1>3, <1>4, OverIsInTune, ActiveSteps

\* Its first frame goes out, or its task no longer counts.
LEMMA StartInTune ==
  ASSUME Types, Courses, SpeaksOnce, HeardInOrder, PlaysTheLease,
         NEW s \in Speeches, Turn(s) = activeTurn, StartFresh(s) \/ CommitReplacement(s)
  PROVE  PlaysTheLease'
<1>0. /\ fence \in Fence /\ FenceInOrder(fence) /\ agent \in AgentState
      /\ Turn(s) \in Nat
  BY Facts, SpeechShape DEF HeardInOrder
<1>1. pc[s] \in {"announcing", "admitting"} /\ StartOutput(s)
  BY DEF StartFresh, CommitReplacement, Resumes
<1>2. agent.phase # "playing" /\ InTune(s)
  BY <1>1, PreparedInSilence DEF Suspended
<1>3. pc'[s] \in {"emitting", "aborting"}
  <2>1. pc' = [pc EXCEPT ![s] = "emitting"] \/ pc' = [pc EXCEPT ![s] = "aborting"]
    BY <1>1 DEF StartOutput, Leave
  <2> QED
    BY <2>1 DEF Types, TypeOK
<1>4. ASSUME Running(tts[s]) PROVE Owned(fence', Turn(s))
  <2>1. CASE StartFresh(s)
    BY <1>2, <1>4, <2>1 DEF StartFresh, Resumes, InTune
  <2>2. CASE CommitReplacement(s)
    <3>1. /\ pc[s] = "admitting" /\ Running(flush[s]) /\ fence' = Commit(fence)
          /\ fence.acknowledged # NoReplacement /\ fence.acknowledged.lease.epoch = out[s]
          /\ fence.lease = fence.acknowledged.lease
      BY <2>2 DEF CommitReplacement, Resumes, Accepted, Counts, Committable
    <3>2. FallsBack(s)
      BY <1>2, <3>1 DEF InTune, Exchanging
    <3>3. fence.lease.turn = Turn(s) /\ fence.pending = NoReplacement
      BY <3>1, <3>2 DEF FallsBack
    <3> QED
      BY <1>0, <3>1, <3>3, CommitShape DEF Owned
  <2> QED
    BY <2>1, <2>2
<1>5. agent'.phase = "playing" => Owned(fence', agent'.turn)
  <2>1. CASE agent' # agent
    <3>1. agent' = PlaybackStarted(agent, Turn(s), Turn(s)) /\ Running(tts[s])
      BY <1>1, <2>1 DEF StartOutput, Counts
    <3>2. agent' = agent \/ agent'.turn = Turn(s)
      BY <1>0, <3>1, CallbackFields
    <3> QED
      BY <1>2, <1>4, <3>1, <3>2
  <2>2. CASE agent' = agent
    BY <1>2, <2>2
  <2> QED
    BY <2>1, <2>2
<1>6. Speech(s)
  BY DEF Speech, Progress, Exchange
<1> QED
  BY <1>3, <1>5, <1>6, OverIsInTune, ActiveSteps

\* Sound has acknowledged its flush.
LEMMA AdmitInTune ==
  ASSUME Types, Courses, SpeaksOnce, HeardInOrder, ExchangesStand, PlaysTheLease,
         NEW s \in Speeches, Turn(s) = activeTurn, AdmitReplacement(s)
  PROVE  PlaysTheLease'
<1>0. fence \in Fence /\ FenceInOrder(fence)
  BY Facts DEF HeardInOrder
<1>1. /\ pc[s] = "flushing" /\ UNCHANGED <<fence, agent, out, flush>>
      /\ Polls(s) /\ Running(flush[s]) /\ CanEmit(fence, out[s], activeTurn)
      /\ pc' = [pc EXCEPT ![s] = "admitting"]
  BY DEF AdmitReplacement, Polls, Counts, Acknowledged, taskVars
<1>2. pc'[s] = "admitting"
  BY <1>1 DEF Types, TypeOK
<1>3. agent.phase # "playing" /\ InTune(s)
  BY <1>1, PreparedInSilence DEF Suspended
<1>4. fence.pending = NoReplacement
  <2> SUFFICES ASSUME fence.pending # NoReplacement PROVE FALSE
    OBVIOUS
  <2>1. fence.pending.lease.epoch = out[s]
    BY <1>1 DEF ExchangesStand, Unanswered, Answered, TakenAway
  <2>2. out[s] = fence.pending.previous.epoch
    BY <1>1 DEF CanEmit
  <2>3. fence.pending.lease.epoch = fence.pending.previous.epoch + 1
        /\ fence.pending.previous.epoch \in Int
    BY <1>0, FenceShape, ReplacementShape, LeaseShape DEF FenceInOrder
  <2> QED
    BY <2>1, <2>2, <2>3
<1>5. FallsBack(s)
  BY <1>1, <1>3 DEF InTune, Exchanging
<1>6. FallsBack(s)'
  BY <1>1, <1>4, <1>5 DEF FallsBack
<1>7. InTune(s)'
  BY <1>1, <1>2, <1>3, <1>6 DEF InTune
<1>8. Speech(s)
  BY DEF Speech, Progress, Exchange
<1> QED
  BY <1>1, <1>3, <1>7, <1>8, ActiveSteps

\* It ends, or is told to.
LEMMA EndInTune ==
  ASSUME Types, Courses, Coordinated, PlaysTheLease,
         NEW s \in Speeches, Turn(s) = activeTurn,
         \/ FinishSpeech(s) \/ ProviderFails(s) \/ AbandonSpeech(s) \/ SpeechTimesOut(s)
         \/ DeliverCancellation(s) /\ pc[s] \notin Exchanging
  PROVE  PlaysTheLease'
<1>0. /\ agent \in AgentState /\ activeTurn \in Nat /\ agent.epoch = activeTurn
      /\ Turn(s) \in Nat
  BY Facts, SpeechShape DEF Coordinated
<1>1. UNCHANGED <<activeTurn, fence, out, flush>>
  BY DEF FinishSpeech, ProviderFails, AbandonSpeech, SpeechTimesOut, DeliverCancellation, taskVars
<1>2. agent' = agent \/ agent'.phase \in {"failed", "completed"}
  <2>1. \/ agent' \in {agent, FailTurn(agent, Turn(s), Turn(s))}
        \/ agent' = OutputLost(agent, Turn(s), agent.epoch)
    BY DEF FinishSpeech, ProviderFails, AbandonSpeech, SpeechTimesOut, DeliverCancellation,
           Unverified
  <2> QED
    BY <1>0, <2>1, CallbackFields
<1>3. /\ pc'[s] \in {"aborting", "done"} \/ pc'[s] = pc[s]
      /\ pc'[s] = pc[s] => pc[s] \in {"aborting", "done"} \/ SpeechTimesOut(s)
  <2>1. \/ SpeechTimesOut(s) \/ pc' = [pc EXCEPT ![s] = "aborting"]
        \/ pc' = [pc EXCEPT ![s] = "done"]
    BY DEF FinishSpeech, ProviderFails, AbandonSpeech, DeliverCancellation, Leave
  <2>2. SpeechTimesOut(s) => pc' = pc
    BY DEF SpeechTimesOut
  <2> QED
    BY <2>1, <2>2 DEF Types, TypeOK
<1>4. SpeechTimesOut(s) => cut'[s] # "no" /\ ~ Running(tts'[s])
  <2>1. SpeechTimesOut(s) =>
          /\ tts' = [tts EXCEPT ![s] = Settle(@, "timed_out")]
          /\ cut'[s] = IF s \in {s} /\ cut[s] = "no" THEN "abandoned" ELSE cut[s]
    BY DEF SpeechTimesOut, Cut
  <2>2. SpeechTimesOut(s) => tts'[s] = Settle(tts[s], "timed_out")
    BY <2>1, Facts
  <2> QED
    BY <2>1, <2>2, Facts, SettleShape DEF Outcomes
<1>5. Speech(s)
  BY DEF Speech, Progress
<1>6. \A u \in Speeches :
        \/ pc'[u] \in {"none", "emitting", "aborting", "done"}
        \/ /\ pc'[u] = pc[u]
           /\ cut'[u] = "no" => cut[u] = "no"
           /\ Running(tts'[u]) => Running(tts[u])
           /\ Running(flush'[u]) => Running(flush[u])
  <2>1. ASSUME NEW u \in Speeches, u # s
        PROVE  /\ pc'[u] = pc[u] /\ tts'[u] = tts[u] /\ flush'[u] = flush[u]
               /\ cut'[u] = "no" => cut[u] = "no"
    BY <1>5, <2>1, OthersStay
  <2> QED
    BY <1>1, <1>3, <1>4, <2>1
<1> QED
  BY <1>1, <1>2, <1>6, QuietSteps

\* Nothing else takes the stream from the turn that plays, or plays another.
LEMMA ElsewhereInTune ==
  ASSUME Types, Coordinated, HeardInOrder, PlaysTheLease, [Next]_vars, Elsewhere
  PROVE  PlaysTheLease'
<1>0. /\ fence \in Fence /\ FenceInOrder(fence) /\ agent \in AgentState /\ activeTurn \in Nat
      /\ agent.turn \in Nat /\ agent.epoch = activeTurn
  BY Facts DEF HeardInOrder, Coordinated
<1>1. /\ UNCHANGED <<activeTurn, out>>
      /\ \A u \in Speeches : /\ pc'[u] = pc[u]
                             /\ cut'[u] = "no" => cut[u] = "no"
                             /\ Running(tts'[u]) => Running(tts[u])
                             /\ Running(flush'[u]) => Running(flush[u])
  <2>1. UNCHANGED <<activeTurn, out>>
    BY DEF Elsewhere, Dispatch, ReceiveReady, ReceiveAck, ReceiveFinished, Control, elsewhere,
           LoseSink, RevokeIdentity, ChangeTrust, vars, speechVars
  <2> QED
    BY <2>1, ElsewhereStay DEF Running
<1>2. \/ agent' = agent
      \/ agent' = PlaybackFinished(agent, agent.turn, activeTurn)
      \/ agent' = OutputLost(agent, agent.turn, agent.epoch)
  BY <1>0 DEF Elsewhere, Dispatch, ReceiveReady, ReceiveAck, ReceiveFinished, FinishedAgent,
     Control, elsewhere, LoseSink, OutputIsLost, RevokeIdentity, ChangeTrust, vars
<1>3. agent' = agent \/ agent'.phase \in {"failed", "completed"}
  BY <1>0, <1>2, CallbackFields
<1>4. CASE fence' = fence
  BY <1>1, <1>3, <1>4, QuietSteps
<1>5. CASE FinishesTheLease \/ fence' = Revoke(fence)
  <2>1. \A t : Owned(fence', t)
    <3>1. CASE FinishesTheLease
      BY <1>0, <3>1, FinishedIsHeard, ReleaseShape DEF FinishesTheLease, Owned, HasLease
    <3>2. CASE fence' = Revoke(fence)
      BY <1>0, <3>2, StaysOwned
    <3> QED
      BY <1>5, <3>1, <3>2
  <2>2. Base(fence') = NoLease
    <3>1. fence'.lease = NoLease
      BY <1>0, <1>5, ReleaseShape, RevokeShape DEF FinishesTheLease
    <3> QED
      BY <2>1, <3>1 DEF Owned, Base
  <2>3. ASSUME NEW u \in Speeches, Turn(u) = activeTurn PROVE InTune(u)'
    <3>1. InTune(u) /\ pc'[u] = pc[u]
      BY <1>1, <2>3 DEF PlaysTheLease
    <3>2. FallsBack(u)'
      BY <2>1, <2>2 DEF FallsBack, Owned
    <3> QED
      BY <1>3, <2>1, <3>1, <3>2 DEF InTune
  <2> QED
    BY <1>1, <2>1, <2>3 DEF PlaysTheLease
<1>6. CASE AnswersTheFlush /\ fence' # fence
  <2>1. Head(fromSound).request \in Nat
    BY <1>6, ReceiveShape DEF AnswersTheFlush, ReceiveAck
  <2>2. /\ fence.pending # NoReplacement /\ fence'.acknowledged = fence.pending
        /\ fence'.pending = NoReplacement /\ agent' = agent
    BY <1>0, <1>6, <2>1, AcknowledgeShape DEF AnswersTheFlush, ReceiveAck
  <2>3. Base(fence') = fence.lease
    BY <1>0, <2>2 DEF Base, FenceInOrder
  <2>4. \A t : ~ Owned(fence, t)
    BY <2>2 DEF Owned
  <2>5. ASSUME NEW u \in Speeches, Turn(u) = activeTurn PROVE InTune(u)'
    <3>1. InTune(u)
      BY <2>5 DEF PlaysTheLease
    <3>2. FallsBack(u) => FallsBack(u)'
      BY <1>1, <2>2, <2>3, <2>5 DEF FallsBack, Base
    <3> QED
      BY <1>1, <2>2, <2>4, <2>5, <3>1, <3>2 DEF InTune
  <2> QED
    BY <1>1, <2>2, <2>4, <2>5 DEF PlaysTheLease
<1>7. fence' = fence \/ AnswersTheFlush \/ FinishesTheLease \/ fence' = Revoke(fence)
  <2>1. CASE ReceiveFinished
    <3>1. Head(fromSound).kind = "finished"
      BY <2>1 DEF ReceiveFinished, Receives
    <3> QED
      BY <2>1, <3>1 DEF ReceiveFinished, FinishesTheLease
  <2>2. CASE ReceiveAck
    BY <2>2 DEF ReceiveAck, TellFence, AnswersTheFlush
  <2>3. CASE \/ ReceiveReady \/ Control \/ LoseSink \/ RevokeIdentity \/ ChangeTrust
             \/ UNCHANGED vars
    BY <2>3 DEF ReceiveReady, Control, elsewhere, LoseSink, RevokeIdentity, ChangeTrust, vars
  <2> QED
    BY <2>1, <2>2, <2>3 DEF Elsewhere, Dispatch
<1> QED
  BY <1>4, <1>5, <1>6, <1>7

\* A new turn holds on to the turn that plays, which owns the stream.
LEMMA AdmitPlaysOn ==
  ASSUME Types, Courses, Coordinated, PlaysTheLease, NEW speaks \in BOOLEAN, AdmitTurn(speaks)
  PROVE  PlaysTheLease'
<1>1. agent'.phase \in {"reasoning", "synthesizing", "completed"} /\ fence' = Retain(fence)
  BY AdmitAgent DEF AdmitTurn
<1>2. agent'.retained # NoTurn => Owned(fence', agent'.retained)
  <2>1. agent'.retained # NoTurn => Owned(fence, agent'.retained)
    BY AdmitRetains DEF PlaysTheLease
  <2> QED
    BY <1>1, <2>1, Facts, StaysOwned
<1>3. ASSUME NEW u \in Speeches PROVE InTune(u)'
  <2>1. ~ Running(flush'[u]) /\ (Running(tts'[u]) => pc'[u] = "ready")
    BY AdmitTasks
  <2> QED
    BY <1>1, <1>2, <2>1 DEF InTune
<1> QED
  BY <1>1, <1>3 DEF PlaysTheLease

\* Every step keeps coordinator and fence in tune about who is heard.
LEMMA NextPlaysTheLease ==
  ASSUME Types, Courses, SpeaksOnce, Coordinated, HeardInOrder, ExchangesStand, PlaysTheLease,
         [Next]_vars
  PROVE  PlaysTheLease'
<1>1. ASSUME NEW s \in Speeches, Speech(s), Turn(s) = activeTurn PROVE PlaysTheLease'
  <2>1. \A how : ~ AnswerOperation(s, how)
    BY DEF SpeaksOnce, AnswerOperation
  <2>2. CASE BeginSpeech(s)
    BY <1>1, <2>2, BeginInTune
  <2>3. CASE PrepareFreshOutput(s) \/ PrepareReplacement(s) \/ RefuseOutput(s)
    BY <1>1, <2>3, PrepareInTune
  <2>4. CASE \/ ExchangeIsStale(s) \/ ExchangeExpires(s) \/ ExchangeTimesOut(s)
             \/ (\E late \in BOOLEAN : RefuseReplacement(s, late))
             \/ DeliverCancellation(s) /\ pc[s] \in Exchanging
    BY <1>1, <2>4, LeaveInTune
  <2>5. CASE StartFresh(s) \/ CommitReplacement(s)
    BY <1>1, <2>5, StartInTune
  <2>6. CASE AdmitReplacement(s)
    BY <1>1, <2>6, AdmitInTune
  <2>7. CASE \/ FinishSpeech(s) \/ ProviderFails(s) \/ AbandonSpeech(s) \/ SpeechTimesOut(s)
             \/ DeliverCancellation(s) /\ pc[s] \notin Exchanging
    BY <1>1, <2>7, EndInTune
  <2> QED
    BY <1>1, <2>1, <2>2, <2>3, <2>4, <2>5, <2>6, <2>7 DEF Speech, Progress, Exchange
<1>2. ASSUME NEW s \in Speeches, Speech(s), Turn(s) # activeTurn PROVE PlaysTheLease'
  BY <1>2, OlderSteps
<1> QED
  BY <1>1, <1>2, ElsewhereInTune, AdmitPlaysOn, NextSplit

\* A step that completes the turn of the coordinator is Sound's report about its lease.
LEMMA CompletesTheLease ==
  ASSUME Types, Courses, Coordinated, HeardInOrder, PlaysTheLease, NoTurnToCome, [Next]_vars,
         agent.phase \in {"synthesizing", "cutover_pending", "playing"},
         agent'.phase = "completed", agent'.turn = agent.turn
  PROVE  fence.lease.turn = agent.turn /\ fence'.lease = NoLease
<1>0. /\ fence \in Fence /\ agent \in AgentState /\ activeTurn \in Nat
      /\ agent.turn \in Nat /\ agent.turn <= activeTurn /\ agent.epoch = activeTurn
  BY Facts DEF NoTurnToCome, Coordinated
<1>1. ~ \E speaks \in BOOLEAN : AdmitTurn(speaks)
  <2> SUFFICES ASSUME NEW speaks \in BOOLEAN, AdmitTurn(speaks) PROVE FALSE
    OBVIOUS
  <2>1. activeTurn' = activeTurn + 1 /\ agent'.turn = activeTurn'
    BY AdmitAgent DEF AdmitTurn
  <2> QED
    BY <1>0, <2>1
<1>2. ~ \E s \in Speeches : Speech(s)
  <2> SUFFICES ASSUME NEW s \in Speeches, Speech(s) PROVE FALSE
    OBVIOUS
  <2> DEFINE t == Turn(s)
  <2>1. t \in Nat
    BY SpeechShape
  <2>2. \/ agent' \in {agent, FailTurn(agent, t, t), OutputLost(agent, t, activeTurn),
                      PlaybackStarted(agent, t, t), AwaitCutover(agent, t, activeTurn),
                      RestoreRetained(agent, t, activeTurn), CompleteWithoutOutput(agent, t, t),
                      Advance(agent, t, t, {"reasoning"}, "failed")}
        \/ agent' = StartSynthesizing(agent, t, t)
    BY SpeechCallbacks
  <2> HIDE DEF t
  <2> QED
    BY <1>0, <2>1, <2>2 DEF FailTurn, OutputLost, PlaybackStarted, AwaitCutover, RestoreRetained,
       CompleteWithoutOutput, StartSynthesizing, Advance, AgentState
<1>3. CASE Elsewhere
  <2>1. CASE ReceiveFinished
    <3>1. /\ HasLease(fence) /\ fence' = Release(fence)
          /\ agent' = PlaybackFinished(agent, agent.turn, activeTurn)
      BY <1>0, <2>1 DEF ReceiveFinished, Finishable, FinishedAgent
    <3>2. agent.phase = "playing"
      BY <1>0, <3>1, CallbackFields
    <3> QED
      BY <1>0, <3>1, <3>2, ReleaseShape DEF PlaysTheLease, Owned
  <2>2. CASE LoseSink
    BY <1>0, <2>2, CallbackFields DEF LoseSink, OutputIsLost
  <2>3. CASE \/ ReceiveReady \/ ReceiveAck \/ Control \/ RevokeIdentity \/ ChangeTrust
             \/ UNCHANGED vars
    BY <2>3 DEF ReceiveReady, ReceiveAck, Control, elsewhere, RevokeIdentity, ChangeTrust, vars
  <2> QED
    BY <1>3, <2>1, <2>2, <2>3 DEF Elsewhere, Dispatch
<1> QED
  BY <1>1, <1>2, <1>3, NextSplit

\* A turn that has begun to speak completes only by Sound's report about its own lease, which
\* gives the stream back, whatever goes wrong: as long as no turn has an operation, and
\* so a second speech.
THEOREM CompletedByOwnFinish ==
  ASSUME Operating = {}
  PROVE  Spec => CompletedByItsOwnFinish
<1> DEFINE Completes == /\ agent.phase \in {"synthesizing", "cutover_pending", "playing"}
                        /\ agent'.phase = "completed" /\ agent'.turn = agent.turn
           Known == Types /\ Courses /\ HeardInOrder /\ RequestsAreNumbered
           Mine == /\ Quiet /\ ExchangesStand /\ Coordinated /\ NoTurnToCome /\ SpeaksOnce
                   /\ PlaysTheLease
<1>1. Known /\ Mine /\ [Next]_vars => Mine'
  BY NextQuiet, NextExchangesStand, NextCoordinated, NextNoTurnToCome, NextSpeaksOnce,
     NextPlaysTheLease
<1>2. Init => Mine
  <2> SUFFICES ASSUME Init PROVE Mine
    OBVIOUS
  <2>1. /\ agent = AgentInit /\ activeTurn = NoTurn
        /\ \A s \in Speeches : pc[s] = "none"
    BY DEF Init
  <2>2. Coordinated /\ NoTurnToCome
    BY <2>1 DEF Coordinated, NoTurnToCome, AgentInit, NoTurn, Preparing
  <2>3. SpeaksOnce /\ PlaysTheLease
    BY <2>1 DEF SpeaksOnce, PlaysTheLease, InTune, AgentInit, Suspended, Exchanging
  <2> QED
    BY <2>2, <2>3, InitExchangesStand
<1>3. Known /\ Mine /\ [Next]_vars =>
        [Completes => fence.lease.turn = agent.turn /\ fence'.lease = NoLease]_vars
  BY CompletesTheLease
<1>4. Spec => []Known
  <2>1. Spec => []Types
    BY InitTypes, NextTypes, PTL DEF Spec
  <2> QED
    BY <2>1, SpeechesInOrder, FenceKnowsWhatWasHeard, PTL
<1> HIDE DEF Known, Mine
<1> QED
  BY <1>1, <1>2, <1>3, <1>4, PTL DEF Spec, CompletedByItsOwnFinish

-----------------------------------------------------------------------------
(* The stream as a listener knows it                                       *)

LeasesOf(f) == {f.lease, f.pending.previous, f.pending.lease, f.acknowledged.previous,
                f.acknowledged.lease}

\* Every operation of the fence but two makes do with the leases it has.
LEMMA LeasesStay ==
  ASSUME NEW f \in Fence
  PROVE  /\ LeasesOf(Retain(f)) = LeasesOf(f)
         /\ LeasesOf(Abandon(f)) \subseteq LeasesOf(f) \cup {NoLease}
         /\ LeasesOf(Commit(f)) \subseteq LeasesOf(f) \cup {NoLease}
         /\ LeasesOf(Release(f)) \subseteq LeasesOf(f) \cup {NoLease}
         /\ LeasesOf(Revoke(f)) \subseteq LeasesOf(f) \cup {NoLease}
         /\ \A r \in Nat : LeasesOf(Acknowledge(f, r)) \subseteq LeasesOf(f) \cup {NoLease}
<1>0. NoReplacement.previous = NoLease /\ NoReplacement.lease = NoLease
  BY DEF NoReplacement
<1>1. LeasesOf(Retain(f)) = LeasesOf(f)
  BY RetainShape DEF LeasesOf
<1>2. LeasesOf(Abandon(f)) \subseteq LeasesOf(f) \cup {NoLease}
  <2>1. /\ Abandon(f).lease \in {f.lease, f.acknowledged.previous}
        /\ Abandon(f).pending = NoReplacement
        /\ Abandon(f).acknowledged \in {f.acknowledged, NoReplacement}
    BY DEF Abandon, Fence
  <2> QED
    BY <1>0, <2>1 DEF LeasesOf
<1>3. LeasesOf(Commit(f)) \subseteq LeasesOf(f) \cup {NoLease}
  BY <1>0, CommitShape DEF LeasesOf
<1>4. /\ LeasesOf(Release(f)) \subseteq LeasesOf(f) \cup {NoLease}
      /\ LeasesOf(Revoke(f)) \subseteq LeasesOf(f) \cup {NoLease}
  BY <1>0, ReleaseShape, RevokeShape DEF LeasesOf
<1>5. ASSUME NEW r \in Nat PROVE LeasesOf(Acknowledge(f, r)) \subseteq LeasesOf(f) \cup {NoLease}
  BY <1>0, AcknowledgeShape DEF LeasesOf
<1> QED
  BY <1>1, <1>2, <1>3, <1>4, <1>5

\* The other two give the turn that asks a lease.
LEMMA LeasesGiven ==
  ASSUME NEW f \in Fence, NEW t \in Nat
  PROVE  /\ LeasesOf(Activate(f, t)) \subseteq {NewLease(f, t), NoLease}
         /\ LeasesOf(Interrupt(f, t)) \subseteq LeasesOf(f) \cup {NewLease(f, t)}
<1>0. NoReplacement.previous = NoLease /\ NoReplacement.lease = NoLease
  BY DEF NoReplacement
<1> QED
  BY <1>0, ActivateShape, InterruptShape DEF LeasesOf

\* Every lease a step brings into the fence is one of the active turn.
LEMMA FenceLeases ==
  ASSUME Types, [Next]_vars, NEW l \in LeasesOf(fence'), l \notin LeasesOf(fence)
  PROVE  l = NoLease \/ l.turn = activeTurn
<1>0. fence \in Fence /\ \A s \in Speeches : Turn(s) \in Nat
  BY Facts, SpeechShape
<1>1. CASE fence' \in {fence, Retain(fence), Revoke(fence)}
  BY <1>0, <1>1, LeasesStay
<1>2. ASSUME NEW s \in Speeches, PrepareFreshOutput(s) PROVE l = NoLease \/ l.turn = activeTurn
  BY <1>0, <1>2, LeasesGiven, NewLeaseShape DEF PrepareFreshOutput
<1>3. ASSUME NEW s \in Speeches, PrepareReplacement(s) PROVE l = NoLease \/ l.turn = activeTurn
  BY <1>0, <1>3, LeasesGiven, NewLeaseShape DEF PrepareReplacement
<1>4. ASSUME NEW s \in Speeches, Refuses(s) PROVE l = NoLease \/ l.turn = activeTurn
  <2>1. /\ fence' = Abandon(Interrupt(fence, Turn(s))) /\ Turn(s) = activeTurn
        /\ Interrupt(fence, Turn(s)) \in Fence
    BY <1>0, <1>4, InterruptShape DEF Refuses
  <2>2. l \in LeasesOf(Interrupt(fence, Turn(s))) \cup {NoLease}
    BY <2>1, LeasesStay
  <2> QED
    BY <1>0, <2>1, <2>2, LeasesGiven, NewLeaseShape
<1>5. CASE \E s \in Speeches : CommitReplacement(s)
  BY <1>0, <1>5, LeasesStay DEF CommitReplacement
<1>6. CASE \E s \in Speeches : Leaves(s)
  BY <1>0, <1>6, LeasesStay DEF Leaves
<1>7. CASE AnswersTheFlush
  <2>1. Head(fromSound).request \in Nat
    BY <1>7, ReceiveShape DEF AnswersTheFlush, ReceiveAck
  <2> QED
    BY <1>0, <1>7, <2>1, LeasesStay DEF AnswersTheFlush
<1>8. CASE FinishesTheLease
  BY <1>0, <1>8, LeasesStay DEF FinishesTheLease
<1> QED
  BY <1>1, <1>2, <1>3, <1>4, <1>5, <1>6, <1>7, <1>8, FenceSteps

Offered == {"announcing"} \cup Exchanging

\* A generation that a speech of the active turn has been given is leased to that turn,
\* wherever in the fence it is.  (Generations that were never heard are given
\* out again: to an older turn the number may have meant something else.)
LeasedToTheActive ==
  \A s \in Speeches :
    Turn(s) = activeTurn /\ pc[s] \in Offered =>
      \A l \in LeasesOf(fence) : l.epoch = out[s] => l.turn = activeTurn

\* Every step keeps the generation of an active speech with its turn.
LEMMA NextLeasedToTheActive ==
  ASSUME Types, Courses, HeardInOrder, LeasedToTheActive, [Next]_vars
  PROVE  LeasedToTheActive'
<1> SUFFICES ASSUME NEW s \in Speeches, Turn(s) = activeTurn', pc'[s] \in Offered,
                    NEW l \in LeasesOf(fence'), l.epoch = out'[s]
             PROVE  l.turn = activeTurn'
  BY DEF LeasedToTheActive
<1>0. /\ Offered \subseteq Suspended /\ "synthesizing" \notin Offered /\ "ready" \notin Suspended
      /\ "none" \notin Suspended \cup {"ready"}
      /\ fence \in Fence /\ FenceInOrder(fence) /\ activeTurn \in Nat /\ Turn(s) \in Nat
      /\ Offered \subseteq Leased
  BY Facts, SpeechShape DEF Offered, Suspended, Exchanging, Leased, HeardInOrder
<1>1. /\ pc[s] \in Suspended \cup {"ready"} /\ (pc'[s] = pc[s] \/ Moves(s))
      /\ out'[s] = out[s] \/ PrepareFreshOutput(s) \/ PrepareReplacement(s)
  BY <1>0, StageSteps
<1>2. activeTurn' = activeTurn
  <2>1. CASE Elsewhere
    BY <2>1, ElsewhereStay
  <2>2. CASE \E u \in Speeches : Speech(u)
    BY <2>2, OwnStep
  <2>3. ASSUME NEW speaks \in BOOLEAN, AdmitTurn(speaks) PROVE FALSE
    <3>1. activeTurn' = activeTurn + 1
      BY <2>3, AdmitTasks
    <3>2. Turn(s) > activeTurn
      BY <1>0, <3>1
    <3> QED
      BY <1>0, <1>1, <3>2 DEF Courses, TurnsToCome
  <2> QED
    BY <2>1, <2>2, <2>3, NextSplit
<1>3. CASE PrepareFreshOutput(s)
  <2>1. fence' = Activate(fence, Turn(s)) /\ out' = [out EXCEPT ![s] = fence'.lease.epoch]
    BY <1>3 DEF PrepareFreshOutput
  <2>2. out'[s] = NewLease(fence, Turn(s)).epoch /\ out'[s] \in Nat
    <3>1. out'[s] = fence'.lease.epoch
      BY <2>1 DEF Types, TypeOK
    <3> QED
      BY <1>0, <2>1, <3>1, ActivateShape, NewLeaseShape
  <2>3. l \in {NewLease(fence, Turn(s)), NoLease}
    BY <1>0, <2>1, LeasesGiven
  <2> QED
    BY <1>0, <2>2, <2>3, NewLeaseShape DEF NoLease, NoEpoch
<1>4. CASE PrepareReplacement(s)
  <2>1. /\ fence' = Interrupt(fence, Turn(s)) /\ out' = [out EXCEPT ![s] = fence'.pending.lease.epoch]
        /\ HasLease(fence)
    BY <1>4 DEF PrepareReplacement
  <2>2. out'[s] = NewLease(fence, Turn(s)).epoch /\ out'[s] = fence.lease.epoch + 1
    <3>1. out'[s] = fence'.pending.lease.epoch
      BY <2>1 DEF Types, TypeOK
    <3>2. fence'.pending.lease = NewLease(fence, Turn(s))
      BY <1>0, <2>1, InterruptShape
    <3> QED
      BY <1>0, <2>1, <3>1, <3>2, NewLeaseShape
  <2>3. l \in {fence.lease, NewLease(fence, Turn(s)), fence.acknowledged.previous,
               fence.acknowledged.lease}
    BY <1>0, <2>1, InterruptShape DEF LeasesOf
  <2>4. /\ fence.lease.epoch \in Nat /\ fence.acknowledged.previous.epoch \in Int
        /\ \/ fence.acknowledged.lease = fence.lease
              /\ fence.lease.epoch = fence.acknowledged.previous.epoch + 1
           \/ fence.acknowledged.lease = NoLease /\ fence.acknowledged.previous = NoLease
    BY <1>0, <2>1, FenceShape, LeaseShape, ReplacementShape DEF FenceInOrder, HasLease, NoReplacement
  <2> QED
    BY <1>0, <2>2, <2>3, <2>4, NewLeaseShape DEF NoLease, NoEpoch
<1>5. CASE ~ PrepareFreshOutput(s) /\ ~ PrepareReplacement(s)
  <2>1. pc[s] \in Offered /\ out'[s] = out[s]
    BY <1>0, <1>1, <1>5 DEF Moves, AdmitReplacement, Polls, Offered, Exchanging
  <2>2. out[s] \in Nat
    BY <1>0, <2>1 DEF Types, OutGiven
  <2>3. CASE l \in LeasesOf(fence)
    BY <1>2, <2>1, <2>3 DEF LeasedToTheActive
  <2>4. CASE l \notin LeasesOf(fence)
    BY <1>2, <2>1, <2>2, <2>4, FenceLeases DEF NoLease, NoEpoch
  <2> QED
    BY <2>3, <2>4
<1> QED
  BY <1>3, <1>4, <1>5

\* How speeches that have begun go on: one that is over stays over, and the step
\* that ends one does nothing else to the stream.
LEMMA SpokenSteps ==
  ASSUME Types, Courses, [Next]_vars, NEW s \in Speeches
  PROVE  /\ pc[s] = "done" => pc'[s] = "done"
         /\ pc[s] = "aborting" => pc'[s] \in {"aborting", "done"}
         /\ pc[s] = "emitting" =>
              \/ pc'[s] = "emitting"
              \/ /\ pc'[s] \in {"aborting", "done"}
                 /\ UNCHANGED <<activeTurn, fence, out>>
                 /\ \A u \in Speeches : /\ u # s => pc'[u] = pc[u]
                                        /\ tts'[u].state = "succeeded" <=> Heard(u)
<1> DEFINE Over == pc[s] \in {"aborting", "done", "emitting"}
           Ends == /\ pc'[s] \in {"aborting", "done"}
                   /\ UNCHANGED <<activeTurn, fence, out, tts>>
                   /\ \A u \in Speeches : u # s => pc'[u] = pc[u]
<1>0. \A x \in {"aborting", "done", "emitting"} :
        x \notin {"none", "awaited", "ready"} \cup Suspended
  BY DEF Suspended
<1>1. CASE Elsewhere
  BY <1>1, ElsewhereStay
<1>2. ASSUME NEW speaks \in BOOLEAN, AdmitTurn(speaks), Over PROVE pc'[s] = pc[s]
  <2>1. /\ pc' = [u \in Speeches |->
                    CASE u = <<activeTurn + 1, "initial">> -> IF speaks THEN "ready" ELSE "done"
                      [] u = <<activeTurn + 1, "final">> ->
                           IF activeTurn + 1 \in Operating THEN "awaited" ELSE "done"
                      [] OTHER -> IF pc[u] = "awaited" THEN "done" ELSE pc[u]]
    BY <1>2 DEF AdmitTurn
  <2>2. ~ (Turn(s) > activeTurn) /\ Turn(s) \in Nat /\ activeTurn \in Nat
    BY <1>2, Facts, SpeechShape DEF Courses, TurnsToCome
  <2>3. s # <<activeTurn + 1, "initial">> /\ s # <<activeTurn + 1, "final">>
    BY <2>2 DEF Turn
  <2> QED
    BY <1>2, <2>1, <2>3
<1>3. ASSUME NEW u \in Speeches, Speech(u), u # s PROVE pc'[s] = pc[s]
  BY <1>3, OthersStay
<1>4. ASSUME Speech(s), Over
      PROVE  (pc[s] = "emitting" /\ Ends) \/ pc'[s] = pc[s] \/ (pc[s] = "aborting" /\ pc'[s] = "done")
  <2>0. cut[s] # "no" => pc[s] \in Underway
    BY DEF Courses, CutUnderway
  <2>1. CASE FinishSpeech(s)
    BY <2>1 DEF FinishSpeech, Types, TypeOK, taskVars
  <2>2. CASE ProviderFails(s)
    BY <1>4, <2>2 DEF ProviderFails, Leave, Types, TypeOK, taskVars
  <2>3. CASE DeliverCancellation(s)
    BY <1>0, <1>4, <2>0, <2>3 DEF DeliverCancellation, Types, TypeOK, Underway, Exchanging, Suspended
  <2>4. CASE AbandonSpeech(s)
    BY <2>4 DEF AbandonSpeech, Types, TypeOK
  <2>5. CASE SpeechTimesOut(s)
    BY <1>0, <1>4, <2>5 DEF SpeechTimesOut
  <2>6. CASE \/ \E how \in {"speech", "silence", "failure"} : AnswerOperation(s, how)
             \/ BeginSpeech(s) \/ PrepareFreshOutput(s) \/ PrepareReplacement(s)
             \/ RefuseOutput(s) \/ Exchange(s) \/ StartFresh(s)
    BY <1>0, <1>4, <2>6 DEF AnswerOperation, BeginSpeech, PrepareFreshOutput, PrepareReplacement,
       RefuseOutput, HasFirstAudio, Exchange, ExchangeIsStale, ExchangeExpires, ExchangeTimesOut,
       AdmitReplacement, CommitReplacement, RefuseReplacement, StartFresh, Polls, Resumes, Suspended
  <2> QED
    BY <1>4, <2>1, <2>2, <2>3, <2>4, <2>5, <2>6 DEF Speech, Progress
<1>5. Over => \/ pc[s] = "emitting" /\ Ends
              \/ pc'[s] = pc[s]
              \/ pc[s] = "aborting" /\ pc'[s] = "done"
  BY <1>1, <1>2, <1>3, <1>4, NextSplit, ElsewhereStay
<1> QED
  BY <1>5 DEF Heard

\* A second speech that has been heard comes after a first that is over.
SecondIsSecond ==
  \A s \in Speeches :
    s = <<Turn(s), "final">> /\ Heard(s) => pc[<<Turn(s), "initial">>] = "done"

\* Every step keeps that order.
LEMMA NextSecondIsSecond ==
  ASSUME Types, Courses, SecondIsSecond, [Next]_vars
  PROVE  SecondIsSecond'
<1> SUFFICES ASSUME NEW s \in Speeches, s = <<Turn(s), "final">>, tts'[s].state = "succeeded"
             PROVE  pc'[<<Turn(s), "initial">>] = "done"
  BY DEF SecondIsSecond, Heard
<1> DEFINE first == <<Turn(s), "initial">>
<1>1. first \in Speeches
  BY SpeechShape
<1>2. pc[first] = "done"
  <2>1. CASE Heard(s)
    BY <2>1 DEF SecondIsSecond
  <2>2. CASE ~ Heard(s)
    <3>1. pc[s] \in {"announcing", "admitting"}
      BY <2>2, HeardSteps DEF Begins, StartFresh, CommitReplacement, Resumes
    <3>2. pc[s] \notin Waiting \cup {"done"}
      BY <3>1 DEF Waiting
    <3> QED
      BY <3>2 DEF Courses, OneAtATime
  <2> QED
    BY <2>1, <2>2
<1> HIDE DEF first
<1> QED
  BY <1>1, <1>2, SpokenSteps DEF first

\* A speech that begins comes after all that have begun.
LEMMA BeginsAfter ==
  ASSUME Types, Courses, SecondIsSecond, NEW s \in Speeches, Begins(s), NEW u \in Speeches, Heard(u)
  PROVE  u \in SpeechesBefore(s)
<1>1. /\ pc[s] \in {"announcing", "admitting"} /\ Turn(s) = activeTurn /\ Running(tts[s])
  BY DEF Begins, StartFresh, CommitReplacement, Resumes, Counts
<1>2. /\ Turn(u) \in Nat /\ activeTurn \in Nat
      /\ pc[u] \in {"emitting", "aborting", "done"} /\ ~ (Turn(u) > activeTurn)
  BY Facts, SpeechShape DEF Courses, TurnsToCome, HeardHasSpoken
<1>3. ASSUME Turn(u) = Turn(s) PROVE u[2] = "initial" /\ s[2] = "final"
  <2>1. u # s
    BY <1>1 DEF Heard, Running
  <2>2. CASE u = <<Turn(u), "initial">>
    <3>1. s = <<Turn(s), "final">>
      BY <1>3, <2>1, <2>2, SpeechShape
    <3>2. s[2] = "final" /\ u[2] = "initial"
      BY <2>2, <3>1
    <3> QED
      BY <3>2
  <2>3. CASE u = <<Turn(u), "final">>
    <3>1. s = <<Turn(u), "initial">>
      BY <1>3, <2>1, <2>3, SpeechShape
    <3> QED
      BY <1>1, <2>3, <3>1 DEF SecondIsSecond
  <2> QED
    BY <2>2, <2>3, SpeechShape
<1> QED
  BY <1>1, <1>2, <1>3 DEF SpeechesBefore

\* A speech that begins is heard at once.
LEMMA BeginsAudibly ==
  ASSUME Types, Courses, HeardInOrder, LeasedToTheActive, NEW s \in Speeches, Begins(s)
  PROVE  Audible(s)'
<1>0. /\ fence \in Fence /\ FenceInOrder(fence) /\ fence.lease \in Lease
      /\ fence.lease \in LeasesOf(fence)
  BY Facts, FenceShape DEF HeardInOrder, LeasesOf
<1>1. /\ StartOutput(s) /\ Counts(tts[s], s) /\ Turn(s) = activeTurn
      /\ UNCHANGED <<activeTurn, out>>
      /\ pc[s] \in Offered
  BY DEF Begins, StartFresh, CommitReplacement, Resumes, Counts, Offered, Exchanging
<1>2. pc'[s] = "emitting"
  BY DEF Begins
<1>3. fence.lease.epoch = out[s] /\ fence'.lease = fence.lease
  <2>1. CASE StartFresh(s)
    BY <1>1, <2>1 DEF StartFresh, Resumes, Counts, HeardInOrder, AnnouncedIsNew
  <2>2. CASE CommitReplacement(s)
    BY <1>0, <2>2, CommitShape DEF CommitReplacement, Accepted, Committable
  <2> QED
    BY <2>1, <2>2 DEF Begins
<1>4. fence'.pending # NoReplacement => fence'.pending.previous = fence.lease
  <2>1. CASE StartFresh(s)
    BY <1>0, <2>1 DEF StartFresh, FenceInOrder
  <2>2. CASE CommitReplacement(s)
    BY <1>0, <2>2, CommitShape DEF CommitReplacement, FenceInOrder
  <2> QED
    BY <2>1, <2>2 DEF Begins
<1>5. out[s] \in Nat
  BY <1>1 DEF Types, OutGiven, Leased, Offered, Exchanging
<1>6. HasLease(fence) /\ fence.lease.turn = activeTurn
  BY <1>0, <1>1, <1>3, <1>5, LeaseShape DEF LeasedToTheActive, HasLease
<1>7. CanEmit(fence', out[s], activeTurn)
  BY <1>3, <1>4, <1>6 DEF CanEmit, HasLease
<1> QED
  BY <1>1, <1>2, <1>7 DEF Audible, Playing

\* Of the speeches that have begun only the newest is heard.
OneVoice ==
  /\ \A s \in Speeches :
       Audible(s) => Heard(s) /\ pc[s] = "emitting" /\ \A u \in Speeches : Heard(u) => out[u] <= out[s]
  /\ \A s, u \in Speeches : Audible(s) /\ Audible(u) => s = u

LEMMA FenceHasOneVoice ==
  ASSUME Types, Courses, HeardInOrder, NoStaleAudio
  PROVE  OneVoice
<1>1. ASSUME NEW s \in Speeches, Audible(s) PROVE Heard(s) /\ pc[s] = "emitting" /\ out[s] \in Nat
  <2>1. pc[s] = "emitting" /\ Heard(s)
    BY <1>1 DEF Audible, Playing, Courses, HeardHasSpoken
  <2> QED
    BY <2>1 DEF HeardInOrder, HeardIsPast
<1>2. ASSUME NEW s \in Speeches, NEW u \in Speeches, Audible(s), Heard(u) PROVE out[u] <= out[s]
  <2>1. out[s] \in Nat /\ out[u] \in Nat
    BY <1>1, <1>2 DEF HeardInOrder, HeardIsPast
  <2>2. ~ (out[s] < out[u])
    BY <1>2 DEF NoStaleAudio, Heard
  <2> QED
    BY <2>1, <2>2
<1>3. ASSUME NEW s \in Speeches, NEW u \in Speeches, Audible(s), Audible(u) PROVE s = u
  <2>1. Heard(s) /\ Heard(u) /\ out[s] \in Nat /\ out[u] \in Nat
    BY <1>1, <1>3
  <2>2. out[u] <= out[s] /\ out[s] <= out[u]
    BY <1>2, <1>3, <2>1
  <2> QED
    BY <2>1, <2>2 DEF HeardInOrder, HeardEpochsDiffer, Heard
<1> QED
  BY <1>1, <1>2, <1>3 DEF OneVoice

\* What is known of the stream in every state.
StreamKnown == Types /\ Courses /\ HeardInOrder /\ LeasedToTheActive /\ SecondIsSecond /\ OneVoice

\* The mapped variables, speech by speech.
LEMMA StreamShape ==
  /\ Stream!Begun = {s \in Speeches : Generations[s] # NoEpoch}
  /\ \A s \in Speeches : Generations[s] = IF Heard(s) THEN out[s] ELSE NoEpoch
  /\ \A s : s \in Ended <=> s \in Speeches /\ Heard(s) /\ pc[s] \in {"aborting", "done"}
  /\ \A s : s \in HeardNow <=> s \in Speeches /\ Audible(s)
BY DEF Stream!Begun, Stream!NotBegun, NoEpoch, Generations, Ended, HeardNow, HasBegun, Heard

LEMMA BegunIsHeard ==
  ASSUME StreamKnown
  PROVE  /\ \A s : s \in Stream!Begun <=> s \in Speeches /\ Heard(s)
         /\ \A s \in Speeches : Heard(s) => Generations[s] = out[s] /\ out[s] \in Nat
<1>1. \A s \in Speeches : Heard(s) => out[s] \in Nat
  BY DEF StreamKnown, HeardInOrder, HeardIsPast
<1> QED
  BY <1>1, StreamShape DEF NoEpoch

\* A speech that begins, begins on the stream.
LEMMA BeginMaps ==
  ASSUME StreamKnown, StreamKnown', [Next]_vars, NEW s \in Speeches, Begins(s)
  PROVE  Stream!Begin(s)
<1>0. Types /\ Courses /\ HeardInOrder /\ LeasedToTheActive /\ SecondIsSecond
  BY DEF StreamKnown
<1>1. ~ Heard(s) /\ pc[s] \notin {"aborting", "done", "emitting"} /\ out'[s] = out[s] /\ out[s] \in Nat
  <2>1. pc[s] \in {"announcing", "admitting"} /\ Running(tts[s])
    BY DEF Begins, StartFresh, CommitReplacement, Resumes, Counts
  <2>2. out'[s] = out[s]
    BY DEF Begins, StartFresh, CommitReplacement
  <2> QED
    BY <1>0, <2>1, <2>2, BeginsIsNew DEF Heard, Running
<1>2. Audible(s)' /\ (Heard(s) /\ pc[s] = "emitting")'
  <2>1. Audible(s)'
    BY <1>0, BeginsAudibly
  <2> QED
    BY <2>1 DEF StreamKnown, OneVoice
<1>3. \A u \in Speeches : /\ u # s => (tts'[u].state = "succeeded" <=> Heard(u))
                          /\ Heard(u) => out'[u] = out[u]
  BY <1>0, HeardSteps
<1>4. s \notin Stream!Begun
  BY <1>1, BegunIsHeard
<1>5. Stream!Begun \subseteq [v \in Speeches |-> SpeechesBefore(v)][s]
  BY <1>0, BegunIsHeard, BeginsAfter
<1>6. Generations' = [Generations EXCEPT ![s] = out[s]] /\ Generations'[s] = out[s]
  BY <1>1, <1>2, <1>3 DEF Generations, HasBegun, Heard
<1>7. \A u \in Stream!Begun : Generations[u] < out[s]
  BY <1>0, BegunIsHeard, BeginsIsNew
<1>8. HeardNow' = {s}
  BY <1>2 DEF HeardNow, StreamKnown, OneVoice
<1>9. Ended' = Ended
  <2>1. \A u \in Speeches \ {s} : Heard(u) => ((pc'[u] \in {"aborting", "done"}) <=> (pc[u] \in {"aborting", "done"}))
    <3> SUFFICES ASSUME NEW u \in Speeches \ {s}, Heard(u) PROVE pc'[u] = pc[u]
      OBVIOUS
    <3>1. Speech(s)
      BY DEF Begins, Speech, Progress, Exchange
    <3> QED
      BY <1>0, <3>1, OthersStay
  <2> QED
    BY <1>1, <1>2, <1>3, <2>1 DEF Ended, HasBegun, Heard
<1> QED
  BY <1>1, <1>4, <1>5, <1>6, <1>7, <1>8, <1>9 DEF Stream!Begin

\* A speech that ends leaves the stream as it is for the others.
LEMMA EndMaps ==
  ASSUME StreamKnown, StreamKnown', [Next]_vars, NEW s \in Ended', s \notin Ended,
         \A u \in Speeches : ~ Begins(u)
  PROVE  Stream!End(s)
<1>0. Types /\ Courses /\ HeardInOrder
  BY DEF StreamKnown
<1>1. /\ s \in Speeches /\ tts'[s].state = "succeeded" /\ pc'[s] \in {"aborting", "done"}
      /\ Heard(s)
  BY <1>0, HeardSteps DEF Ended, HasBegun
<1>2. pc[s] = "emitting"
  BY <1>0, <1>1 DEF Courses, HeardHasSpoken, Ended, HasBegun, Heard
<1>3. /\ UNCHANGED <<activeTurn, fence, out>>
      /\ \A u \in Speeches : u # s => pc'[u] = pc[u]
      /\ \A u \in Speeches : tts'[u].state = "succeeded" <=> Heard(u)
  BY <1>0, <1>1, <1>2, SpokenSteps
<1>4. s \in Stream!Begun \ Ended
  BY <1>1, BegunIsHeard
<1>5. Generations' = Generations
  BY <1>3 DEF Generations, HasBegun, Heard
<1>6. Ended' = Ended \cup {s}
  BY <1>1, <1>3 DEF Ended, HasBegun, Heard
<1>7. HeardNow' = HeardNow \ {s}
  <2>1. ~ Audible(s)'
    BY <1>1 DEF Audible, Playing
  <2>2. \A u \in Speeches : u # s => (Audible(u)' <=> Audible(u))
    BY <1>3 DEF Audible, Playing
  <2> QED
    BY <2>1, <2>2 DEF HeardNow
<1> QED
  BY <1>4, <1>5, <1>6, <1>7 DEF Stream!End

\* Any other step leaves the latest speech audible, or none.
LEMMA OtherStepsMap ==
  ASSUME StreamKnown, StreamKnown', [Next]_vars, \A u \in Speeches : ~ Begins(u), Ended' \subseteq Ended
  PROVE  Stream!FallSilent \/ \E s \in Speeches : Stream!TakeUp(s)
<1>0. Types /\ Courses /\ HeardInOrder
  BY DEF StreamKnown
<1>1. \A u \in Speeches : /\ tts'[u].state = "succeeded" <=> Heard(u)
                          /\ Heard(u) => out'[u] = out[u]
  BY <1>0, HeardSteps
<1>2. Generations' = Generations
  BY <1>1 DEF Generations, HasBegun, Heard
<1>3. Ended' = Ended
  <2>1. \A u \in Speeches : pc[u] \in {"aborting", "done"} => pc'[u] \in {"aborting", "done"}
    BY <1>0, SpokenSteps
  <2> QED
    BY <1>1, <2>1 DEF Ended, HasBegun, Heard
<1>4. CASE HeardNow' = {}
  BY <1>2, <1>3, <1>4 DEF Stream!FallSilent
<1>5. ASSUME NEW s \in HeardNow' PROVE Stream!TakeUp(s)
  <2>1. /\ s \in Speeches /\ Audible(s)' /\ (Heard(s) /\ pc[s] = "emitting")'
        /\ \A u \in Speeches : tts'[u].state = "succeeded" => out'[u] <= out'[s]
    BY <1>5 DEF HeardNow, StreamKnown, OneVoice, Heard
  <2>2. HeardNow' = {s}
    BY <1>5, <2>1 DEF HeardNow, StreamKnown, OneVoice
  <2>3. Heard(s) /\ out'[s] = out[s] /\ s \notin Ended
    BY <1>1, <1>3, <2>1 DEF Ended, Heard
  <2>4. \A u \in Speeches : Heard(u) => out[u] <= out[s]
    BY <1>1, <2>1, <2>3
  <2>5. Stream!Latest(s)
    BY <2>1, <2>3, <2>4, BegunIsHeard DEF Stream!Latest
  <2> QED
    BY <1>2, <1>3, <2>2, <2>3, <2>5 DEF Stream!TakeUp
<1> QED
  BY <1>4, <1>5 DEF HeardNow

\* Whatever leases, replacements, exchanges and messages do, a listener gets the stream of
\* OutputStream: speeches take it in their order, each as a newer generation, only the
\* latest falls silent and is taken up again, and one that is over is never heard again.
THEOREM StreamImplemented == Spec => ImplementsStream
<1>1. Init => Stream!StreamInit
  <2> SUFFICES ASSUME Init PROVE Stream!StreamInit
    OBVIOUS
  <2>1. \A s \in Speeches : ~ Heard(s) /\ ~ Audible(s)
    BY DEF Init, NoTask, Heard, Audible, Playing
  <2> QED
    BY <2>1 DEF Stream!StreamInit, Stream!NotBegun, NoEpoch, Generations, Ended, HeardNow, HasBegun,
                Heard
<1>2. StreamKnown /\ StreamKnown' /\ [Next]_vars => [Stream!StreamNext]_(Stream!streamVars)
  <2> SUFFICES ASSUME StreamKnown, StreamKnown', [Next]_vars PROVE Stream!StreamNext
    OBVIOUS
  <2>1. CASE \E s \in Speeches : Begins(s)
    BY <2>1, BeginMaps DEF Stream!StreamNext
  <2>2. CASE (\A u \in Speeches : ~ Begins(u)) /\ ~ (Ended' \subseteq Ended)
    <3>1. PICK s \in Ended' : s \notin Ended
      BY <2>2
    <3>2. s \in Speeches
      BY DEF Ended
    <3> QED
      BY <2>2, <3>1, <3>2, EndMaps DEF Stream!StreamNext
  <2>3. CASE (\A u \in Speeches : ~ Begins(u)) /\ Ended' \subseteq Ended
    BY <2>3, OtherStepsMap DEF Stream!StreamNext
  <2> QED
    BY <2>1, <2>2, <2>3
<1>3. Spec => [](LeasedToTheActive /\ SecondIsSecond)
  <2>1. Types /\ Courses /\ HeardInOrder /\ LeasedToTheActive /\ SecondIsSecond /\ [Next]_vars =>
          (LeasedToTheActive /\ SecondIsSecond)'
    BY NextLeasedToTheActive, NextSecondIsSecond
  <2>2. Init => LeasedToTheActive /\ SecondIsSecond
    BY DEF Init, LeasedToTheActive, SecondIsSecond, Offered, Exchanging, Heard, NoTask
  <2>3. Spec => []Types
    BY InitTypes, NextTypes, PTL DEF Spec
  <2> QED
    BY <2>1, <2>2, <2>3, SpeechesInOrder, FenceKnowsWhatWasHeard, PTL DEF Spec
<1>4. Types /\ Courses /\ HeardInOrder /\ NoStaleAudio => OneVoice
  BY FenceHasOneVoice
<1>5. Spec => []Types
  BY InitTypes, NextTypes, PTL DEF Spec
<1>6. Spec => []StreamKnown
  BY <1>3, <1>4, <1>5, SpeechesInOrder, FenceKnowsWhatWasHeard, NoAudioIsStale, PTL DEF StreamKnown
<1> QED
  BY <1>1, <1>2, <1>6, PTL DEF Spec, ImplementsStream, Stream!StreamSpec

=============================================================================
