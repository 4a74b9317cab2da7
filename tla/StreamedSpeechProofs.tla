------------------------ MODULE StreamedSpeechProofs ------------------------
(***************************************************************************)
(* The theorems about StreamedSpeech, for a reply of any length, frames    *)
(* and queues of any size, and every provider: how a stream that has been  *)
(* heard comes to its end, and that what is heard is the reply, in order.  *)
(* The second rests on an invariant for each part of the way a unit takes: *)
(* from the provider over its queue, the generator, the receiver and the   *)
(* bounded queue to the frames.                                            *)
(***************************************************************************)
EXTENDS StreamedSpeech, TLAPS

-----------------------------------------------------------------------------
(* The types                                                               *)

Stages == {"synthesizing", "getting", "preparing", "emitting", "broken", "awaiting",
           "closing", "finishing", "over"}

ProviderTyped ==
  /\ kind \in Kinds
  /\ server \in [said : 0..Length, fate : {"idle", "running", "done", "failed"},
                 told : BOOLEAN]
  /\ events \in Seq(Item) /\ hand \in [Threads -> Item \cup {Nothing}] /\ settled \in BOOLEAN
  /\ worker \in {"none", "ready", "calling", "waiting", "over"}
  /\ stopped \in BOOLEAN /\ token \in BOOLEAN /\ bound \in BOOLEAN

ReceiverTyped ==
  /\ gen \in {"fresh", "reading", "suspended", "stopping", "joining", "closed"}
  /\ holder \in {"none", "next", "close"} /\ got \in Item \cup {Nothing}
  /\ closing \in {"no", "asked", "done"}
  /\ receiver \in {"looping", "asking", "putting", "over"}
  /\ item \in Item \cup {Nothing} /\ (receiver = "putting" => item \in Item)
  /\ unwanted \in BOOLEAN /\ chunks \in Seq(Item)
  /\ clip \in {"no", "first", "second"} \cup Clips

CoroutineTyped ==
  /\ stage \in Stages
  /\ outcome \in {"none", "spoken", "refused", "failed", "cancelled"}
  /\ last \in BOOLEAN /\ prepared \in BOOLEAN /\ committed \in BOOLEAN
  /\ buffered \in Seq(Units) /\ pending \in Seq(Units) /\ outbox \in Seq(Units)
  /\ played \in Seq(Units)
  /\ ended \in Nat /\ cancels \in Nat

Typed == ProviderTyped /\ ReceiverTyped /\ CoroutineTyped

-----------------------------------------------------------------------------
(* The invariants                                                          *)

\* The coroutine still works on its reply.
Going == stage \in {"synthesizing", "getting", "preparing", "emitting"}

\* While it does, nobody has told the others to stop.
Undisturbed ==
  /\ Going \/ stage = "broken" => ~token /\ ~unwanted /\ closing = "no"
  /\ holder = "close" => closing # "no"
  /\ kind = "whole" => Going \/ stage \in {"broken", "finishing", "over"}
  /\ stage = "synthesizing" => kind = "whole"
  /\ stage = "getting" => kind # "whole"
  /\ kind = "whole" /\ Going => stage = "synthesizing" \/ last

\* What has been heard is ended once, when the coroutine is done with it.
EndedInTime ==
  /\ committed => prepared
  /\ stage \in {"synthesizing", "preparing"} => ~prepared
  /\ stage = "emitting" => prepared
  /\ Going \/ stage = "broken" => ended = 0 /\ outcome = "none"
  /\ stage = "emitting" /\ kind = "whole" => committed \/ outbox # <<>>
  /\ stage = "finishing" => ended = 0 /\ committed /\ outcome = "spoken"
  /\ stage \in {"awaiting", "closing", "over"} =>
       /\ outcome # "none"
       /\ outcome = "refused" => ~committed /\ ended = 0
       /\ outcome = "failed" => ended = IF committed THEN 1 ELSE 0
       /\ outcome = "cancelled" => ended = 0 \/ (ended = 1 /\ committed)
       /\ outcome = "spoken" /\ stage # "over" => ended = 0
       /\ outcome = "spoken" /\ stage = "over" => ended = IF committed THEN 1 ELSE 0

\* The units of s are those that follow the n-th.
Run(s, n) == \A i \in 1..Len(s) : s[i] = n + i

\* What the coroutine has taken from the queue.
Taken == Len(played) + Len(outbox) + Len(pending) + Len(buffered)

\* The numbers of units after which nothing more will come.
Ends ==
  {n \in Nat :
     \/ kind = "raw" /\ server.fate = "done" /\ n = server.said
     \/ kind # "raw" /\ n = Length
     \/ kind = "realtime" /\ server.fate = "failed"}

\* What is played, framed and not yet framed are runs that follow each other.
Framed ==
  /\ Run(played, 0)
  /\ Going =>
       /\ Run(outbox, Len(played)) /\ Run(pending, Len(played) + Len(outbox))
       /\ Run(buffered, Len(played) + Len(outbox) + Len(pending))
       /\ stage # "emitting" => outbox = <<>>
       /\ stage = "emitting" => buffered = <<>>
       /\ ~prepared => played = <<>> /\ outbox = <<>> /\ pending = <<>>
       /\ ~committed => played = <<>>
       /\ stage = "emitting" /\ last => pending = <<>>
       /\ stage = "synthesizing" => buffered = <<>>
       /\ stage = "getting" => ~last

\* A reply that is spoken was played to its end.
Played ==
  /\ Going /\ last => Taken \in Ends \/ (stage = "preparing" /\ buffered = <<>>)
  /\ outcome = "spoken" => Len(played) \in Ends

\* Nothing is said before the generator begins.
Unstarted ==
  /\ gen = "fresh" => /\ server.fate = "idle" /\ server.said = 0 /\ worker = "none" /\ ~bound
                      /\ events = <<>> /\ ~settled /\ \A t \in Threads : hand[t] = Nothing
  /\ worker \in {"ready", "calling"} => server.fate = "idle" /\ kind = "realtime"

\* An item that is to follow n units.
Follows(x, n) ==
  /\ x \in Units => x = n + 1
  /\ x = End => n \in Ends

Outcome == {End, Failure}

\* The queue, and the receiver with what it is about to put there.
Fetched ==
  Going /\ kind # "whole" =>
    /\ \A i \in 1..Len(chunks) : /\ Follows(chunks[i], Taken + i - 1)
                                 /\ chunks[i] \in Outcome => i = Len(chunks) /\ receiver = "over"
    /\ receiver = "putting" => Follows(item, Taken + Len(chunks))
    /\ receiver = "asking"  => Follows(got, Taken + Len(chunks))

Unread == {"fresh", "reading", "suspended"}

\* The receiver and the generator are of one mind on whether more will come.
Linked ==
  Going /\ kind # "whole" =>
    /\ gen = "fresh" => receiver \in {"looping", "asking"} /\ Taken = 0 /\ chunks = <<>>
                        /\ (receiver = "asking" => got = Nothing)
    /\ gen = "reading" => receiver = "asking" /\ got = Nothing
    /\ gen \in Unread => /\ receiver # "over" /\ ~stopped
                         /\ receiver = "putting" => item \in Units
                         /\ receiver = "asking" => got \notin Outcome
    /\ gen \notin Unread => \/ receiver = "over"
                            \/ receiver = "putting" /\ item \in Outcome
                            \/ receiver = "asking" /\ got \in Outcome

\* The units the generator has yielded.
Yielded ==
  Taken + Len(chunks)
  + IF receiver = "putting" \/ (receiver = "asking" /\ got # Nothing) THEN 1 ELSE 0

\* No outcome is in the queue of the generator.
Clean == \A i \in 1..Len(events) : events[i] \in Units

\* What the generator will read up to the first outcome.
Queued ==
  \A i \in 1..Len(events) :
    (\A j \in 1..(i - 1) : events[j] \in Units) => Follows(events[i], Yielded + i - 1)

\* The threads of the provider, and what they are about to put.
Handed ==
  /\ kind # "realtime" => worker = "none" /\ \A t \in Threads : hand[t] = Nothing
  /\ hand["sdk"] \in Units => server.fate = "running"
  /\ hand["worker"] \notin Units
  /\ server.fate = "done" => kind = "raw" \/ server.said = Length
  /\ ~settled => hand["worker"] = Nothing /\ hand["sdk"] \notin Outcome

\* What has been said and not yielded is in the queue or in a hand, up to the first outcome.
Said ==
  Going /\ kind # "whole" /\ gen \in Unread =>
    /\ Queued
    /\ Http /\ server.fate = "running" => Clean /\ Yielded + Len(events) = server.said
    /\ kind = "realtime" =>
         /\ hand["worker"] = End => server.fate \in {"done", "failed"}
         /\ ~settled =>
              /\ Clean
              /\ hand["sdk"] = Nothing => Yielded + Len(events) = server.said
              /\ hand["sdk"] # Nothing => /\ hand["sdk"] = server.said
                                          /\ Yielded + Len(events) + 1 = server.said
         /\ Clean => \A t \in Threads : Follows(hand[t], Yielded + Len(events))

-----------------------------------------------------------------------------
(* Sequences of units                                                      *)

\* A remainder is smaller than the frame, and no larger than the whole.
LEMMA Remainder ==
  ASSUME NEW n \in Nat
  PROVE  n % Frame \in 0..n
<1>1. n % Frame \in 0..(Frame - 1)
  BY StreamedSpeechAssumption
<1>2. CASE n >= Frame
  BY <1>1, <1>2, StreamedSpeechAssumption
<1>3. CASE n < Frame
  <2>1. n % Frame = n
    BY <1>3, StreamedSpeechAssumption
  <2> QED
    BY <2>1
<1> QED
  BY <1>2, <1>3, StreamedSpeechAssumption

\* Two runs that follow each other are one.
LEMMA RunsJoin ==
  ASSUME NEW s \in Seq(Units), NEW t \in Seq(Units), NEW n \in Nat,
         Run(s, n), Run(t, n + Len(s))
  PROVE  s \o t \in Seq(Units) /\ Len(s \o t) = Len(s) + Len(t) /\ Run(s \o t, n)
<1>1. /\ s \o t \in Seq(Units) /\ Len(s \o t) = Len(s) + Len(t) /\ Len(s) \in Nat /\ Len(t) \in Nat
      /\ \A i \in 1..(Len(s) + Len(t)) : (s \o t)[i] = IF i <= Len(s) THEN s[i] ELSE t[i - Len(s)]
  OBVIOUS
<1>2. SUFFICES ASSUME NEW i \in 1..(Len(s) + Len(t)) PROVE (s \o t)[i] = n + i
  BY <1>1 DEF Run
<1>3. CASE i <= Len(s)
  BY <1>1, <1>3 DEF Run
<1>4. CASE i > Len(s)
  <2>1. i - Len(s) \in 1..Len(t) /\ (s \o t)[i] = t[i - Len(s)]
    BY <1>1, <1>4
  <2>2. t[i - Len(s)] = n + Len(s) + (i - Len(s))
    BY <2>1, <1>1 DEF Run
  <2> QED
    BY <2>1, <2>2, <1>1
<1> QED
  BY <1>1, <1>3, <1>4

\* So are the two parts of a run that is cut.
LEMMA RunsPart ==
  ASSUME NEW s \in Seq(Units), NEW n \in Nat, Run(s, n), NEW k \in 0..Len(s)
  PROVE  /\ SubSeq(s, 1, k) \in Seq(Units) /\ Len(SubSeq(s, 1, k)) = k
         /\ SubSeq(s, k + 1, Len(s)) \in Seq(Units)
         /\ Len(SubSeq(s, k + 1, Len(s))) = Len(s) - k
         /\ Run(SubSeq(s, 1, k), n) /\ Run(SubSeq(s, k + 1, Len(s)), n + k)
<1>1. /\ SubSeq(s, 1, k) \in Seq(Units) /\ Len(SubSeq(s, 1, k)) = k
      /\ \A i \in 1..k : SubSeq(s, 1, k)[i] = s[i]
  OBVIOUS
<1>2. /\ SubSeq(s, k + 1, Len(s)) \in Seq(Units)
      /\ Len(SubSeq(s, k + 1, Len(s))) = Len(s) - k
      /\ \A i \in 1..(Len(s) - k) : SubSeq(s, k + 1, Len(s))[i] = s[k + i]
  OBVIOUS
<1>3. Len(s) \in Nat /\ k \in Nat /\ k <= Len(s)
  OBVIOUS
<1>4. Run(SubSeq(s, 1, k), n)
  BY <1>1, <1>3 DEF Run
<1>5. Run(SubSeq(s, k + 1, Len(s)), n + k)
  <2> SUFFICES ASSUME NEW i \in 1..(Len(s) - k)
               PROVE  SubSeq(s, k + 1, Len(s))[i] = n + k + i
    BY <1>2 DEF Run
  <2>1. k + i \in 1..Len(s)
    BY <1>3
  <2> QED
    BY <1>2, <1>3, <2>1 DEF Run
<1> QED
  BY <1>1, <1>2, <1>4, <1>5

\* One unit more, and one less.
LEMMA RunsGrow ==
  ASSUME NEW s \in Seq(Units), NEW n \in Nat, Run(s, n), NEW x \in Units, x = n + Len(s) + 1
  PROVE  Append(s, x) \in Seq(Units) /\ Len(Append(s, x)) = Len(s) + 1 /\ Run(Append(s, x), n)
<1>1. /\ Append(s, x) \in Seq(Units) /\ Len(Append(s, x)) = Len(s) + 1 /\ Len(s) \in Nat
      /\ \A i \in 1..(Len(s) + 1) : Append(s, x)[i] = IF i = Len(s) + 1 THEN x ELSE s[i]
  OBVIOUS
<1> QED
  BY <1>1 DEF Run

\* A run from the beginning is the beginning of the reply.
LEMMA RunsReply ==
  ASSUME NEW s \in Seq(Units), Run(s, 0)
  PROVE  Len(s) \in 0..Length /\ s = SubSeq(Reply, 1, Len(s))
<1>1. Len(s) \in Nat /\ \A i \in 1..Len(s) : s[i] \in 1..Length /\ s[i] = i
  <2>1. Len(s) \in Nat /\ \A i \in 1..Len(s) : s[i] \in Units
    OBVIOUS
  <2>2. \A i \in 1..Len(s) : s[i] = 0 + i
    BY DEF Run
  <2> QED
    BY <2>1, <2>2 DEF Units
<1>2. Len(s) <= Length
  BY <1>1, StreamedSpeechAssumption
<1>3. Reply \in Seq(Units) /\ Len(Reply) = Length /\ \A i \in 1..Length : Reply[i] = i
  BY StreamedSpeechAssumption DEF Reply, Units
<1>4. /\ SubSeq(Reply, 1, Len(s)) \in Seq(Units) /\ Len(SubSeq(Reply, 1, Len(s))) = Len(s)
      /\ \A i \in 1..Len(s) : SubSeq(Reply, 1, Len(s))[i] = Reply[i]
  BY <1>1, <1>2, <1>3, StreamedSpeechAssumption
<1>5. \A i \in 1..Len(s) : s[i] = SubSeq(Reply, 1, Len(s))[i]
  BY <1>1, <1>2, <1>3, <1>4, StreamedSpeechAssumption
<1> QED
  BY <1>1, <1>2, <1>4, <1>5, StreamedSpeechAssumption

\* The reply is a run.
LEMMA ReplyRuns == Reply \in Seq(Units) /\ Len(Reply) = Length /\ Run(Reply, 0)
<1>1. Reply \in Seq(Units) /\ Len(Reply) = Length /\ \A i \in 1..Length : Reply[i] = i
  BY StreamedSpeechAssumption DEF Reply, Units
<1> QED
  BY <1>1, StreamedSpeechAssumption DEF Run

\* Nothing is a run from anywhere.
LEMMA NothingRuns == <<>> \in Seq(Units) /\ Len(<<>>) = 0 /\ \A n \in Nat : Run(<<>>, n)
BY DEF Run

\* What is pushed comes after what was left over, in full frames as far as it fills them.
LEMMA PushRuns ==
  ASSUME NEW n \in Nat, NEW units \in Seq(Units), pending \in Seq(Units),
         Run(pending, n), Run(units, n + Len(pending)), Push(units)
  PROVE  /\ outbox' \in Seq(Units) /\ pending' \in Seq(Units) /\ buffered' = <<>>
         /\ Len(outbox') + Len(pending') = Len(pending) + Len(units)
         /\ Run(outbox', n) /\ Run(pending', n + Len(outbox'))
<1> DEFINE all == pending \o units
           framed == Len(all) - (Len(all) % Frame)
<1>1. all \in Seq(Units) /\ Len(all) = Len(pending) + Len(units) /\ Run(all, n)
  BY RunsJoin
<1>2. Len(all) \in Nat
  BY <1>1
<1>3. Len(all) % Frame \in 0..Len(all)
  BY <1>2, Remainder
<1>4. framed \in 0..Len(all)
  BY <1>2, <1>3
<1>5. /\ outbox' = SubSeq(all, 1, framed) /\ pending' = SubSeq(all, framed + 1, Len(all))
      /\ buffered' = <<>>
  BY DEF Push
<1> HIDE DEF framed, all
<1>6. /\ outbox' \in Seq(Units) /\ Len(outbox') = framed /\ pending' \in Seq(Units)
      /\ Len(pending') = Len(all) - framed /\ Run(outbox', n) /\ Run(pending', n + framed)
  BY <1>1, <1>4, <1>5, RunsPart
<1>7. Len(pending) \in Nat /\ Len(units) \in Nat
  OBVIOUS
<1>8. Len(outbox') + Len(pending') = Len(pending) + Len(units)
  BY <1>1, <1>2, <1>4, <1>6, <1>7
<1> QED
  BY <1>5, <1>6, <1>8

\* At the end all of it is framed.
LEMMA PushAllRuns ==
  ASSUME NEW n \in Nat, NEW units \in Seq(Units), pending \in Seq(Units),
         Run(pending, n), Run(units, n + Len(pending)), PushAll(units)
  PROVE  /\ outbox' \in Seq(Units) /\ pending' = <<>> /\ buffered' = <<>>
         /\ Len(outbox') = Len(pending) + Len(units) /\ Run(outbox', n)
BY RunsJoin DEF PushAll

-----------------------------------------------------------------------------
(* What a step leaves alone                                                *)
USE DEF provider, cancellation, generator, receiving, framing, sent, control

\* The steps of the provider and of its threads.
ProviderStep ==
  \/ OnData \/ TaskEnds("done") \/ TaskEnds("failed") \/ Tell
  \/ Delta \/ DoneMark \/ BodyEnds \/ BodyFails \/ Worker \/ \E t \in Threads : Put(t)

\* What may happen, by who does it.
LEMMA WhoSteps ==
  ASSUME Next
  PROVE  ProviderStep \/ Generator \/ Receiver \/ Synthesis \/ Coroutine \/ Cancel
BY DEF Next, ProviderStep

\* The provider puts what it says into its queue.
LEMMA ProviderFrame ==
  ASSUME ProviderStep
  PROVE  UNCHANGED <<kind, cancellation, generator, receiving, clip, framing, sent, control>>
BY DEF ProviderStep, OnData, TaskEnds, Tell, Delta, DoneMark, BodyEnds, BodyFails, Over, Worker,
       WorkerStarts, WorkerCalls, WorkerFails, WorkerEnds, Put

\* The generator takes it from there, and answers next.
LEMMA GeneratorFrame ==
  ASSUME Generator
  PROVE  UNCHANGED <<kind, hand, token, receiving, clip, framing, sent, control>>
BY DEF Generator, Resume, Read, ReadBreaks, StopTask, Join, CloseSynthesis

\* The receiver asks it, and puts the answer into the queue of the coroutine.
LEMMA ReceiverFrame ==
  ASSUME Receiver
  PROVE  UNCHANGED <<kind, provider, cancellation, gen, holder, closing, unwanted, clip,
                     framing, sent, control>>
BY DEF Receiver, ReceiverAsks, ReceiverGets, ReceiverPuts, ReceiverStops

\* A clip is synthesized on its own.
LEMMA SynthesisFrame ==
  ASSUME Synthesis
  PROVE  UNCHANGED <<kind, provider, cancellation, generator, receiving, framing, sent, control>>
BY DEF Synthesis, SynthesisRetried, Synthesized

\* The coroutine takes from the queue, and stops the others.
LEMMA CoroutineFrame ==
  ASSUME Coroutine \/ Cancel
  PROVE  UNCHANGED <<kind, server, settled, hand, worker, gen, holder, got, receiver, item, clip>>
BY DEF Coroutine, Cancel, Receive, ReceiveFailure, ReceiveEnd, ReceiveClip, Prepare, Refuse, Emit,
       FirstFrameRefused, Emitted, OutputFails, BreakOff, ReceiverAwaited, SynthesisClosed,
       FinishOutput

-----------------------------------------------------------------------------
(* Type correctness                                                        *)

\* What may be put into a queue.
LEMMA Items ==
  /\ Units \subseteq Item /\ End \in Item /\ Failure \in Item /\ Nothing \notin Item
  /\ End \notin Units /\ Failure \notin Units /\ Nothing \notin Units /\ End # Failure
  /\ \A x \in Item : x \in Units \/ x = End \/ x = Failure
BY StreamedSpeechAssumption DEF Item, Units

\* One item more.
LEMMA QueueGrows ==
  ASSUME NEW q \in Seq(Item), NEW x \in Item
  PROVE  /\ Append(q, x) \in Seq(Item) /\ Len(Append(q, x)) = Len(q) + 1
         /\ \A i \in 1..Len(q) : Append(q, x)[i] = q[i]
         /\ Append(q, x)[Len(q) + 1] = x
OBVIOUS

\* The first item, and those after it.
LEMMA QueueShrinks ==
  ASSUME NEW q \in Seq(Item), q # <<>>
  PROVE  /\ Head(q) \in Item /\ Head(q) = q[1] /\ Len(q) \in Nat /\ Len(q) > 0
         /\ Tail(q) \in Seq(Item) /\ Len(Tail(q)) = Len(q) - 1
         /\ \A i \in 1..(Len(q) - 1) : Tail(q)[i] = q[i + 1]
OBVIOUS

\* A queue with one item, or none.
LEMMA QueueStarts ==
  /\ <<>> \in Seq(Item) /\ Len(<<>>) = 0
  /\ \A x \in Item : <<x>> \in Seq(Item) /\ Len(<<x>>) = 1 /\ <<x>>[1] = x
OBVIOUS

\* A thread gets something to put, or not.
LEMMA SettleTypes ==
  ASSUME Typed, NEW t \in Threads, NEW x \in Item, Settle(t, x)
  PROVE  /\ hand' \in [Threads -> Item \cup {Nothing}] /\ settled'
         /\ \A u \in Threads : hand'[u] = IF u = t /\ ~settled THEN x ELSE hand[u]
BY DEF Typed, ProviderTyped, Settle

\* What the provider and its threads do.
LEMMA ProviderTypes ==
  ASSUME Typed, ProviderStep
  PROVE  Typed'
<1>1. UNCHANGED <<kind, cancellation, generator, receiving, clip, framing, sent, control>>
  BY ProviderFrame
<1>2. ReceiverTyped' /\ CoroutineTyped'
  BY <1>1 DEF Typed, ReceiverTyped, CoroutineTyped
<1>3. ASSUME OnData PROVE ProviderTyped'
  <2>1. server.said + 1 \in Item /\ server.said + 1 \in 0..Length
    BY <1>3, Items, StreamedSpeechAssumption DEF OnData, Typed, ProviderTyped, Units
  <2> QED
    BY <1>3, <2>1, Items DEF Typed, ProviderTyped, OnData, Threads, Units
<1>4. ASSUME NEW fate \in {"done", "failed"}, TaskEnds(fate) PROVE ProviderTyped'
  BY <1>4, Items DEF Typed, ProviderTyped, TaskEnds
<1>5. ASSUME Tell PROVE ProviderTyped'
  <2>1. hand' \in [Threads -> Item \cup {Nothing}] /\ settled' \in BOOLEAN
    BY <1>5, SettleTypes, Items DEF Tell, Typed, ProviderTyped, Threads
  <2> QED
    BY <1>5, <2>1, Items DEF Typed, ProviderTyped, Tell
<1>6. ASSUME Delta PROVE ProviderTyped'
  <2>1. server.said + 1 \in Item /\ server.said + 1 \in 0..Length
    BY <1>6, Items, StreamedSpeechAssumption DEF Delta, Typed, ProviderTyped, Units
  <2>2. events' \in Seq(Item)
    BY <1>6, <2>1, QueueGrows DEF Delta, Typed, ProviderTyped
  <2> QED
    BY <1>6, <2>1, <2>2, Items DEF Typed, ProviderTyped, Delta, Http
<1>7. ASSUME NEW fate \in {"done", "failed"}, NEW x \in {End, Failure}, Over(fate, x) PROVE ProviderTyped'
  <2>1. events' \in Seq(Item)
    BY <1>7, QueueGrows, Items DEF Over, Typed, ProviderTyped
  <2> QED
    BY <1>7, <2>1, Items DEF Typed, ProviderTyped, Over
<1>8. ASSUME WorkerStarts PROVE ProviderTyped'
  <2>1. hand' \in [Threads -> Item \cup {Nothing}] /\ settled' \in BOOLEAN
    BY <1>8, SettleTypes, Items DEF WorkerStarts, Typed, ProviderTyped, Threads
  <2> QED
    BY <1>8, <2>1, Items DEF Typed, ProviderTyped, WorkerStarts
<1>9. ASSUME WorkerCalls PROVE ProviderTyped'
  BY <1>9, Items DEF Typed, ProviderTyped, WorkerCalls
<1>10. ASSUME WorkerFails PROVE ProviderTyped'
  <2>1. hand' \in [Threads -> Item \cup {Nothing}] /\ settled' \in BOOLEAN
    BY <1>10, SettleTypes, Items DEF WorkerFails, Typed, ProviderTyped, Threads
  <2> QED
    BY <1>10, <2>1, Items DEF Typed, ProviderTyped, WorkerFails
<1>11. ASSUME WorkerEnds PROVE ProviderTyped'
  <2>1. hand' \in [Threads -> Item \cup {Nothing}] /\ settled' \in BOOLEAN
    BY <1>11, SettleTypes, Items DEF WorkerEnds, Typed, ProviderTyped, Threads
  <2> QED
    BY <1>11, <2>1, Items DEF Typed, ProviderTyped, WorkerEnds
<1>12. ASSUME NEW t \in Threads, Put(t) PROVE ProviderTyped'
  <2>1. events' \in Seq(Item)
    BY <1>12, QueueGrows, Items DEF Put, Typed, ProviderTyped
  <2> QED
    BY <1>12, <2>1, Items DEF Typed, ProviderTyped, Put
<1> QED
  BY <1>1, <1>2, <1>3, <1>4, <1>5, <1>6, <1>7, <1>8, <1>9, <1>10, <1>11, <1>12 DEF Typed, ProviderStep, Worker, DoneMark,
         BodyEnds, BodyFails

\* What the generator does.
LEMMA GeneratorTypes ==
  ASSUME Typed, Generator
  PROVE  Typed'
<1>1. UNCHANGED <<kind, hand, token, receiving, clip, framing, sent, control>>
  BY GeneratorFrame
<1>2. CoroutineTyped'
  BY <1>1 DEF Typed, CoroutineTyped
<1>3. ASSUME Resume PROVE ProviderTyped' /\ ReceiverTyped'
  <2>1. events' \in Seq(Item)
    BY <1>3, QueueStarts, Items DEF Resume, Open, Bind, Typed, ProviderTyped
  <2>2. ProviderTyped'
    BY <1>3, <2>1 DEF Resume, Open, Bind, Typed, ProviderTyped
  <2> QED
    BY <1>3, <2>2, Items DEF Resume, Typed, ReceiverTyped
<1>4. ASSUME Read PROVE ProviderTyped' /\ ReceiverTyped'
  <2>1. Head(events) \in Item /\ events' \in Seq(Item)
    BY <1>4, QueueShrinks DEF Read, Typed, ProviderTyped
  <2>2. ProviderTyped'
    BY <1>4, <2>1 DEF Read, Typed, ProviderTyped
  <2> QED
    BY <1>4, <2>1, <2>2, Items DEF Read, Typed, ReceiverTyped
<1>5. ASSUME StopTask PROVE ProviderTyped' /\ ReceiverTyped'
  <2>1. events \in Seq(Item) /\ Append(events, End) \in Seq(Item)
    BY QueueGrows, Items DEF Typed, ProviderTyped
  <2>2. /\ events' = events \/ events' = Append(events, End)
        /\ stopped' \in {stopped, TRUE} /\ settled' \in {settled, TRUE} /\ gen' = "joining"
        /\ UNCHANGED <<kind, server, hand, worker, token, bound, holder, got, closing, receiving,
                       clip>>
    BY <1>5 DEF StopTask
  <2>3. ReceiverTyped'
    BY <2>2 DEF Typed, ReceiverTyped
  <2> QED
    BY <2>1, <2>2, <2>3 DEF Typed, ProviderTyped
<1>6. ASSUME ReadBreaks \/ Join \/ CloseSynthesis PROVE ProviderTyped' /\ ReceiverTyped'
  <2>1. ProviderTyped'
    BY <1>6 DEF ReadBreaks, Join, CloseSynthesis, Typed, ProviderTyped
  <2>2. CASE ReadBreaks \/ Join
    BY <2>1, <2>2, Items DEF ReadBreaks, Join, Typed, ReceiverTyped
  <2>3. CASE CloseSynthesis
    BY <2>1, <2>3 DEF CloseSynthesis, Typed, ReceiverTyped
  <2> QED
    BY <1>6, <2>2, <2>3
<1> QED
  BY <1>2, <1>3, <1>4, <1>5, <1>6 DEF Typed, Generator

\* What the receiver and the synthesis of a clip do.
LEMMA ReceiverTypes ==
  ASSUME Typed, Receiver \/ Synthesis
  PROVE  Typed'
<1>1. UNCHANGED <<kind, provider, cancellation, framing, sent, control>>
  BY ReceiverFrame, SynthesisFrame
<1>2. ProviderTyped' /\ CoroutineTyped'
  BY <1>1 DEF Typed, ProviderTyped, CoroutineTyped
<1>3. ASSUME ReceiverAsks \/ ReceiverGets \/ ReceiverStops \/ Synthesis PROVE ReceiverTyped'
  BY <1>3, Items DEF ReceiverAsks, ReceiverGets, Returned, ReceiverStops, Synthesis,
                     SynthesisRetried, Synthesized, Typed, ReceiverTyped
<1>4. ASSUME ReceiverPuts PROVE ReceiverTyped'
  <2>1. chunks' \in Seq(Item)
    BY <1>4, QueueGrows DEF ReceiverPuts, Typed, ReceiverTyped
  <2> QED
    BY <1>4, <2>1 DEF ReceiverPuts, Typed, ReceiverTyped
<1> QED
  BY <1>2, <1>3, <1>4 DEF Typed, Receiver

\* cancel leaves the queue a queue, and so does who stops the receiver with it.
LEMMA CancelTypes ==
  ASSUME Typed, CancelToken \/ StopReceiver \/ UNCHANGED <<cancellation, events, unwanted>>
  PROVE  /\ events' \in Seq(Item) /\ token' \in BOOLEAN /\ stopped' \in BOOLEAN
         /\ bound' \in BOOLEAN
<1>1. Append(events, End) \in Seq(Item)
  BY QueueGrows, Items DEF Typed, ProviderTyped
<1> QED
  BY <1>1 DEF Typed, ProviderTyped, CancelToken, StopReceiver

\* What is pushed is units.
LEMMA PushTypes ==
  ASSUME NEW units \in Seq(Units), pending \in Seq(Units), Push(units) \/ PushAll(units)
  PROVE  outbox' \in Seq(Units) /\ pending' \in Seq(Units) /\ buffered' \in Seq(Units)
<1> DEFINE all == pending \o units
           framed == Len(all) - (Len(all) % Frame)
<1>1. all \in Seq(Units) /\ Len(all) \in Nat
  OBVIOUS
<1>2. Len(all) % Frame \in 0..Len(all)
  BY <1>1, Remainder
<1>3. framed \in 0..Len(all)
  BY <1>1, <1>2
<1>4. CASE Push(units)
  <2>1. /\ outbox' = SubSeq(all, 1, framed) /\ pending' = SubSeq(all, framed + 1, Len(all))
        /\ buffered' = <<>>
    BY <1>4 DEF Push
  <2> HIDE DEF all, framed
  <2> QED
    BY <1>1, <1>3, <2>1
<1>5. CASE PushAll(units)
  BY <1>1, <1>5 DEF PushAll
<1> QED
  BY <1>4, <1>5

\* Where the coroutine is when it is cancelled, and what becomes of it.
LEMMA CancelCases ==
  ASSUME Typed, Cancel
  PROVE  /\ UNCHANGED <<committed, prepared, last, ended, played, outbox, pending, buffered, chunks>>
         /\ cancels' = cancels + 1
         /\ \/ /\ stage \in {"getting", "preparing", "emitting", "broken"}
               /\ stage' = After("cancelled") /\ outcome' = "cancelled" /\ CancelToken
               /\ unwanted' = (receiver # "over") /\ closing' = closing
            \/ /\ stage \in {"synthesizing", "closing", "finishing"}
               /\ stage' = "over" /\ outcome' = "cancelled" /\ CancelToken
               /\ UNCHANGED <<unwanted, closing>>
            \/ /\ stage = "awaiting" /\ stage' = "closing" /\ closing' = "asked"
               /\ UNCHANGED <<outcome, cancellation, events, unwanted>>
<1>1. stage \in Stages
  BY DEF Typed, CoroutineTyped
<1> QED
  BY <1>1 DEF Cancel, Stages

\* What the coroutine does to its units.
LEMMA FramesTyped ==
  ASSUME Typed, Coroutine \/ Cancel
  PROVE  /\ buffered' \in Seq(Units) /\ pending' \in Seq(Units) /\ outbox' \in Seq(Units)
         /\ played' \in Seq(Units) /\ chunks' \in Seq(Item)
<1>1. /\ buffered \in Seq(Units) /\ pending \in Seq(Units) /\ outbox \in Seq(Units)
      /\ played \in Seq(Units) /\ chunks \in Seq(Item)
  BY DEF Typed, CoroutineTyped, ReceiverTyped
<1>2. CASE Receive
  <2>1. chunks' \in Seq(Item) /\ Head(chunks) \in Units
    BY <1>1, <1>2, QueueShrinks DEF Receive
  <2> DEFINE units == Append(buffered, Head(chunks))
  <2>2. units \in Seq(Units)
    BY <1>1, <2>1
  <2>3. \/ buffered' = units /\ UNCHANGED <<pending, outbox>>
        \/ Push(units)
    BY <1>2 DEF Receive
  <2>4. played' = played
    BY <1>2 DEF Receive
  <2> HIDE DEF units
  <2> QED
    BY <1>1, <2>1, <2>2, <2>3, <2>4, PushTypes
<1>3. CASE ReceiveFailure \/ ReceiveEnd
  <2>1. chunks' \in Seq(Item)
    BY <1>1, <1>3, QueueShrinks DEF ReceiveFailure, ReceiveEnd
  <2>2. PushAll(buffered) \/ UNCHANGED <<buffered, pending, outbox>>
    BY <1>3 DEF ReceiveFailure, ReceiveEnd
  <2>3. played' = played
    BY <1>3 DEF ReceiveFailure, ReceiveEnd
  <2> QED
    BY <1>1, <2>1, <2>2, <2>3, PushTypes
<1>4. CASE ReceiveClip
  BY <1>1, <1>4, ReplyRuns DEF ReceiveClip
<1>5. CASE Prepare
  <2>1. PushAll(buffered) \/ Push(buffered) \/ UNCHANGED <<buffered, pending, outbox>>
    BY <1>5 DEF Prepare
  <2>2. played' = played /\ chunks' = chunks
    BY <1>5 DEF Prepare
  <2> QED
    BY <1>1, <2>1, <2>2, PushTypes
<1>6. CASE Emit \/ FirstFrameRefused
  <2> DEFINE frame == SubSeq(outbox, 1, NextFrame)
             rest == SubSeq(outbox, NextFrame + 1, Len(outbox))
  <2>1. NextFrame \in 0..Len(outbox)
    BY <1>1, StreamedSpeechAssumption DEF NextFrame
  <2>2. frame \in Seq(Units) /\ rest \in Seq(Units)
    BY <1>1, <2>1
  <2>3. /\ played' = played \o frame \/ played' = frame
        /\ outbox' = rest \/ outbox' = outbox
        /\ UNCHANGED <<buffered, pending, chunks>>
    BY <1>6 DEF Emit, FirstFrameRefused
  <2> HIDE DEF frame, rest
  <2>4. played \o frame \in Seq(Units)
    BY <1>1, <2>2
  <2> QED
    BY <1>1, <2>2, <2>3, <2>4
<1>7. CASE \/ Refuse \/ Emitted \/ OutputFails \/ BreakOff \/ ReceiverAwaited \/ SynthesisClosed
           \/ FinishOutput \/ Cancel
  BY <1>1, <1>7 DEF Refuse, Emitted, OutputFails, BreakOff, ReceiverAwaited, SynthesisClosed,
                    FinishOutput, Cancel
<1> QED
  BY <1>2, <1>3, <1>4, <1>5, <1>6, <1>7 DEF Coroutine

\* The coroutine cancels the provider, stops the receiver with it, or leaves both alone.
LEMMA CoroutineCancels ==
  ASSUME Typed, Coroutine \/ Cancel
  PROVE  CancelToken \/ StopReceiver \/ UNCHANGED <<cancellation, events, unwanted>>
<1>1. CASE Receive \/ ReceiveFailure \/ ReceiveEnd
  BY <1>1 DEF Receive, ReceiveFailure, ReceiveEnd, TearDown
<1>2. CASE ReceiveClip \/ Prepare \/ Refuse
  BY <1>2 DEF ReceiveClip, Prepare, Refuse, TearDown
<1>3. CASE Emit \/ FirstFrameRefused \/ Emitted \/ OutputFails
  BY <1>3 DEF Emit, FirstFrameRefused, Emitted, OutputFails, TearDown
<1>4. CASE BreakOff \/ ReceiverAwaited \/ SynthesisClosed \/ FinishOutput
  BY <1>4 DEF BreakOff, ReceiverAwaited, SynthesisClosed, FinishOutput, TearDown
<1>5. CASE Cancel
  BY <1>5, CancelCases
<1> QED
  BY <1>1, <1>2, <1>3, <1>4, <1>5 DEF Coroutine

\* What the coroutine does.
LEMMA CoroutineTypes ==
  ASSUME Typed, Coroutine \/ Cancel
  PROVE  Typed'
<1>1. UNCHANGED <<kind, server, settled, hand, worker, gen, holder, got, receiver, item, clip>>
  BY CoroutineFrame
<1>2. CancelToken \/ StopReceiver \/ UNCHANGED <<cancellation, events, unwanted>>
  BY CoroutineCancels
<1>3. ProviderTyped'
  BY <1>1, <1>2, CancelTypes DEF Typed, ProviderTyped
<1>4. closing' \in {"no", "asked", "done"} /\ unwanted' \in BOOLEAN
  <2>1. CASE Receive \/ ReceiveFailure \/ ReceiveEnd
    BY <2>1 DEF Receive, ReceiveFailure, ReceiveEnd, TearDown, StopReceiver, Typed,
           ReceiverTyped
  <2>2. CASE ReceiveClip \/ Prepare \/ Refuse
    BY <2>2 DEF ReceiveClip, Prepare, Refuse, TearDown, StopReceiver, Typed,
           ReceiverTyped
  <2>3. CASE Emit \/ FirstFrameRefused \/ Emitted \/ OutputFails
    BY <2>3 DEF Emit, FirstFrameRefused, Emitted, OutputFails, TearDown, StopReceiver, Typed,
           ReceiverTyped
  <2>4. CASE BreakOff \/ ReceiverAwaited \/ SynthesisClosed \/ FinishOutput
    BY <2>4 DEF BreakOff, ReceiverAwaited, SynthesisClosed, FinishOutput, TearDown, StopReceiver, Typed,
           ReceiverTyped
  <2>5. CASE Cancel
    BY <2>5, CancelCases DEF Typed, ReceiverTyped
  <2> QED
    BY <2>1, <2>2, <2>3, <2>4, <2>5 DEF Coroutine
<1>5. ReceiverTyped'
  BY <1>1, <1>4, FramesTyped DEF Typed, ReceiverTyped
<1>6. stage' \in Stages /\ outcome' \in {"none", "spoken", "refused", "failed", "cancelled"}
  <2>1. CASE Receive \/ ReceiveFailure \/ ReceiveEnd
    BY <2>1 DEF Receive, ReceiveFailure, ReceiveEnd, TearDown, After,
           Stages, Typed, CoroutineTyped
  <2>2. CASE ReceiveClip \/ Prepare \/ Refuse
    BY <2>2 DEF ReceiveClip, Prepare, Refuse, TearDown, After,
           Stages, Typed, CoroutineTyped
  <2>3. CASE Emit \/ FirstFrameRefused \/ Emitted \/ OutputFails
    BY <2>3 DEF Emit, FirstFrameRefused, Emitted, OutputFails, TearDown, After,
           Stages, Typed, CoroutineTyped
  <2>4. CASE BreakOff \/ ReceiverAwaited \/ SynthesisClosed \/ FinishOutput
    BY <2>4 DEF BreakOff, ReceiverAwaited, SynthesisClosed, FinishOutput, TearDown, After,
           Stages, Typed, CoroutineTyped
  <2>5. CASE Cancel
    BY <2>5, CancelCases DEF After, Stages, Typed, CoroutineTyped
  <2> QED
    BY <2>1, <2>2, <2>3, <2>4, <2>5 DEF Coroutine
<1>7. /\ last' \in BOOLEAN /\ prepared' \in BOOLEAN /\ committed' \in BOOLEAN
      /\ ended' \in Nat /\ cancels' \in Nat
  <2>1. CASE Receive \/ ReceiveFailure \/ ReceiveEnd
    BY <2>1 DEF Receive, ReceiveFailure, ReceiveEnd, CloseUnfinished, Typed,
           CoroutineTyped
  <2>2. CASE ReceiveClip \/ Prepare \/ Refuse
    BY <2>2 DEF ReceiveClip, Prepare, Refuse, CloseUnfinished, Typed,
           CoroutineTyped
  <2>3. CASE Emit \/ FirstFrameRefused \/ Emitted \/ OutputFails
    BY <2>3 DEF Emit, FirstFrameRefused, Emitted, OutputFails, CloseUnfinished, Typed,
           CoroutineTyped
  <2>4. CASE BreakOff \/ ReceiverAwaited \/ SynthesisClosed \/ FinishOutput
    BY <2>4 DEF BreakOff, ReceiverAwaited, SynthesisClosed, FinishOutput, CloseUnfinished, Typed,
           CoroutineTyped
  <2>5. CASE Cancel
    BY <2>5, CancelCases DEF Typed, CoroutineTyped
  <2> QED
    BY <2>1, <2>2, <2>3, <2>4, <2>5 DEF Coroutine
<1>8. CoroutineTyped'
  BY <1>6, <1>7, FramesTyped DEF CoroutineTyped
<1> QED
  BY <1>3, <1>5, <1>8 DEF Typed

\* Nothing has happened yet.
LEMMA InitTypes ==
  ASSUME Init
  PROVE  Typed
<1>1. ProviderTyped
  <2>1. server = [said |-> 0, fate |-> "idle", told |-> FALSE] /\ 0 \in 0..Length
    BY StreamedSpeechAssumption DEF Init
  <2>2. events \in Seq(Item)
    BY QueueStarts DEF Init
  <2>3. server \in [said : 0..Length, fate : {"idle", "running", "done", "failed"},
                    told : BOOLEAN]
    BY <2>1
  <2>4. hand \in [Threads -> Item \cup {Nothing}]
    BY DEF Init
  <2> QED
    BY <2>2, <2>3, <2>4 DEF Init, ProviderTyped
<1>2. ReceiverTyped
  BY QueueStarts DEF Init, ReceiverTyped
<1>3. CoroutineTyped
  BY NothingRuns, StreamedSpeechAssumption DEF Init, CoroutineTyped, Stages
<1> QED
  BY <1>1, <1>2, <1>3 DEF Typed

\* No step leaves the types.
LEMMA NextTypes ==
  ASSUME Typed, [Next]_vars
  PROVE  Typed'
<1>1. CASE Next
  BY <1>1, WhoSteps, ProviderTypes, GeneratorTypes, ReceiverTypes, CoroutineTypes
<1>2. CASE UNCHANGED vars
  BY <1>2 DEF vars, Typed, ProviderTyped, ReceiverTyped, CoroutineTyped
<1> QED
  BY <1>1, <1>2

-----------------------------------------------------------------------------
(* How a stream comes to its end                                           *)

\* A coroutine that has left its work does not come back, and while it works it stops nobody.
LEMMA UndisturbedStays ==
  ASSUME Typed, Undisturbed, [Next]_vars
  PROVE  Undisturbed'
<1>1. CASE ProviderStep \/ Receiver \/ Synthesis
  BY <1>1, ProviderFrame, ReceiverFrame, SynthesisFrame DEF Undisturbed, Going
<1>2. CASE Generator
  <2>1. UNCHANGED <<kind, token, unwanted, last, stage>>
    BY <1>2, GeneratorFrame
  <2>2. /\ closing' = closing \/ closing \in {"asked"} \/ holder = "close"
        /\ closing' \in {closing, "done"}
        /\ holder' \in {holder, "none", "next"} \/ (holder' = "close" /\ closing = "asked" /\ closing' = closing)
        /\ holder' = "close" => closing' = closing
    BY <1>2 DEF Generator, Resume, Read, ReadBreaks, StopTask, Join, CloseSynthesis
  <2> QED
    BY <2>1, <2>2 DEF Undisturbed, Going
<1>3. CASE Coroutine
  <2>1. UNCHANGED <<kind, holder>>
    BY <1>3, CoroutineFrame
  <2>2. CASE Receive \/ ReceiveFailure \/ ReceiveEnd
    BY <2>1, <2>2 DEF Receive, ReceiveFailure, ReceiveEnd, TearDown, After, Undisturbed, Going
  <2>3. CASE ReceiveClip \/ Prepare \/ Refuse
    BY <2>1, <2>3 DEF ReceiveClip, Prepare, Refuse, TearDown, After, Undisturbed, Going
  <2>4. CASE Emit \/ FirstFrameRefused \/ Emitted \/ OutputFails
    BY <2>1, <2>4 DEF Emit, FirstFrameRefused, Emitted, OutputFails, TearDown, After,
                      Undisturbed, Going
  <2>5. CASE BreakOff \/ ReceiverAwaited \/ SynthesisClosed \/ FinishOutput
    BY <2>1, <2>5 DEF BreakOff, ReceiverAwaited, SynthesisClosed, FinishOutput, TearDown, After,
                      Undisturbed, Going
  <2> QED
    BY <1>3, <2>2, <2>3, <2>4, <2>5 DEF Coroutine
<1>4. CASE Cancel
  BY <1>4, CancelCases, CoroutineFrame DEF Undisturbed, Going, After
<1>5. CASE UNCHANGED vars
  BY <1>5 DEF vars, Undisturbed, Going
<1> QED
  BY <1>1, <1>2, <1>3, <1>4, <1>5, WhoSteps

\* A frame that is committed is ended when the coroutine has done with it, unless it is cancelled.
LEMMA EndedInTimeStays ==
  ASSUME Typed, Undisturbed, EndedInTime, [Next]_vars
  PROVE  EndedInTime'
<1>1. CASE ProviderStep \/ Receiver \/ Synthesis \/ Generator
  BY <1>1, ProviderFrame, ReceiverFrame, SynthesisFrame, GeneratorFrame DEF EndedInTime, Going
<1>2. CASE Coroutine
  <2>1. kind' = kind
    BY <1>2, CoroutineFrame
  <2>2. CASE Receive \/ ReceiveFailure \/ ReceiveClip
    BY <2>1, <2>2 DEF Receive, ReceiveFailure, ReceiveClip, EndedInTime, Undisturbed, Going
  <2>3. CASE ReceiveEnd \/ Refuse
    BY <2>1, <2>3 DEF ReceiveEnd, Refuse, TearDown, After, EndedInTime, Undisturbed, Going
  <2>4. CASE Prepare
    <3>1. kind = "whole" /\ buffered # <<>> => outbox' # <<>>
      BY <2>4 DEF Prepare, Undisturbed, Going, PushAll
    <3> QED
      BY <2>1, <2>4, <3>1 DEF Prepare, TearDown, After, EndedInTime, Undisturbed, Going
  <2>5. CASE Emit \/ OutputFails
    <3>1. UNCHANGED <<prepared, ended, outcome>> /\ stage \in {"preparing", "emitting"}
      BY <2>5 DEF Emit, OutputFails
    <3>2. \/ stage' = "emitting" /\ committed' /\ stage = "emitting"
          \/ stage' = "broken" /\ committed' = committed
      BY <2>5 DEF Emit, OutputFails
    <3> QED
      BY <2>1, <3>1, <3>2 DEF EndedInTime, Undisturbed, Going
  <2>6. CASE FirstFrameRefused \/ Emitted
    BY <2>1, <2>6 DEF FirstFrameRefused, Emitted, TearDown, After, EndedInTime, Undisturbed, Going
  <2>7. CASE BreakOff \/ ReceiverAwaited \/ SynthesisClosed \/ FinishOutput
    BY <2>1, <2>7 DEF BreakOff, ReceiverAwaited, SynthesisClosed, FinishOutput, TearDown, After,
                      CloseUnfinished, EndedInTime, Undisturbed, Going
  <2> QED
    BY <1>2, <2>2, <2>3, <2>4, <2>5, <2>6, <2>7 DEF Coroutine
<1>3. CASE Cancel
  <2>1. UNCHANGED <<kind, committed, prepared, last, ended, outbox>>
    BY <1>3, CancelCases, CoroutineFrame
  <2>2. CASE stage' = stage \/ outcome' = outcome
    BY <1>3, <2>1, <2>2, CancelCases DEF EndedInTime, Going, After
  <2>3. CASE outcome' = "cancelled" /\ stage' \in {"awaiting", "over"}
    BY <1>3, <2>1, <2>3, CancelCases DEF EndedInTime, Going, Typed, CoroutineTyped
  <2> QED
    BY <1>3, <2>2, <2>3, CancelCases DEF After
<1>4. CASE UNCHANGED vars
  BY <1>4 DEF vars, EndedInTime, Going
<1> QED
  BY <1>1, <1>2, <1>3, <1>4, WhoSteps

\* Nothing has been heard in the beginning.
LEMMA InitEnds ==
  ASSUME Init
  PROVE  Undisturbed /\ EndedInTime
BY DEF Init, Undisturbed, EndedInTime, Going

\* Whatever a provider says and whenever the speech is cancelled, a stream that has been
\* heard is ended once, by the coroutine that opened it or by none if that was cancelled,
\* and one that has not been heard is not ended.
THEOREM HeardStreamsEnd == Spec => []AudibleIsEnded
<1>1. Init => Typed /\ Undisturbed /\ EndedInTime
  BY InitTypes, InitEnds
<1>2. Typed /\ Undisturbed /\ EndedInTime /\ [Next]_vars => (Typed /\ Undisturbed /\ EndedInTime)'
  BY NextTypes, UndisturbedStays, EndedInTimeStays
<1>3. Typed /\ EndedInTime => AudibleIsEnded
  BY DEF Typed, CoroutineTyped, Stages, EndedInTime, AudibleIsEnded, Going
<1> QED
  BY <1>1, <1>2, <1>3, PTL DEF Spec

-----------------------------------------------------------------------------
(* From the queue to the frames                                            *)

\* The frames are counted.
LEMMA Counts ==
  ASSUME CoroutineTyped
  PROVE  /\ Len(played) \in Nat /\ Len(outbox) \in Nat /\ Len(pending) \in Nat
         /\ Len(buffered) \in Nat /\ Taken \in Nat
         /\ played \in Seq(Units) /\ outbox \in Seq(Units) /\ pending \in Seq(Units)
         /\ buffered \in Seq(Units)
BY DEF CoroutineTyped, Taken

\* What the coroutine takes: nothing, the next unit, the end of the reply, or a whole clip.
TakesNothing == Taken' = Taken /\ chunks' = chunks /\ last' = last /\ stage # "synthesizing"
TakesUnit ==
  /\ chunks # <<>> /\ Head(chunks) \in Units /\ chunks' = Tail(chunks)
  /\ Taken' = Taken + 1 /\ last' = last /\ ~last /\ stage = "getting"
TakesEnd ==
  /\ chunks # <<>> /\ Head(chunks) = End /\ chunks' = Tail(chunks) /\ receiver = "over"
  /\ Taken' = Taken /\ last' /\ stage = "getting"
TakesClip ==
  /\ kind = "whole" /\ chunks' = chunks /\ last'
  /\ Taken' = Length \/ (stage' = "preparing" /\ buffered' = <<>>)

\* The first of the queue is the next to be taken.
LEMMA FirstFollows ==
  ASSUME Typed, Fetched, Going, kind # "whole", chunks # <<>>
  PROVE  /\ Follows(Head(chunks), Taken) /\ Taken \in Nat /\ Head(chunks) \in Item
         /\ Head(chunks) \in Outcome => Len(chunks) = 1
<1>1. /\ chunks \in Seq(Item) /\ Taken \in Nat
  BY Counts DEF Typed, ReceiverTyped
<1>2. Head(chunks) = chunks[1] /\ 1 \in 1..Len(chunks) /\ Head(chunks) \in Item
  BY <1>1, QueueShrinks
<1>3. Taken + 1 - 1 = Taken
  BY <1>1
<1>4. Follows(chunks[1], Taken + 1 - 1) /\ (chunks[1] \in Outcome => 1 = Len(chunks))
  BY <1>2 DEF Fetched
<1> QED
  BY <1>1, <1>2, <1>3, <1>4

\* A unit is taken.
LEMMA ReceiveMoves ==
  ASSUME Typed, Undisturbed, EndedInTime, Framed, Fetched, Receive
  PROVE  Framed' /\ TakesUnit /\ Going'
<1>1. /\ stage = "getting" /\ chunks # <<>> /\ Head(chunks) \in Units /\ chunks' = Tail(chunks)
      /\ UNCHANGED <<played, last, prepared, committed, kind, ended>> /\ kind # "whole" /\ Going
  BY DEF Receive, Undisturbed, Going
<1>2. Head(chunks) = Taken + 1
  BY <1>1, FirstFollows DEF Follows
<1> DEFINE units == Append(buffered, Head(chunks))
           n == Len(played) + Len(outbox) + Len(pending)
<1>3. /\ Len(played) \in Nat /\ Len(outbox) \in Nat /\ Len(pending) \in Nat
      /\ Len(buffered) \in Nat /\ buffered \in Seq(Units) /\ pending \in Seq(Units)
      /\ n \in Nat /\ Head(chunks) = n + Len(buffered) + 1
  BY <1>2, Counts DEF Typed, Taken
<1>4. /\ Run(played, 0) /\ Run(outbox, Len(played)) /\ Run(pending, Len(played) + Len(outbox))
      /\ Run(buffered, n) /\ outbox = <<>> /\ ~last
      /\ ~prepared => played = <<>> /\ pending = <<>>
      /\ ~committed => played = <<>>
  BY <1>1 DEF Framed
<1>5. units \in Seq(Units) /\ Len(units) = Len(buffered) + 1 /\ Run(units, n)
  BY <1>1, <1>3, <1>4, RunsGrow
<1>6. \/ ~prepared /\ buffered' = units /\ stage' = "preparing" /\ UNCHANGED <<pending, outbox>>
      \/ prepared /\ Push(units) /\ stage' = "emitting"
      \/ buffered' = units /\ UNCHANGED <<stage, pending, outbox>>
  BY DEF Receive
<1> HIDE DEF units
<1>7. CASE buffered' = units /\ UNCHANGED <<pending, outbox>> /\ stage' \in {"getting", "preparing"}
  <2>1. Taken' = Taken + 1
    BY <1>1, <1>3, <1>5, <1>7 DEF Taken
  <2> QED
    BY <1>1, <1>3, <1>4, <1>5, <1>7, <2>1 DEF Framed, TakesUnit, Going
<1>8. CASE prepared /\ Push(units) /\ stage' = "emitting"
  <2>1. Len(outbox) = 0 /\ Run(pending, Len(played)) /\ Run(units, Len(played) + Len(pending))
    BY <1>3, <1>4, <1>5, NothingRuns
  <2>2. /\ outbox' \in Seq(Units) /\ pending' \in Seq(Units) /\ buffered' = <<>>
        /\ Len(outbox') + Len(pending') = Len(pending) + Len(units)
        /\ Run(outbox', Len(played)) /\ Run(pending', Len(played) + Len(outbox'))
    BY <1>3, <1>5, <1>8, <2>1, PushRuns
  <2>3. Taken' = Taken + 1 /\ Len(played) + Len(outbox') + Len(pending') \in Nat
    <3>1. Len(outbox') \in Nat /\ Len(pending') \in Nat /\ Len(buffered') = 0
      BY <2>2, NothingRuns
    <3>2. Taken' = Len(played) + Len(outbox') + Len(pending') + Len(buffered')
      BY <1>1 DEF Taken
    <3>3. Taken = Len(played) + Len(outbox) + Len(pending) + Len(buffered)
      BY DEF Taken
    <3>4. Len(outbox') + Len(pending') = Len(pending) + Len(buffered) + 1
      BY <1>5, <2>2
    <3> QED
      BY <1>3, <2>1, <3>1, <3>2, <3>3, <3>4
  <2>4. Run(buffered', Len(played) + Len(outbox') + Len(pending'))
    BY <2>2, <2>3, NothingRuns
  <2> QED
    BY <1>1, <1>4, <1>8, <2>2, <2>3, <2>4 DEF Framed, TakesUnit, Going
<1> QED
  BY <1>1, <1>6, <1>7, <1>8

\* The end of the reply is taken, and what is left is framed.
LEMMA EndMoves ==
  ASSUME Typed, Undisturbed, EndedInTime, Framed, Fetched, ReceiveEnd
  PROVE  Framed' /\ (Going' => TakesEnd)
<1>1. /\ stage = "getting" /\ chunks # <<>> /\ Head(chunks) = End /\ chunks' = Tail(chunks)
      /\ receiver = "over" /\ last' = TRUE
      /\ UNCHANGED <<played, prepared, committed, kind, ended>> /\ Going
  BY DEF ReceiveEnd, Going
<1>2. /\ Len(played) \in Nat /\ Len(outbox) \in Nat /\ Len(pending) \in Nat
      /\ Len(buffered) \in Nat /\ buffered \in Seq(Units) /\ pending \in Seq(Units)
  BY Counts DEF Typed
<1>3. /\ Run(played, 0) /\ Run(pending, Len(played) + Len(outbox))
      /\ Run(buffered, Len(played) + Len(outbox) + Len(pending)) /\ outbox = <<>>
      /\ ~prepared => played = <<>> /\ pending = <<>>
      /\ ~committed => played = <<>>
  BY <1>1 DEF Framed
<1>4. \/ prepared /\ stage' = "emitting" /\ PushAll(buffered)
      \/ ~prepared /\ stage' = "preparing" /\ UNCHANGED <<buffered, pending, outbox>>
      \/ TearDown("refused")
  BY DEF ReceiveEnd
<1>5. CASE prepared /\ stage' = "emitting" /\ PushAll(buffered)
  <2>1. Len(outbox) = 0 /\ Run(pending, Len(played)) /\ Run(buffered, Len(played) + Len(pending))
    BY <1>2, <1>3, NothingRuns
  <2>2. /\ outbox' \in Seq(Units) /\ pending' = <<>> /\ buffered' = <<>>
        /\ Len(outbox') = Len(pending) + Len(buffered) /\ Run(outbox', Len(played))
    BY <1>2, <1>5, <2>1, PushAllRuns
  <2>3. Taken' = Taken
    BY <1>1, <1>2, <2>1, <2>2, NothingRuns DEF Taken
  <2>4. Run(pending', Len(played) + Len(outbox')) /\ Run(buffered', Len(played) + Len(outbox') + Len(pending'))
    BY <1>2, <2>2, NothingRuns
  <2> QED
    BY <1>1, <1>3, <1>5, <2>2, <2>3, <2>4 DEF Framed, TakesEnd, Going
<1>6. CASE ~prepared /\ stage' = "preparing" /\ UNCHANGED <<buffered, pending, outbox>>
  <2>1. Taken' = Taken
    BY <1>1, <1>6 DEF Taken
  <2> QED
    BY <1>1, <1>3, <1>6, <2>1 DEF Framed, TakesEnd, Going
<1>7. CASE TearDown("refused")
  BY <1>1, <1>3, <1>7 DEF TearDown, After, Framed, Going
<1> QED
  BY <1>4, <1>5, <1>6, <1>7

\* A clip is taken.
LEMMA ClipMoves ==
  ASSUME Typed, Undisturbed, EndedInTime, Framed, ReceiveClip
  PROVE  Framed' /\ TakesClip
<1>1. /\ stage = "synthesizing" /\ stage' = "preparing" /\ last' = TRUE /\ kind = "whole" /\ Going
      /\ buffered' \in {Reply, <<>>}
      /\ UNCHANGED <<kind, chunks, pending, outbox, prepared, played, committed>>
  BY DEF ReceiveClip, Undisturbed, Going
<1>2. played = <<>> /\ outbox = <<>> /\ pending = <<>>
  BY <1>1 DEF Framed, EndedInTime
<1>3. Len(played) = 0 /\ Len(outbox) = 0 /\ Len(pending) = 0 /\ Run(buffered', 0)
  BY <1>1, <1>2, NothingRuns, ReplyRuns
<1>4. Taken' = Length \/ buffered' = <<>>
  BY <1>1, <1>2, <1>3, ReplyRuns, StreamedSpeechAssumption DEF Taken
<1>5. Framed'
  BY <1>1, <1>2, <1>3, NothingRuns DEF Framed, Going
<1> QED
  BY <1>1, <1>4, <1>5 DEF TakesClip

\* The output is prepared, and the first frames are made.
LEMMA PrepareMoves ==
  ASSUME Typed, Undisturbed, EndedInTime, Framed, Prepare
  PROVE  Framed' /\ (Going' => TakesNothing)
<1>1. /\ stage = "preparing" /\ Going /\ prepared' = TRUE
      /\ UNCHANGED <<kind, chunks, played, committed, last>>
  BY DEF Prepare, Going
<1>2. /\ Run(buffered, Len(played) + Len(outbox) + Len(pending)) /\ ~prepared
      /\ played = <<>> /\ outbox = <<>> /\ pending = <<>> /\ buffered \in Seq(Units)
  BY <1>1, Counts DEF Framed, EndedInTime, Typed
<1>3. /\ Len(played) = 0 /\ Len(outbox) = 0 /\ Len(pending) = 0 /\ Run(buffered, 0)
      /\ Len(buffered) \in Nat /\ Run(played, 0) /\ Run(pending, 0) /\ pending \in Seq(Units)
  BY <1>2, NothingRuns
<1>4. \/ TearDown("refused") /\ UNCHANGED <<buffered, pending, outbox>>
      \/ stage' = "emitting" /\ last /\ PushAll(buffered)
      \/ stage' = "emitting" /\ ~last /\ Push(buffered)
  BY DEF Prepare
<1>5. CASE TearDown("refused")
  BY <1>1, <1>3, <1>5 DEF TearDown, After, Framed, Going
<1>6. CASE stage' = "emitting" /\ (PushAll(buffered) \/ (~last /\ Push(buffered)))
  <2>1. /\ outbox' \in Seq(Units) /\ pending' \in Seq(Units) /\ buffered' = <<>>
        /\ Len(outbox') + Len(pending') = Len(buffered)
        /\ Run(outbox', 0) /\ Run(pending', Len(outbox')) /\ (last => pending' = <<>>)
    <3>1. CASE PushAll(buffered)
      <4>1. /\ outbox' \in Seq(Units) /\ pending' = <<>> /\ buffered' = <<>>
            /\ Len(outbox') = Len(pending) + Len(buffered) /\ Run(outbox', 0)
        BY <1>2, <1>3, <3>1, PushAllRuns
      <4> QED
        BY <1>3, <4>1, NothingRuns
    <3>2. CASE ~last /\ Push(buffered)
      <4>1. /\ outbox' \in Seq(Units) /\ pending' \in Seq(Units) /\ buffered' = <<>>
            /\ Len(outbox') + Len(pending') = Len(pending) + Len(buffered)
            /\ Run(outbox', 0) /\ Run(pending', 0 + Len(outbox'))
        BY <1>2, <1>3, <3>2, PushRuns
      <4> QED
        BY <1>3, <3>2, <4>1
    <3> QED
      BY <1>6, <3>1, <3>2
  <2>2. Len(outbox') \in Nat /\ Len(pending') \in Nat
    BY <2>1
  <2>3. Taken' = Taken /\ Run(buffered', Len(outbox') + Len(pending'))
    BY <1>1, <1>3, <2>1, <2>2, NothingRuns DEF Taken
  <2>4. /\ Len(played') + Len(outbox') = Len(outbox')
        /\ Len(played') + Len(outbox') + Len(pending') = Len(outbox') + Len(pending')
    BY <1>1, <1>3, <2>2
  <2>5. Framed'
    BY <1>1, <1>2, <1>3, <1>6, <2>1, <2>3, <2>4 DEF Framed, Going
  <2> QED
    BY <1>1, <2>3, <2>5 DEF TakesNothing
<1> QED
  BY <1>4, <1>5, <1>6

\* A frame is sent, and committed or refused.
LEMMA EmitMoves ==
  ASSUME Typed, Undisturbed, EndedInTime, Framed, Emit \/ FirstFrameRefused
  PROVE  Framed' /\ (Going' => TakesNothing)
<1> DEFINE frame == SubSeq(outbox, 1, NextFrame)
           rest == SubSeq(outbox, NextFrame + 1, Len(outbox))
<1>1. /\ stage = "emitting" /\ Going /\ UNCHANGED <<kind, chunks, last, pending, buffered, prepared>>
  BY DEF Emit, FirstFrameRefused, Going
<1>2. /\ Len(played) \in Nat /\ Len(outbox) \in Nat /\ Len(pending) \in Nat
      /\ Len(buffered) \in Nat /\ played \in Seq(Units) /\ outbox \in Seq(Units)
  BY Counts DEF Typed
<1>3. /\ Run(played, 0) /\ Run(outbox, Len(played)) /\ Run(pending, Len(played) + Len(outbox))
      /\ buffered = <<>> /\ (last => pending = <<>>) /\ (~committed => played = <<>>)
  BY <1>1 DEF Framed
<1>4. NextFrame \in 0..Len(outbox)
  BY <1>2, StreamedSpeechAssumption DEF NextFrame
<1>5. /\ frame \in Seq(Units) /\ rest \in Seq(Units) /\ Len(frame) = NextFrame
      /\ Len(rest) = Len(outbox) - NextFrame
      /\ Run(frame, Len(played)) /\ Run(rest, Len(played) + NextFrame)
  BY <1>2, <1>3, <1>4, RunsPart
<1>6. /\ played \o frame \in Seq(Units) /\ Len(played \o frame) = Len(played) + NextFrame
      /\ Run(played \o frame, 0)
  <2>1. Run(frame, 0 + Len(played))
    BY <1>2, <1>5
  <2> HIDE DEF frame, rest
  <2> QED
    BY <1>2, <1>3, <1>5, <2>1, RunsJoin
<1>7. CASE Emit
  <2>1. /\ played' = played \o frame /\ outbox' = rest /\ committed' = TRUE /\ stage' = stage
    BY <1>7 DEF Emit
  <2> HIDE DEF frame, rest, NextFrame
  <2>2. Len(played') + Len(outbox') = Len(played) + Len(outbox) /\ Run(outbox', Len(played'))
    <3>1. Len(played') = Len(played) + NextFrame /\ Len(outbox') = Len(outbox) - NextFrame
      BY <1>5, <1>6, <2>1
    <3>2. Run(outbox', Len(played'))
      BY <1>5, <2>1, <3>1
    <3> QED
      BY <1>2, <1>4, <3>1, <3>2
  <2>3. Taken' = Taken
    BY <1>1, <2>2 DEF Taken
  <2>4. /\ Run(pending', Len(played') + Len(outbox')) /\ Run(played', 0)
        /\ Run(buffered', Len(played') + Len(outbox') + Len(pending'))
    BY <1>1, <1>2, <1>3, <1>6, <2>1, <2>2, NothingRuns
  <2> QED
    BY <1>1, <1>3, <2>1, <2>2, <2>3, <2>4 DEF Framed, TakesNothing, Going, EndedInTime
<1>8. CASE FirstFrameRefused
  <2>1. /\ played' = frame /\ ~committed /\ TearDown("refused")
    BY <1>8 DEF FirstFrameRefused
  <2>2. Len(played) = 0 /\ ~ Going'
    BY <1>3, <2>1, NothingRuns DEF TearDown, After, Going
  <2> HIDE DEF frame, rest
  <2> QED
    BY <1>5, <2>1, <2>2 DEF Framed
<1> QED
  BY <1>7, <1>8

\* The other steps of the coroutine leave its units alone.
LEMMA OtherMoves ==
  ASSUME Typed, Undisturbed, EndedInTime, Framed,
         \/ ReceiveFailure \/ Refuse \/ Emitted \/ OutputFails \/ BreakOff \/ ReceiverAwaited
         \/ SynthesisClosed \/ FinishOutput \/ Cancel
  PROVE  Framed' /\ (Going' => TakesNothing)
<1>1. UNCHANGED <<played, outbox, pending, buffered, last, prepared, committed>>
  BY CancelCases DEF ReceiveFailure, Refuse, Emitted, OutputFails, BreakOff, ReceiverAwaited,
                     SynthesisClosed, FinishOutput
<1>2. \/ ~ Going'
      \/ stage = "emitting" /\ stage' = "getting" /\ outbox = <<>> /\ chunks' = chunks /\ ~last
  BY CancelCases DEF ReceiveFailure, Refuse, Emitted, OutputFails, BreakOff, ReceiverAwaited,
                     SynthesisClosed, FinishOutput, TearDown, After, Going
<1>3. CASE ~ Going'
  BY <1>1, <1>3 DEF Framed
<1>4. CASE stage = "emitting" /\ stage' = "getting" /\ outbox = <<>> /\ chunks' = chunks /\ ~last
  BY <1>1, <1>4 DEF Framed, TakesNothing, Taken, Going
<1> QED
  BY <1>2, <1>3, <1>4

\* A coroutine that goes on was at work before, and has stopped nobody.
LEMMA CoroutineGoes ==
  ASSUME Typed, Coroutine \/ Cancel, Going'
  PROVE  Going /\ UNCHANGED <<cancellation, events, unwanted>>
<1>1. CASE Receive \/ ReceiveFailure \/ ReceiveEnd
  BY <1>1 DEF Receive, ReceiveFailure, ReceiveEnd, TearDown, After, Going
<1>2. CASE ReceiveClip \/ Prepare \/ Refuse \/ Emit \/ FirstFrameRefused
  BY <1>2 DEF ReceiveClip, Prepare, Refuse, Emit, FirstFrameRefused, TearDown, After, Going
<1>3. CASE Emitted \/ OutputFails \/ BreakOff \/ ReceiverAwaited \/ SynthesisClosed \/ FinishOutput
  BY <1>3 DEF Emitted, OutputFails, BreakOff, ReceiverAwaited, SynthesisClosed, FinishOutput,
              TearDown, After, Going
<1>4. CASE Cancel
  BY <1>4, CancelCases DEF After, Going
<1> QED
  BY <1>1, <1>2, <1>3, <1>4 DEF Coroutine

\* What the coroutine does to the units on their way.
LEMMA CoroutineMoves ==
  ASSUME Typed, Undisturbed, EndedInTime, Framed, Fetched, Coroutine \/ Cancel
  PROVE  Framed' /\ (Going' => Going /\ (TakesNothing \/ TakesUnit \/ TakesEnd \/ TakesClip))
<1>1. Going' => Going
  BY CoroutineGoes
<1> QED
  BY <1>1, ReceiveMoves, EndMoves, ClipMoves, PrepareMoves, EmitMoves, OtherMoves DEF Coroutine

-----------------------------------------------------------------------------
(* From the provider to the queue                                          *)

\* Before the generator begins nothing happens, and the worker starts from nothing.
LEMMA UnstartedStays ==
  ASSUME Typed, Unstarted, [Next]_vars
  PROVE  Unstarted'
<1>1. CASE ProviderStep
  <2>1. UNCHANGED <<kind, gen, bound>>
    BY <1>1, ProviderFrame
  <2>2. gen # "fresh"
    BY <1>1 DEF Unstarted, ProviderStep, OnData, TaskEnds, Tell, Delta, DoneMark, BodyEnds,
                BodyFails, Over, Worker, WorkerStarts, WorkerCalls, WorkerFails, WorkerEnds, Put
  <2>3. worker' \in {"ready", "calling"} =>
          worker \in {"ready", "calling"} /\ server' = server
    BY <1>1 DEF Unstarted, ProviderStep, OnData, TaskEnds, Tell, Delta, DoneMark, BodyEnds,
                BodyFails, Over, Http, Worker, WorkerStarts, WorkerCalls, WorkerFails, WorkerEnds,
                Put
  <2> QED
    BY <2>1, <2>2, <2>3 DEF Unstarted
<1>2. CASE Generator
  <2>1. gen' # "fresh"
    BY <1>2 DEF Generator, Resume, Read, ReadBreaks, StopTask, Join, CloseSynthesis
  <2>2. \/ worker' = worker /\ server' = server
        \/ gen = "fresh" /\ worker' = worker /\ kind # "realtime"
        \/ gen = "fresh" /\ server' = server /\ kind = "realtime"
    BY <1>2 DEF Generator, Resume, Open, Read, ReadBreaks, StopTask, Join, CloseSynthesis
  <2>3. kind' = kind
    BY <1>2, GeneratorFrame
  <2> QED
    BY <2>1, <2>2, <2>3 DEF Unstarted
<1>3. CASE Receiver \/ Synthesis
  BY <1>3, ReceiverFrame, SynthesisFrame DEF Unstarted
<1>4. CASE Coroutine \/ Cancel
  <2>1. UNCHANGED <<kind, server, worker, settled, hand, gen>>
    BY <1>4, CoroutineFrame
  <2>2. ~bound => ~bound' /\ events' = events
    <3>1. CancelToken \/ StopReceiver \/ UNCHANGED <<cancellation, events, unwanted>>
      BY <1>4, CoroutineCancels
    <3> QED
      BY <3>1 DEF CancelToken, StopReceiver
  <2> QED
    BY <2>1, <2>2 DEF Unstarted
<1>5. CASE UNCHANGED vars
  BY <1>5 DEF vars, Unstarted
<1> QED
  BY <1>1, <1>2, <1>3, <1>4, <1>5, WhoSteps

\* What becomes of the provider is not taken back.
LEMMA EndsStand ==
  ASSUME Typed, Unstarted, [Next]_vars
  PROVE  kind' = kind /\ Ends \subseteq Ends'
<1>1. kind' = kind
  BY WhoSteps, ProviderFrame, GeneratorFrame, ReceiverFrame, SynthesisFrame, CoroutineFrame DEF vars
<1>2. server.fate \in {"done", "failed"} => server'.fate = server.fate /\ server'.said = server.said
  <2>1. CASE ProviderStep
    BY <2>1 DEF Unstarted, Typed, ProviderTyped, ProviderStep, OnData, TaskEnds, Tell, Delta,
                DoneMark, BodyEnds, BodyFails, Over, Worker, WorkerStarts, WorkerCalls,
                WorkerFails, WorkerEnds, Put
  <2>2. CASE Generator
    BY <2>2 DEF Unstarted, Generator, Resume, Open, Read, ReadBreaks, StopTask, Join,
                CloseSynthesis
  <2>3. CASE Receiver \/ Synthesis \/ Coroutine \/ Cancel \/ UNCHANGED vars
    BY <2>3, ReceiverFrame, SynthesisFrame, CoroutineFrame DEF vars
  <2> QED
    BY <2>1, <2>2, <2>3, WhoSteps
<1> QED
  BY <1>1, <1>2 DEF Ends

\* Only a realtime provider has threads, and what they hold fits what has become of it.
LEMMA HandedStays ==
  ASSUME Typed, Unstarted, Handed, [Next]_vars
  PROVE  Handed'
<1>1. /\ \A t \in Threads : hand[t] \in Item \cup {Nothing}
      /\ hand \in [Threads -> Item \cup {Nothing}] /\ server.said \in 0..Length
  BY DEF Typed, ProviderTyped
<1>2. "sdk" \in Threads /\ "worker" \in Threads /\ \A t \in Threads : t \in {"sdk", "worker"}
  BY DEF Threads
<1>3. CASE ProviderStep
  <2>1. kind' = kind
    BY <1>3, ProviderFrame
  <2>2. CASE OnData
    <3>1. server.said + 1 \in Units
      BY <1>1, <2>2, StreamedSpeechAssumption DEF OnData, Units
    <3>2. /\ kind = "realtime" /\ server'.fate = "running" /\ settled' = settled
          /\ hand'["worker"] = hand["worker"]
          /\ hand'["sdk"] \in {hand["sdk"], server.said + 1}
      BY <1>1, <1>2, <2>2 DEF OnData, Typed, ProviderTyped
    <3> QED
      BY <2>1, <3>1, <3>2, Items DEF Handed, Outcome
  <2>3. CASE \E fate \in {"done", "failed"} : TaskEnds(fate)
    BY <1>1, <1>2, <2>1, <2>3, Items DEF TaskEnds, Handed, Typed, ProviderTyped
  <2>4. CASE Tell
    BY <1>1, <1>2, <2>1, <2>4, Items DEF Tell, Settle, Handed, Typed, ProviderTyped
  <2>5. CASE Delta \/ DoneMark \/ BodyEnds \/ BodyFails
    BY <1>1, <1>2, <2>1, <2>5, Items DEF Delta, DoneMark, BodyEnds, BodyFails, Over, Http, Handed,
                                         Typed, ProviderTyped
  <2>6. CASE Worker
    <3>1. /\ kind = "realtime"
          /\ \/ UNCHANGED <<hand, settled>>
             \/ settled /\ hand' = hand /\ settled' = TRUE
             \/ settled' = TRUE /\ hand' \in {[hand EXCEPT !["worker"] = End],
                                            [hand EXCEPT !["worker"] = Failure]}
      BY <1>1, <2>6 DEF Worker, WorkerStarts, WorkerCalls, WorkerFails, WorkerEnds, Settle, Handed,
                        Unstarted, Typed, ProviderTyped
    <3>2. server' = server \/ (server.fate = "idle" /\ server' = [server EXCEPT !.fate = "running"])
      BY <2>6 DEF Worker, WorkerStarts, WorkerCalls, WorkerFails, WorkerEnds, Unstarted
    <3>3. /\ hand'["sdk"] = hand["sdk"] /\ hand'["worker"] \notin Units
          /\ (settled' = settled /\ hand' = hand) \/ settled'
      BY <1>1, <1>2, <3>1, Items DEF Handed
    <3>4. hand["sdk"] \in Units => server'.fate = "running"
      BY <1>1, <3>2 DEF Handed, Typed, ProviderTyped
    <3>5. server'.fate = "done" => server' = server
      BY <3>2 DEF Typed, ProviderTyped
    <3> QED
      BY <2>1, <3>1, <3>3, <3>4, <3>5 DEF Handed
  <2>7. CASE \E t \in Threads : Put(t)
    BY <1>1, <1>2, <2>1, <2>7, Items DEF Put, Handed, Outcome, Typed, ProviderTyped
  <2> QED
    BY <1>3, <2>2, <2>3, <2>4, <2>5, <2>6, <2>7 DEF ProviderStep
<1>4. CASE Generator
  <2>1. UNCHANGED <<kind, hand>>
    BY <1>4, GeneratorFrame
  <2>2. \/ worker' = worker /\ server' = server
        \/ gen = "fresh" /\ worker' = worker /\ server'.fate = "running" /\ kind # "realtime"
        \/ gen = "fresh" /\ server' = server /\ kind = "realtime"
    BY <1>4 DEF Generator, Resume, Open, Read, ReadBreaks, StopTask, Join, CloseSynthesis, Typed, ProviderTyped
  <2>3. settled' = settled \/ settled'
    BY <1>4 DEF Generator, Resume, Open, Read, ReadBreaks, StopTask, Join, CloseSynthesis
  <2> QED
    BY <1>2, <2>1, <2>2, <2>3, Items DEF Handed, Unstarted
<1>5. CASE Receiver \/ Synthesis \/ Coroutine \/ Cancel \/ UNCHANGED vars
  BY <1>5, ReceiverFrame, SynthesisFrame, CoroutineFrame DEF vars, Handed
<1> QED
  BY <1>3, <1>4, <1>5, WhoSteps

-----------------------------------------------------------------------------
(* From the generator to the queue                                         *)

\* While the coroutine goes on it is not told to stop, and leaves the queues of others alone.
LEMMA GoesOn ==
  ASSUME Typed, Undisturbed, [Next]_vars, Going'
  PROVE  /\ Going /\ ~token /\ ~unwanted /\ closing = "no" /\ holder # "close" /\ kind' = kind
         /\ Coroutine \/ Cancel => UNCHANGED <<cancellation, events, unwanted>>
<1>1. CASE ProviderStep \/ Generator \/ Receiver \/ Synthesis \/ UNCHANGED vars
  <2>1. stage' = stage /\ kind' = kind
    BY <1>1, ProviderFrame, GeneratorFrame, ReceiverFrame, SynthesisFrame DEF vars
  <2>2. Coroutine \/ Cancel => UNCHANGED <<cancellation, events, unwanted>>
    BY CoroutineGoes
  <2> QED
    BY <2>1, <2>2 DEF Undisturbed, Going
<1>2. CASE Coroutine \/ Cancel
  BY <1>2, CoroutineGoes, CoroutineFrame DEF Undisturbed
<1> QED
  BY <1>1, <1>2, WhoSteps

\* The steps of the generator that matter to a coroutine that goes on.
LEMMA GeneratorGoes ==
  ASSUME Typed, Undisturbed, Linked, Generator, Going, kind # "whole"
  PROVE  /\ UNCHANGED <<Taken, chunks, receiver, item, kind>>
         /\ \/ /\ gen \in Unread /\ gen' = "reading" /\ receiver = "asking" /\ got = Nothing
               /\ got' = got /\ ~stopped'
               /\ IF gen = "fresh" THEN Open /\ events' = <<>> /\ settled' = settled
                                   ELSE UNCHANGED <<provider>>
            \/ /\ gen = "reading" /\ receiver = "asking" /\ got = Nothing /\ events # <<>>
               /\ Head(events) \in Item /\ got' = Head(events) /\ events' = Tail(events)
               /\ gen' = IF Head(events) \in Units THEN "suspended" ELSE "stopping"
               /\ UNCHANGED <<server, hand, settled, stopped>>
            \/ gen \notin Unread /\ gen' \notin Unread /\ got' = got
<1>1. /\ ~token /\ ~unwanted /\ closing = "no" /\ holder # "close" /\ chunks' = chunks
      /\ Taken' = Taken /\ receiver' = receiver /\ item' = item /\ kind' = kind
  BY GeneratorFrame DEF Undisturbed, Taken
<1>2. gen \in Unread \cup {"stopping", "joining", "closed"}
  BY DEF Typed, ReceiverTyped, Unread
<1>3. CASE Resume
  <2>1. gen \in Unread
    BY <1>3, Items DEF Resume, Linked, Outcome
  <2>2. /\ gen' = "reading" /\ receiver = "asking" /\ got = Nothing /\ got' = got
    BY <1>3, <2>1 DEF Resume, Unread
  <2>3. IF gen = "fresh" THEN Open /\ events' = <<>> /\ settled' = settled /\ ~stopped'
                         ELSE UNCHANGED <<provider, stopped>>
    BY <1>1, <1>3 DEF Resume, Open, Bind, Typed, ProviderTyped
  <2>4. ~stopped
    BY <2>1 DEF Linked
  <2> QED
    BY <1>1, <2>1, <2>2, <2>3, <2>4
<1>4. CASE Read
  <2>1. Head(events) \in Item
    BY <1>4, QueueShrinks DEF Read, Typed, ProviderTyped
  <2>2. receiver = "asking" /\ got = Nothing
    BY <1>4 DEF Read, Linked
  <2> QED
    BY <1>1, <1>4, <2>1, <2>2, Items DEF Read
<1>5. CASE ReadBreaks \/ StopTask \/ Join \/ CloseSynthesis
  BY <1>1, <1>2, <1>5 DEF ReadBreaks, StopTask, Join, CloseSynthesis, Unread
<1> QED
  BY <1>3, <1>4, <1>5 DEF Generator

\* The steps of the receiver that matter to it.
LEMMA ReceiverGoes ==
  ASSUME Typed, Undisturbed, Receiver, Going
  PROVE  /\ UNCHANGED <<Taken, gen, stopped, kind>>
         /\ \/ /\ receiver = "looping" /\ receiver' = "asking" /\ got' = Nothing
               /\ UNCHANGED <<item, chunks>>
            \/ /\ receiver = "asking" /\ receiver' = "putting" /\ got # Nothing /\ item' = got
               /\ UNCHANGED <<got, chunks>>
            \/ /\ receiver = "putting" /\ chunks' = Append(chunks, item) /\ item \in Item
               /\ receiver' = IF item \in Units THEN "looping" ELSE "over"
               /\ UNCHANGED <<got, item>>
<1>1. ~token /\ ~unwanted
  BY DEF Undisturbed
<1>2. UNCHANGED <<Taken, gen, stopped, kind>>
  BY ReceiverFrame DEF Taken
<1> QED
  BY <1>1, <1>2 DEF Receiver, ReceiverAsks, ReceiverGets, Returned, ReceiverPuts, ReceiverStops,
                    Typed, ReceiverTyped

\* The receiver and the generator stay of one mind.
LEMMA LinkedStays ==
  ASSUME Typed, Undisturbed, EndedInTime, Framed, Fetched, Linked, [Next]_vars
  PROVE  Linked'
<1> SUFFICES ASSUME Going', kind' # "whole" PROVE Linked'
  BY DEF Linked
<1>1. Going /\ kind # "whole" /\ kind' = kind
  BY GoesOn
<1>2. CASE ProviderStep \/ Synthesis \/ UNCHANGED vars
  <2>1. UNCHANGED <<Taken, gen, stopped, receiver, item, got, chunks>>
    BY <1>2, ProviderFrame, SynthesisFrame DEF vars, Taken
  <2> QED
    BY <1>1, <2>1 DEF Linked
<1>3. CASE Generator
  <2>1. Taken' = Taken /\ chunks' = chunks /\ receiver' = receiver /\ item' = item
    BY <1>1, <1>3, GeneratorGoes
  <2> QED
    BY <1>1, <1>3, <2>1, GeneratorGoes, Items DEF Linked, Unread, Outcome
<1>4. CASE Receiver
  BY <1>1, <1>4, ReceiverGoes, Items DEF Linked, Unread, Outcome, Typed, ReceiverTyped
<1>5. CASE Coroutine \/ Cancel
  <2>1. UNCHANGED <<gen, receiver, item, got, stopped>>
    BY <1>5, CoroutineFrame, GoesOn
  <2>2. gen = "fresh" => Taken' = 0 /\ chunks' = <<>>
    BY <1>1, <1>5, CoroutineMoves DEF TakesNothing, TakesUnit, TakesEnd, TakesClip, Linked
  <2> QED
    BY <1>1, <2>1, <2>2 DEF Linked
<1> QED
  BY <1>2, <1>3, <1>4, <1>5, WhoSteps

\* What the receiver holds follows what the coroutine has taken and the queue has.
LEMMA FetchedStays ==
  ASSUME Typed, Undisturbed, EndedInTime, Framed, Unstarted, Fetched, Linked, Said, [Next]_vars
  PROVE  Fetched'
<1> SUFFICES ASSUME Going', kind' # "whole" PROVE Fetched'
  BY DEF Fetched
<1>1. Going /\ kind # "whole" /\ kind' = kind /\ Ends \subseteq Ends'
  BY GoesOn, EndsStand
<1>2. /\ chunks \in Seq(Item) /\ Len(chunks) \in Nat /\ Taken \in Nat
      /\ \A i \in 1..Len(chunks) : chunks[i] \in Item
  BY Counts DEF Typed, ReceiverTyped
<1>3. /\ \A i \in 1..Len(chunks) : /\ Follows(chunks[i], Taken + i - 1)
                                   /\ chunks[i] \in Outcome => i = Len(chunks) /\ receiver = "over"
      /\ receiver = "putting" => Follows(item, Taken + Len(chunks))
      /\ receiver = "asking"  => Follows(got, Taken + Len(chunks))
  BY <1>1 DEF Fetched
<1>4. CASE ProviderStep \/ Synthesis \/ UNCHANGED vars
  <2>1. UNCHANGED <<Taken, receiver, item, got, chunks>>
    BY <1>4, ProviderFrame, SynthesisFrame DEF vars, Taken
  <2> QED
    BY <1>1, <1>3, <2>1 DEF Fetched, Follows
<1>5. CASE Generator
  <2>1. Taken' = Taken /\ chunks' = chunks /\ receiver' = receiver /\ item' = item
    BY <1>1, <1>5, GeneratorGoes
  <2>2. \/ got' = got
        \/ /\ gen = "reading" /\ receiver = "asking" /\ got = Nothing /\ events # <<>>
           /\ got' = Head(events)
    BY <1>1, <1>5, GeneratorGoes
  <2>3. CASE got' = got
    BY <1>1, <1>3, <2>1, <2>3 DEF Fetched, Follows
  <2>4. CASE /\ gen = "reading" /\ receiver = "asking" /\ got = Nothing /\ events # <<>>
             /\ got' = Head(events)
    <3>1. Queued /\ Yielded = Taken + Len(chunks)
      BY <1>1, <1>2, <2>4 DEF Said, Unread, Yielded
    <3>2. events \in Seq(Item) /\ 1 \in 1..Len(events) /\ Head(events) = events[1]
      BY <2>4, QueueShrinks DEF Typed, ProviderTyped
    <3>3. Follows(events[1], Yielded + 1 - 1)
      <4>1. 1..(1 - 1) = {}
        OBVIOUS
      <4> QED
        BY <3>1, <3>2, <4>1 DEF Queued
    <3>4. Yielded + 1 - 1 = Taken + Len(chunks)
      BY <1>2, <3>1
    <3> QED
      BY <1>1, <1>3, <2>1, <2>4, <3>2, <3>3, <3>4 DEF Fetched, Follows
  <2> QED
    BY <2>2, <2>3, <2>4
<1>6. CASE Receiver
  <2>1. Taken' = Taken
    BY <1>1, <1>6, ReceiverGoes
  <2>2. CASE receiver = "looping" /\ receiver' = "asking" /\ got' = Nothing /\ chunks' = chunks
    BY <1>1, <1>3, <2>1, <2>2, Items, StreamedSpeechAssumption DEF Fetched, Follows
  <2>3. CASE receiver = "asking" /\ receiver' = "putting" /\ item' = got /\ chunks' = chunks
    BY <1>1, <1>3, <2>1, <2>3 DEF Fetched, Follows
  <2>4. CASE /\ receiver = "putting" /\ chunks' = Append(chunks, item) /\ item \in Item
             /\ receiver' = IF item \in Units THEN "looping" ELSE "over"
    <3>1. /\ Len(chunks') = Len(chunks) + 1 /\ chunks'[Len(chunks) + 1] = item
          /\ \A i \in 1..Len(chunks) : chunks'[i] = chunks[i]
      BY <1>2, <2>4, QueueGrows
    <3>2. receiver' # "putting" /\ receiver' # "asking"
      BY <2>4
    <3> SUFFICES ASSUME NEW i \in 1..(Len(chunks) + 1)
                 PROVE  /\ Follows(chunks[i], Taken + i - 1)'
                        /\ chunks'[i] \in Outcome => i = Len(chunks') /\ receiver' = "over"
      BY <3>1, <3>2 DEF Fetched
    <3>3. CASE i \in 1..Len(chunks)
      BY <1>1, <1>3, <2>1, <2>4, <3>1, <3>3 DEF Follows
    <3>4. CASE i = Len(chunks) + 1
      <4>1. Taken + i - 1 = Taken + Len(chunks)
        BY <1>2, <3>4
      <4> QED
        BY <1>1, <1>3, <2>1, <2>4, <3>1, <3>4, <4>1, Items DEF Follows, Outcome
    <3> QED
      BY <1>2, <3>3, <3>4
  <2> QED
    BY <1>1, <1>6, <2>2, <2>3, <2>4, ReceiverGoes
<1>7. CASE Coroutine \/ Cancel
  <2>1. UNCHANGED <<receiver, item, got>>
    BY <1>7, CoroutineFrame
  <2>2. TakesNothing \/ TakesUnit \/ TakesEnd
    BY <1>1, <1>7, CoroutineMoves DEF TakesClip
  <2>3. CASE TakesNothing
    BY <1>1, <1>3, <2>1, <2>3 DEF TakesNothing, Fetched, Follows
  <2>4. CASE TakesUnit
    <3>1. /\ chunks # <<>> /\ chunks' = Tail(chunks) /\ Taken' = Taken + 1
      BY <2>4 DEF TakesUnit
    <3>2. /\ Len(chunks') = Len(chunks) - 1 /\ Len(chunks) > 0
          /\ \A i \in 1..(Len(chunks) - 1) : chunks'[i] = chunks[i + 1]
      BY <1>2, <3>1, QueueShrinks
    <3>3. Taken' + Len(chunks') = Taken + Len(chunks)
      BY <1>2, <3>1, <3>2
    <3>4. /\ receiver' = "putting" => Follows(item, Taken + Len(chunks))'
          /\ receiver' = "asking" => Follows(got, Taken + Len(chunks))'
      BY <1>1, <1>3, <2>1, <3>3 DEF Follows
    <3>5. ASSUME NEW i \in 1..Len(chunks')
          PROVE  /\ chunks'[i] \in Units => chunks'[i] = Taken' + i - 1 + 1
                 /\ chunks'[i] = End => Taken' + i - 1 \in Ends'
                 /\ chunks'[i] \in Outcome => i = Len(chunks') /\ receiver' = "over"
      <4>1. i + 1 \in 1..Len(chunks) /\ chunks'[i] = chunks[i + 1]
        BY <1>2, <3>2
      <4>2. Taken + (i + 1) - 1 = Taken' + i - 1
        BY <1>2, <3>1, <3>2
      <4>3. Follows(chunks[i + 1], Taken + (i + 1) - 1)
        BY <1>3, <4>1
      <4>4. chunks[i + 1] \in Outcome => i + 1 = Len(chunks) /\ receiver = "over"
        BY <1>3, <4>1
      <4>5. i + 1 = Len(chunks) => i = Len(chunks')
        BY <1>2, <3>2
      <4> QED
        BY <1>1, <2>1, <4>1, <4>2, <4>3, <4>4, <4>5 DEF Follows
    <3>6. \A i \in 1..Len(chunks') :
            /\ Follows(chunks[i], Taken + i - 1)'
            /\ chunks'[i] \in Outcome => i = Len(chunks') /\ receiver' = "over"
      BY <3>5 DEF Follows
    <3> QED
      BY <3>4, <3>6 DEF Fetched
  <2>5. CASE TakesEnd
    <3>1. chunks # <<>> /\ chunks' = Tail(chunks) /\ Head(chunks) \in Outcome /\ receiver = "over"
      BY <2>5 DEF TakesEnd, Outcome
    <3>2. Len(chunks) = 1 /\ Len(chunks') = Len(chunks) - 1
      BY <1>1, <1>2, <3>1, FirstFollows, QueueShrinks
    <3>3. receiver' = "over" /\ Len(chunks') = 0
      BY <2>1, <3>1, <3>2
    <3>4. \A i \in 1..Len(chunks') : FALSE
      BY <3>3
    <3> QED
      BY <3>3, <3>4 DEF Fetched
  <2> QED
    BY <2>2, <2>3, <2>4, <2>5
<1> QED
  BY <1>4, <1>5, <1>6, <1>7, WhoSteps

\* What has been yielded grows only by what is read.
LEMMA YieldedGoes ==
  ASSUME Typed, Undisturbed, EndedInTime, Framed, Unstarted, Fetched, Linked, [Next]_vars,
         Going', kind' # "whole", gen' \in Unread
  PROVE  /\ Going /\ kind # "whole" /\ kind' = kind /\ gen \in Unread /\ Yielded \in Nat
         /\ Generator \/ Yielded' = Yielded
<1>1. Going /\ kind # "whole" /\ kind' = kind
  BY GoesOn
<1>2. /\ chunks \in Seq(Item) /\ Len(chunks) \in Nat /\ Taken \in Nat
  BY Counts DEF Typed, ReceiverTyped
<1>3. Yielded \in Nat
  BY <1>2 DEF Yielded
<1>4. CASE ProviderStep \/ Synthesis \/ UNCHANGED vars
  <2>1. UNCHANGED <<Taken, gen, receiver, item, got, chunks>>
    BY <1>4, ProviderFrame, SynthesisFrame DEF vars, Taken
  <2> QED
    BY <1>1, <1>3, <2>1 DEF Yielded
<1>5. CASE Generator
  <2>1. gen \in Unread
    BY <1>1, <1>5, GeneratorGoes DEF Unread
  <2> QED
    BY <1>1, <1>3, <1>5, <2>1
<1>6. CASE Receiver
  <2>1. Taken' = Taken /\ gen' = gen /\ receiver # "over" /\ (receiver = "putting" => item \in Units)
    BY <1>1, <1>6, ReceiverGoes DEF Linked
  <2>2. \/ receiver = "looping" /\ receiver' = "asking" /\ got' = Nothing /\ chunks' = chunks
        \/ receiver = "asking" /\ receiver' = "putting" /\ got # Nothing /\ chunks' = chunks
        \/ /\ receiver = "putting" /\ chunks' = Append(chunks, item) /\ item \in Item
           /\ receiver' = "looping"
    BY <1>1, <1>6, <2>1, ReceiverGoes
  <2>3. receiver = "putting" /\ chunks' = Append(chunks, item) => Len(chunks') = Len(chunks) + 1
    BY <1>2, <2>2, QueueGrows
  <2> QED
    BY <1>1, <1>2, <1>3, <2>1, <2>2, <2>3 DEF Yielded
<1>7. CASE Coroutine \/ Cancel
  <2>1. UNCHANGED <<receiver, item, got, gen>>
    BY <1>7, CoroutineFrame
  <2>2. TakesNothing \/ TakesUnit
    BY <1>1, <1>7, <2>1, CoroutineMoves DEF TakesClip, TakesEnd, Linked
  <2>3. Taken' + Len(chunks') = Taken + Len(chunks)
    <3>1. chunks # <<>> => Len(Tail(chunks)) = Len(chunks) - 1
      BY <1>2, QueueShrinks
    <3> QED
      BY <1>2, <2>2, <3>1 DEF TakesNothing, TakesUnit
  <2> QED
    BY <1>1, <1>3, <2>1, <2>3 DEF Yielded
<1> QED
  BY <1>4, <1>5, <1>6, <1>7, WhoSteps

\* What is in the queue of the generator stays right if nothing is taken from it.
LEMMA SaidAlong ==
  ASSUME Typed, Said, kind' = kind, Ends \subseteq Ends', Going, kind # "whole", gen \in Unread,
         UNCHANGED <<server, events, settled, hand, Yielded>>
  PROVE  Said'
<1>1. /\ Queued
      /\ Http /\ server.fate = "running" => Clean /\ Yielded + Len(events) = server.said
      /\ kind = "realtime" =>
           /\ hand["worker"] = End => server.fate \in {"done", "failed"}
           /\ ~settled =>
                /\ Clean
                /\ hand["sdk"] = Nothing => Yielded + Len(events) = server.said
                /\ hand["sdk"] # Nothing => /\ hand["sdk"] = server.said
                                            /\ Yielded + Len(events) + 1 = server.said
           /\ Clean => \A t \in Threads : Follows(hand[t], Yielded + Len(events))
  BY DEF Said
<1>2. Queued' /\ (Clean' <=> Clean) /\ (Http' <=> Http)
  BY <1>1 DEF Queued, Clean, Http, Follows
<1> QED
  BY <1>1, <1>2 DEF Said, Follows

\* Something is put into the queue of the generator.
LEMMA QueuedGrows ==
  ASSUME Typed, Queued, Ends \subseteq Ends', Yielded \in Nat, Yielded' = Yielded,
         NEW x \in Item, events' = Append(events, x),
         Clean => /\ x \in Units => x = Yielded + Len(events) + 1
                  /\ x = End => Yielded + Len(events) \in Ends'
  PROVE  /\ Queued' /\ Len(events') = Len(events) + 1 /\ Len(events) \in Nat
         /\ Clean' <=> (Clean /\ x \in Units)
<1>1. /\ events \in Seq(Item) /\ Len(events) \in Nat /\ Len(events') = Len(events) + 1
      /\ \A i \in 1..Len(events) : events'[i] = events[i]
      /\ events'[Len(events) + 1] = x
  BY QueueGrows DEF Typed, ProviderTyped
<1>2. Clean' <=> (Clean /\ x \in Units)
  BY <1>1 DEF Clean
<1>3. ASSUME NEW i \in 1..Len(events'), \A j \in 1..(i - 1) : events'[j] \in Units
      PROVE  /\ events'[i] \in Units => events'[i] = Yielded' + i - 1 + 1
             /\ events'[i] = End => Yielded' + i - 1 \in Ends'
  <2>1. CASE i \in 1..Len(events)
    <3>1. \A j \in 1..(i - 1) : events[j] \in Units
      BY <1>1, <1>3, <2>1
    <3>2. Follows(events[i], Yielded + i - 1)
      BY <2>1, <3>1 DEF Queued
    <3> QED
      BY <1>1, <2>1, <3>2 DEF Follows
  <2>2. CASE i = Len(events) + 1
    <3>1. Clean
      BY <1>1, <1>3, <2>2 DEF Clean
    <3>2. Yielded + i - 1 = Yielded + Len(events) /\ Yielded + i - 1 + 1 = Yielded + Len(events) + 1
      BY <1>1, <2>2
    <3> QED
      BY <1>1, <2>2, <3>1, <3>2
  <2> QED
    BY <1>1, <2>1, <2>2
<1>4. Queued'
  BY <1>3 DEF Queued, Follows
<1> QED
  BY <1>1, <1>2, <1>4

\* A unit is read.
LEMMA QueuedShrinks ==
  ASSUME Typed, Queued, Ends \subseteq Ends', Yielded \in Nat, Yielded' = Yielded + 1,
         events # <<>>, Head(events) \in Units, events' = Tail(events)
  PROVE  /\ Queued' /\ Yielded' + Len(events') = Yielded + Len(events)
         /\ Clean' <=> Clean
<1>1. /\ events \in Seq(Item) /\ Len(events) \in Nat /\ Len(events') = Len(events) - 1
      /\ Len(events) > 0 /\ \A i \in 1..(Len(events) - 1) : events'[i] = events[i + 1]
      /\ events[1] \in Units
  BY QueueShrinks DEF Typed, ProviderTyped
<1>2. Clean' <=> Clean
  <2>1. ASSUME Clean' , NEW i \in 1..Len(events) PROVE events[i] \in Units
    <3>1. CASE i = 1
      BY <1>1, <3>1
    <3>2. CASE i > 1
      <4>1. i - 1 \in 1..Len(events') /\ events'[i - 1] = events[(i - 1) + 1] /\ (i - 1) + 1 = i
        BY <1>1, <3>2
      <4> QED
        BY <2>1, <4>1 DEF Clean
    <3> QED
      BY <3>1, <3>2
  <2>2. ASSUME Clean, NEW i \in 1..Len(events') PROVE events'[i] \in Units
    <3>1. i + 1 \in 1..Len(events) /\ events'[i] = events[i + 1]
      BY <1>1
    <3> QED
      BY <2>2, <3>1 DEF Clean
  <2> QED
    BY <2>1, <2>2 DEF Clean
<1>3. ASSUME NEW i \in 1..Len(events'), \A j \in 1..(i - 1) : events'[j] \in Units
      PROVE  /\ events'[i] \in Units => events'[i] = Yielded' + i - 1 + 1
             /\ events'[i] = End => Yielded' + i - 1 \in Ends'
  <2>1. i + 1 \in 1..Len(events) /\ events'[i] = events[i + 1]
    BY <1>1
  <2>2. ASSUME NEW j \in 1..((i + 1) - 1) PROVE events[j] \in Units
    <3>1. CASE j = 1
      BY <1>1, <3>1
    <3>2. CASE j > 1
      <4>1. j - 1 \in 1..(i - 1) /\ j - 1 \in 1..(Len(events) - 1) /\ (j - 1) + 1 = j
        BY <1>1, <3>2
      <4> QED
        BY <1>1, <1>3, <4>1
    <3> QED
      BY <3>1, <3>2
  <2>3. Follows(events[i + 1], Yielded + (i + 1) - 1)
    BY <2>1, <2>2 DEF Queued
  <2>4. Yielded + (i + 1) - 1 = Yielded' + i - 1
    BY <1>1
  <2> QED
    BY <2>1, <2>3, <2>4 DEF Follows
<1>4. Queued'
  BY <1>3 DEF Queued, Follows
<1> QED
  BY <1>1, <1>2, <1>4

\* What the provider's threads and its socket do keeps the order of what it says.
LEMMA ProviderSaid ==
  ASSUME Typed, Undisturbed, Unstarted, Linked, Handed, Said, [Next]_vars, ProviderStep,
         Going, kind # "whole", gen \in Unread, Yielded \in Nat
  PROVE  Said'
<1>1. /\ UNCHANGED <<kind, gen, stopped, Yielded, stage>> /\ Ends \subseteq Ends'
      /\ ~stopped
  BY ProviderFrame, EndsStand DEF Yielded, Taken, Linked
<1>2. /\ Queued
      /\ Http /\ server.fate = "running" => Clean /\ Yielded + Len(events) = server.said
      /\ kind = "realtime" =>
           /\ hand["worker"] = End => server.fate \in {"done", "failed"}
           /\ ~settled =>
                /\ Clean
                /\ hand["sdk"] = Nothing => Yielded + Len(events) = server.said
                /\ hand["sdk"] # Nothing => /\ hand["sdk"] = server.said
                                            /\ Yielded + Len(events) + 1 = server.said
           /\ Clean => \A t \in Threads : Follows(hand[t], Yielded + Len(events))
  BY DEF Said
<1>3. /\ hand \in [Threads -> Item \cup {Nothing}] /\ server.said \in 0..Length
      /\ server \in [said : 0..Length, fate : {"idle", "running", "done", "failed"},
                     told : BOOLEAN]
      /\ events \in Seq(Item) /\ Len(events) \in Nat /\ settled \in BOOLEAN
  BY DEF Typed, ProviderTyped
<1>4. "sdk" \in Threads /\ "worker" \in Threads /\ \A t \in Threads : t \in {"sdk", "worker"}
  BY DEF Threads
<1>5. /\ hand["sdk"] \in Item \cup {Nothing} /\ hand["worker"] \in Item \cup {Nothing}
  BY <1>3, <1>4
<1>6. Handed'
  BY HandedStays
<1>7. (events' = events => Queued' /\ (Clean' <=> Clean)) /\ (Http' <=> Http)
  BY <1>1, <1>2 DEF Queued, Clean, Http, Follows
\* The end of a reply that is not settled, once the task is over.
<1>8. ASSUME kind = "realtime", ~settled, server.fate = "done"
      PROVE  hand["sdk"] = Nothing /\ Yielded + Len(events) \in Ends
  <2>1. hand["sdk"] = Nothing
    BY <1>5, <1>8, Items DEF Handed, Outcome
  <2>2. server.said = Length
    BY <1>8 DEF Handed
  <2> QED
    BY <1>2, <1>3, <1>8, <2>1, <2>2 DEF Ends
<1>9. ASSUME kind = "realtime", server.fate = "failed"
      PROVE  Yielded + Len(events) \in Ends
  BY <1>3, <1>9 DEF Ends
<1>10. CASE OnData
  <2>1. /\ kind = "realtime" /\ server.fate = "running" /\ server'.fate = server.fate
        /\ server'.said = server.said + 1 /\ hand["sdk"] = Nothing
        /\ UNCHANGED <<events, settled>>
        /\ hand' = IF settled THEN hand ELSE [hand EXCEPT !["sdk"] = server.said + 1]
    BY <1>3, <1>10 DEF OnData
  <2>2. hand["worker"] # End
    BY <1>2, <2>1
  <2>3. /\ hand'["worker"] = hand["worker"]
        /\ hand'["sdk"] = IF settled THEN Nothing ELSE server.said + 1
    BY <1>3, <1>4, <2>1
  <2>4. server.said + 1 \in Units
    BY <1>3, <1>10, StreamedSpeechAssumption DEF OnData, Units
  <2>5. ~settled => Clean /\ Yielded + Len(events) = server.said
    BY <1>2, <2>1
  <2>6. Clean' => \A t \in Threads : Follows(hand[t], Yielded + Len(events))'
    <3> SUFFICES ASSUME Clean', NEW t \in Threads PROVE Follows(hand[t], Yielded + Len(events))'
      OBVIOUS
    <3>1. CASE t = "worker"
      BY <1>1, <1>2, <1>7, <2>1, <2>2, <2>3, <3>1 DEF Follows
    <3>2. CASE t = "sdk"
      BY <1>1, <2>1, <2>3, <2>4, <2>5, <3>2, Items, StreamedSpeechAssumption DEF Follows
    <3> QED
      BY <1>4, <3>1, <3>2
  <2> QED
    BY <1>1, <1>7, <2>1, <2>2, <2>3, <2>4, <2>5, <2>6, Items DEF Said, Http
<1>11. CASE \E fate \in {"done", "failed"} : TaskEnds(fate)
  <2>1. /\ kind = "realtime" /\ server'.fate \in {"done", "failed"} /\ server'.said = server.said
        /\ UNCHANGED <<events, settled, hand>>
    BY <1>3, <1>11 DEF TaskEnds
  <2>2. Clean' => \A t \in Threads : Follows(hand[t], Yielded + Len(events))'
    BY <1>1, <1>2, <1>7, <2>1 DEF Follows
  <2> QED
    BY <1>1, <1>2, <1>7, <2>1, <2>2 DEF Said, Http
<1>12. ASSUME kind = "realtime", UNCHANGED <<events, server>>, settled', NEW u \in Threads,
              NEW x \in Outcome,
              x = End => server.fate \in {"done", "failed"},
              hand' = IF settled THEN hand ELSE [hand EXCEPT ![u] = x]
       PROVE  Said'
  <2>1. /\ hand'["worker"] = hand["worker"] \/ (hand'["worker"] = x /\ ~settled)
        /\ hand'["sdk"] = hand["sdk"] \/ (hand'["sdk"] = x /\ ~settled)
    BY <1>3, <1>4, <1>12
  <2>2. ~settled /\ x = End => Yielded + Len(events) \in Ends
    BY <1>8, <1>9, <1>12
  <2>3. x \notin Units
    BY Items DEF Outcome
  <2>4. hand'["worker"] = End => server'.fate \in {"done", "failed"}
    BY <1>2, <1>12, <2>1
  <2>5. Clean' => \A t \in Threads : Follows(hand[t], Yielded + Len(events))'
    BY <1>1, <1>2, <1>4, <1>7, <1>12, <2>1, <2>2, <2>3 DEF Follows
  <2> QED
    BY <1>1, <1>7, <1>12, <2>4, <2>5 DEF Said, Http
<1>13. CASE Tell
  <2>1. /\ kind = "realtime" /\ events' = events /\ settled' = TRUE
        /\ server'.fate = server.fate /\ server'.said = server.said
        /\ hand' = IF settled THEN hand
                   ELSE [hand EXCEPT !["sdk"] = IF server.fate = "done" THEN End ELSE Failure]
    BY <1>3, <1>13 DEF Tell, Settle
  <2>2. server.fate \in {"done", "failed"}
    BY <1>13 DEF Tell
  <2>3. hand'["worker"] = hand["worker"]
    BY <1>3, <1>4, <2>1
  <2>4. \/ hand'["sdk"] = hand["sdk"]
        \/ ~settled /\ hand'["sdk"] = IF server.fate = "done" THEN End ELSE Failure
    BY <1>3, <1>4, <2>1
  <2>5. hand'["sdk"] = hand["sdk"] \/ Follows(hand["sdk"], Yielded + Len(events))'
    BY <1>1, <1>8, <2>1, <2>2, <2>4, Items DEF Follows
  <2>6. Clean' => \A t \in Threads : Follows(hand[t], Yielded + Len(events))'
    <3> SUFFICES ASSUME Clean', NEW t \in Threads PROVE Follows(hand[t], Yielded + Len(events))'
      OBVIOUS
    <3>1. Follows(hand[t], Yielded + Len(events))
      BY <1>2, <1>7, <2>1
    <3> QED
      BY <1>1, <1>4, <2>1, <2>3, <2>5, <3>1 DEF Follows
  <2> QED
    BY <1>1, <1>2, <1>7, <2>1, <2>3, <2>6 DEF Said, Http
<1>14. CASE WorkerStarts
  BY <1>1, <1>14, SaidAlong DEF WorkerStarts
<1>15. CASE WorkerCalls
  <2>1. /\ kind = "realtime" /\ server.fate = "idle" /\ UNCHANGED <<events, settled, hand>>
        /\ server'.said = server.said
    BY <1>3, <1>15 DEF WorkerCalls, Unstarted
  <2>2. hand["worker"] # End
    BY <1>2, <2>1
  <2>3. Clean' => \A t \in Threads : Follows(hand[t], Yielded + Len(events))'
    BY <1>1, <1>2, <1>7, <2>1 DEF Follows
  <2> QED
    BY <1>1, <1>2, <1>7, <2>1, <2>2, <2>3 DEF Said, Http
<1>16. CASE WorkerFails \/ WorkerEnds
  <2>1. kind = "realtime"
    BY <1>16 DEF WorkerFails, WorkerEnds, Handed
  <2>2. CASE WorkerFails
    BY <1>4, <1>12, <2>1, <2>2, StreamedSpeechAssumption DEF WorkerFails, Settle, Outcome
  <2>3. CASE WorkerEnds
    BY <1>4, <1>12, <2>1, <2>3 DEF WorkerEnds, Settle, Outcome, Unread
  <2> QED
    BY <1>16, <2>2, <2>3
<1>17. CASE Delta
  <2>1. /\ Http /\ kind # "realtime" /\ server.fate = "running" /\ server'.said = server.said + 1
        /\ events' = Append(events, server.said + 1) /\ server.said + 1 \in Units
    BY <1>3, <1>17, StreamedSpeechAssumption DEF Delta, Http, Units
  <2>2. Clean /\ Yielded + Len(events) = server.said
    BY <1>2, <2>1
  <2>3. Queued' /\ Clean' /\ Len(events') = Len(events) + 1
    BY <1>1, <1>2, <2>1, <2>2, QueuedGrows, Items
  <2> QED
    BY <1>1, <1>3, <2>1, <2>2, <2>3 DEF Said
<1>18. CASE DoneMark \/ BodyEnds \/ BodyFails
  <2>1. PICK x \in Outcome :
          /\ Http /\ kind # "realtime" /\ server.fate = "running" /\ server'.fate \in {"done", "failed"}
          /\ server'.said = server.said /\ events' = Append(events, x)
          /\ x = End => server'.fate = "done" /\ (kind = "raw" \/ server.said = Length)
    BY <1>3, <1>18, StreamedSpeechAssumption
       DEF DoneMark, BodyEnds, BodyFails, Over, Http, Outcome
  <2>2. Clean /\ Yielded + Len(events) = server.said
    BY <1>2, <2>1
  <2>3. x = End => Yielded + Len(events) \in Ends'
    BY <1>1, <1>3, <2>1, <2>2 DEF Ends
  <2>4. Queued'
    BY <1>1, <1>2, <2>1, <2>3, QueuedGrows, Items DEF Outcome
  <2> QED
    BY <1>1, <2>1, <2>4 DEF Said
<1>19. CASE \E t \in Threads : Put(t)
  <2>1. PICK t \in Threads : Put(t)
    BY <1>19
  <2>2. /\ hand[t] # Nothing /\ hand[t] \in Item /\ events' = Append(events, hand[t])
        /\ hand' = [hand EXCEPT ![t] = Nothing] /\ UNCHANGED <<server, settled>>
        /\ kind = "realtime"
    BY <1>3, <2>1 DEF Put, Handed
  <2>3. Clean => Follows(hand[t], Yielded + Len(events))
    BY <1>2, <2>2
  <2>4. Queued' /\ Len(events') = Len(events) + 1 /\ (Clean' <=> (Clean /\ hand[t] \in Units))
    BY <1>1, <1>2, <2>2, <2>3, QueuedGrows DEF Follows
  <2>5. /\ hand'["sdk"] \in {hand["sdk"], Nothing} /\ hand'["worker"] \in {hand["worker"], Nothing}
        /\ hand'[t] = Nothing
    BY <1>3, <1>4, <2>2
  <2>6. hand'["worker"] = End => server'.fate \in {"done", "failed"}
    BY <1>2, <2>2, <2>5, StreamedSpeechAssumption
  <2>7. ASSUME ~settled'
        PROVE  Clean' /\ hand'["sdk"] = Nothing /\ Yielded' + Len(events') = server'.said
    <3>1. t = "sdk"
      BY <1>4, <2>2, <2>7 DEF Handed
    <3>2. hand[t] \in Units
      BY <2>2, <2>7, <3>1, Items DEF Handed, Outcome
    <3> QED
      BY <1>1, <1>2, <1>3, <2>2, <2>4, <2>5, <2>7, <3>1, <3>2
  <2>8. ASSUME Clean', NEW u \in Threads PROVE Follows(hand[u], Yielded + Len(events))'
    <3>1. CASE u = t
      BY <2>5, <3>1, Items, StreamedSpeechAssumption DEF Follows
    <3>2. CASE u # t
      <4>1. t = "sdk" /\ u = "worker"
        BY <1>4, <2>4, <2>8, <3>2 DEF Handed
      <4>2. server.fate = "running"
        BY <2>4, <2>8, <4>1 DEF Handed
      <4>3. hand["worker"] # End /\ hand["worker"] \notin Units
        BY <1>2, <2>2, <4>2 DEF Handed
      <4> QED
        BY <2>5, <4>1, <4>3, Items, StreamedSpeechAssumption DEF Follows
    <3> QED
      BY <3>1, <3>2
  <2> QED
    BY <1>1, <2>2, <2>4, <2>6, <2>7, <2>8 DEF Said, Http
<1> QED
  BY <1>10, <1>11, <1>13, <1>14, <1>15, <1>16, <1>17, <1>18, <1>19 DEF ProviderStep, Worker

\* The generator begins, and reads what was said in its order.
LEMMA GeneratorSaid ==
  ASSUME Typed, Undisturbed, Unstarted, Linked, Handed, Said, [Next]_vars, Generator,
         Going, kind # "whole", gen \in Unread, gen' \in Unread, Yielded \in Nat
  PROVE  Said'
<1>1. Taken' = Taken /\ chunks' = chunks /\ receiver' = receiver /\ kind' = kind
  BY GeneratorGoes
<1>2. Ends \subseteq Ends' /\ (Http' <=> Http) /\ hand' = hand
  BY <1>1, EndsStand, GeneratorFrame DEF Http
<1>3. Queued
  BY DEF Said
<1>4. CASE /\ gen' = "reading" /\ receiver = "asking" /\ got = Nothing /\ got' = got
           /\ gen # "fresh" /\ UNCHANGED <<provider>>
  <2>1. Yielded' = Yielded
    BY <1>1, <1>4 DEF Yielded
  <2> QED
    BY <1>1, <1>2, <1>4, <2>1, SaidAlong
<1>5. CASE /\ gen = "fresh" /\ receiver = "asking" /\ got = Nothing /\ got' = got
           /\ Open /\ events' = <<>> /\ settled' = settled
  <2>1. Yielded = 0 /\ Yielded' = 0
    BY <1>1, <1>5, NothingRuns DEF Yielded, Linked
  <2>2. /\ server.said = 0 /\ ~settled /\ \A t \in Threads : hand[t] = Nothing
        /\ server'.said = 0
    BY <1>5 DEF Unstarted, Open, Typed, ProviderTyped
  <2>3. Len(events') = 0 /\ Queued' /\ Clean'
    BY <1>5, NothingRuns DEF Queued, Clean
  <2>4. hand["sdk"] = Nothing /\ hand["worker"] = Nothing
    BY <2>2 DEF Threads
  <2> QED
    BY <1>1, <1>2, <1>5, <2>1, <2>2, <2>3, <2>4, Items, StreamedSpeechAssumption
       DEF Said, Follows
<1>6. CASE /\ gen = "reading" /\ receiver = "asking" /\ got = Nothing /\ events # <<>>
           /\ Head(events) \in Units /\ got' = Head(events) /\ events' = Tail(events)
           /\ UNCHANGED <<server, hand, settled>>
  <2>1. Yielded' = Yielded + 1
    <3>1. got' # Nothing
      BY <1>6, Items
    <3>2. Len(chunks) \in Nat /\ Taken \in Nat
      BY Counts DEF Typed, ReceiverTyped
    <3> QED
      BY <1>1, <1>6, <3>1, <3>2 DEF Yielded
  <2>2. /\ Queued' /\ Yielded' + Len(events') = Yielded + Len(events)
        /\ Clean' <=> Clean
    BY <1>2, <1>3, <1>6, <2>1, QueuedShrinks
  <2>3. Clean' => \A t \in Threads : kind = "realtime" => Follows(hand[t], Yielded + Len(events))'
    <3> SUFFICES ASSUME Clean', NEW t \in Threads, kind = "realtime"
                 PROVE  Follows(hand[t], Yielded + Len(events))'
      OBVIOUS
    <3>1. Follows(hand[t], Yielded + Len(events))
      BY <2>2 DEF Said
    <3> QED
      BY <1>2, <2>2, <3>1 DEF Follows
  <2> QED
    BY <1>1, <1>2, <1>6, <2>2, <2>3 DEF Said
<1> QED
  BY <1>4, <1>5, <1>6, GeneratorGoes DEF Unread

\* What is said stays in its order on the way to the generator.
LEMMA SaidStays ==
  ASSUME Typed, Undisturbed, EndedInTime, Framed, Unstarted, Fetched, Linked, Handed, Said,
         [Next]_vars
  PROVE  Said'
<1> SUFFICES ASSUME Going', kind' # "whole", gen' \in Unread PROVE Said'
  BY DEF Said
<1>1. /\ Going /\ kind # "whole" /\ kind' = kind /\ gen \in Unread /\ Yielded \in Nat
      /\ Generator \/ Yielded' = Yielded
  BY YieldedGoes
<1>2. CASE ProviderStep
  BY <1>1, <1>2, ProviderSaid
<1>3. CASE Generator
  BY <1>1, <1>3, GeneratorSaid
<1>4. CASE ~Generator /\ (Receiver \/ Synthesis \/ Coroutine \/ Cancel \/ UNCHANGED vars)
  <2>1. UNCHANGED <<server, events, settled, hand>>
    BY <1>4, ReceiverFrame, SynthesisFrame, CoroutineFrame, GoesOn DEF vars
  <2> QED
    BY <1>1, <1>4, <2>1, SaidAlong, EndsStand
<1> QED
  BY <1>2, <1>3, <1>4, WhoSteps

-----------------------------------------------------------------------------
(* What is heard                                                           *)

\* The order of what is framed and played, whoever takes a step.
LEMMA FramedStays ==
  ASSUME Typed, Undisturbed, EndedInTime, Framed, Fetched, [Next]_vars
  PROVE  Framed'
<1>1. CASE ProviderStep \/ Generator \/ Receiver \/ Synthesis \/ UNCHANGED vars
  BY <1>1, ProviderFrame, GeneratorFrame, ReceiverFrame, SynthesisFrame DEF vars, Framed, Going
<1>2. CASE Coroutine \/ Cancel
  BY <1>2, CoroutineMoves
<1> QED
  BY <1>1, <1>2, WhoSteps

\* A speech is reported as spoken when its last frame has been sent.
LEMMA PlayedStays ==
  ASSUME Typed, Undisturbed, EndedInTime, Framed, Unstarted, Fetched, Played, [Next]_vars
  PROVE  Played'
<1>1. kind' = kind /\ Ends \subseteq Ends'
  BY EndsStand
<1>2. CASE ProviderStep \/ Generator \/ Receiver \/ Synthesis \/ UNCHANGED vars
  <2>1. UNCHANGED <<Taken, framing, sent, control>>
    BY <1>2, ProviderFrame, GeneratorFrame, ReceiverFrame, SynthesisFrame DEF vars, Taken
  <2> QED
    BY <1>1, <2>1 DEF Played, Going
<1>3. CASE Coroutine \/ Cancel
  <2>1. Going' => Going /\ (TakesNothing \/ TakesUnit \/ TakesEnd \/ TakesClip)
    BY <1>3, CoroutineMoves
  <2>2. ASSUME Going', last' PROVE Taken' \in Ends' \/ (stage' = "preparing" /\ buffered' = <<>>)
    <3>1. CASE TakesNothing
      <4>1. stage = "preparing" /\ buffered = <<>> => ~ Going'
        <5>1. stage = "preparing" /\ buffered = <<>> =>
                Prepare \/ Refuse \/ OutputFails \/ Cancel
          BY <1>3 DEF Coroutine, Receive, ReceiveFailure, ReceiveEnd, ReceiveClip, Emit,
                      FirstFrameRefused, Emitted, BreakOff, ReceiverAwaited, SynthesisClosed,
                      FinishOutput
        <5> QED
          BY <5>1, CancelCases DEF Prepare, Refuse, OutputFails, TearDown, After, Going
      <4> QED
        BY <1>1, <2>1, <2>2, <3>1, <4>1 DEF Played, TakesNothing
    <3>2. CASE TakesUnit
      BY <2>2, <3>2 DEF TakesUnit
    <3>3. CASE TakesEnd
      <4>1. Follows(Head(chunks), Taken)
        BY <2>1, <2>2, <3>3, FirstFollows DEF TakesEnd, Undisturbed
      <4> QED
        BY <1>1, <3>3, <4>1 DEF TakesEnd, Follows
    <3>4. CASE TakesClip
      BY <1>1, <3>4, StreamedSpeechAssumption DEF TakesClip, Ends
    <3> QED
      BY <2>1, <2>2, <3>1, <3>2, <3>3, <3>4
  <2>3. ASSUME outcome' = "spoken" PROVE Len(played') \in Ends'
    <3>1. \/ outcome = "spoken" /\ played' = played
          \/ stage = "emitting" /\ last /\ outbox = <<>> /\ played' = played
      <4>1. outcome = "spoken" => stage \notin {"emitting", "synthesizing", "getting", "preparing"}
        BY DEF EndedInTime, Going
      <4>2. CASE Receive \/ ReceiveFailure \/ ReceiveEnd \/ ReceiveClip
        BY <2>3, <4>1, <4>2 DEF Receive, ReceiveFailure, ReceiveEnd, ReceiveClip, TearDown
      <4>3. CASE Prepare \/ Refuse \/ Emit \/ FirstFrameRefused
        BY <2>3, <4>1, <4>3 DEF Prepare, Refuse, Emit, FirstFrameRefused, TearDown
      <4>4. CASE Emitted \/ OutputFails \/ BreakOff
        BY <2>3, <4>1, <4>4 DEF Emitted, OutputFails, BreakOff, TearDown
      <4>5. CASE ReceiverAwaited \/ SynthesisClosed \/ FinishOutput \/ Cancel
        BY <2>3, <4>1, <4>5, CancelCases DEF ReceiverAwaited, SynthesisClosed, FinishOutput
      <4> QED
        BY <1>3, <4>2, <4>3, <4>4, <4>5 DEF Coroutine
    <3>2. CASE outcome = "spoken" /\ played' = played
      BY <1>1, <3>2 DEF Played
    <3>3. CASE stage = "emitting" /\ last /\ outbox = <<>> /\ played' = played
      <4>1. buffered = <<>> /\ pending = <<>> /\ Taken \in Ends
        BY <3>3 DEF Framed, Played, Going
      <4>2. Len(played) \in Nat
        BY Counts DEF Typed
      <4>3. Taken = Len(played)
        BY <3>3, <4>1, <4>2, NothingRuns DEF Taken
      <4> QED
        BY <1>1, <3>3, <4>1, <4>3
    <3> QED
      BY <3>1, <3>2, <3>3
  <2> QED
    BY <2>2, <2>3 DEF Played
<1> QED
  BY <1>2, <1>3, WhoSteps

\* Where a unit is, on its way from the provider to Sound.
InOrder ==
  /\ Typed /\ Undisturbed /\ EndedInTime
  /\ Unstarted /\ Handed /\ Said /\ Linked /\ Fetched /\ Framed /\ Played

\* Nothing is on its way.
LEMMA InitInOrder ==
  ASSUME Init
  PROVE  InOrder
<1>1. Typed /\ Undisturbed /\ EndedInTime
  BY InitTypes, InitEnds
<1>2. Unstarted /\ Handed
  BY Items, StreamedSpeechAssumption DEF Init, Unstarted, Handed, Threads, Outcome
<1>3. /\ Taken = 0 /\ Len(chunks) = 0 /\ Len(events) = 0
      /\ buffered = <<>> /\ pending = <<>> /\ outbox = <<>> /\ played = <<>> /\ chunks = <<>>
  BY NothingRuns DEF Init, Taken
<1>4. Framed
  BY <1>3, NothingRuns DEF Init, Framed, Going
<1>5. Played
  BY <1>3 DEF Init, Played, Going
<1>6. Linked
  BY <1>3, Items DEF Init, Linked, Unread, Outcome
<1>7. Fetched
  <2>1. \A i \in 1..Len(chunks) : FALSE
    BY <1>3
  <2> QED
    BY <2>1 DEF Init, Fetched
<1>8. Said
  <2>1. \A i \in 1..Len(events) : FALSE
    BY <1>3
  <2>2. Clean /\ Queued
    BY <2>1 DEF Clean, Queued
  <2>3. Yielded = 0
    BY <1>3 DEF Init, Yielded
  <2> QED
    BY <1>3, <2>2, <2>3, Items, StreamedSpeechAssumption DEF Init, Said, Http, Follows, Threads
<1> QED
  BY <1>1, <1>2, <1>4, <1>5, <1>6, <1>7, <1>8 DEF InOrder

\* Sound is sent the reply from its beginning, in order, without a gap and nothing twice,
\* through every queue, thread and frame of speak_response; and what is reported as spoken
\* was sent to the last unit of the reply, or of the raw body, unless a realtime task failed
\* and its worker was told first.
THEOREM SoundHearsTheReply == Spec => []PlaysWhatWasSaid
<1>1. Init => InOrder
  BY InitInOrder
<1>2. InOrder /\ [Next]_vars => InOrder'
  BY NextTypes, UndisturbedStays, EndedInTimeStays, UnstartedStays, HandedStays, SaidStays,
     LinkedStays, FetchedStays, FramedStays, PlayedStays DEF InOrder
<1>3. InOrder => PlaysWhatWasSaid
  <2> SUFFICES ASSUME InOrder PROVE PlaysWhatWasSaid
    OBVIOUS
  <2>1. played \in Seq(Units) /\ Run(played, 0)
    BY Counts DEF InOrder, Typed, Framed
  <2>2. played = SubSeq(Reply, 1, Len(played)) /\ Len(played) \in 0..Length
    BY <2>1, RunsReply
  <2>3. ASSUME Len(played) \in Ends
        PROVE  \/ played = IF kind = "raw" THEN SubSeq(Reply, 1, server.said) ELSE Reply
               \/ kind = "realtime" /\ server.fate = "failed"
    <3>1. SubSeq(Reply, 1, Length) = Reply
      BY ReplyRuns, RunsReply
    <3> QED
      BY <2>2, <2>3, <3>1 DEF Ends
  <2>4. outcome = "spoken" => Len(played) \in Ends
    BY DEF InOrder, Played
  <2> QED
    BY <2>2, <2>3, <2>4 DEF PlaysWhatWasSaid
<1> QED
  BY <1>1, <1>2, <1>3, PTL DEF Spec
=============================================================================
