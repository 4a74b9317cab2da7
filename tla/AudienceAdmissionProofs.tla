---------------------- MODULE AudienceAdmissionProofs ----------------------
(***************************************************************************)
(* The theorems about AudienceAdmission, for any requests and any          *)
(* capacity.  The invariants of the module are inductive together, once    *)
(* two facts are added: the queues hold every request once and on its own  *)
(* side (QueuesAreSets), and where the worker is suspended says whether it *)
(* has a candidate (WorkerHasCandidate).                                   *)
(***************************************************************************)
EXTENDS AudienceAdmission, TLAPS

Distinct(q) == \A i, j \in DOMAIN q : q[i] = q[j] => i = j

QueuesAreSets ==
  /\ Distinct(voices) /\ Distinct(comments)
  /\ \A r \in ToSet(voices) : Source[r] = "voice"
  /\ \A r \in ToSet(comments) : Source[r] = "comment"
  /\ current \notin Queued

WorkerHasCandidate ==
  /\ current # NoRequest <=> worker \in {"evaluating", "decided", "cancelled"}
  /\ worker = "cancelled" => ended
  /\ ended => worker \in {"none", "cancelled"} /\ Queued = {} /\ pending = {}

Inv ==
  /\ TypeOK
  /\ WaitingIsKept
  /\ PendingMatches
  /\ QueueHasWorker
  /\ QueuesAreSets
  /\ WorkerHasCandidate

-----------------------------------------------------------------------------
(* Sequences without repetitions, seen as sets.                            *)

\* Appending a new element adds it to the set.
LEMMA AppendAdds ==
  ASSUME NEW S, NEW q \in Seq(S), NEW e \in S, Distinct(q), e \notin ToSet(q)
  PROVE  /\ Append(q, e) \in Seq(S)
         /\ Distinct(Append(q, e))
         /\ ToSet(Append(q, e)) = ToSet(q) \cup {e}
<1> DEFINE a == Append(q, e)
<1>1. a \in Seq(S) /\ DOMAIN a = 1..(Len(q) + 1)
  OBVIOUS
<1>2. \A i \in DOMAIN q : i \in DOMAIN a /\ a[i] = q[i]
  OBVIOUS
<1>3. a[Len(q) + 1] = e /\ Len(q) + 1 \in DOMAIN a
  OBVIOUS
<1>4. \A i \in DOMAIN a : i \in DOMAIN q \/ i = Len(q) + 1
  BY <1>1
<1>5. ToSet(a) = ToSet(q) \cup {e}
  BY <1>2, <1>3, <1>4 DEF ToSet
<1>6. Distinct(a)
  BY <1>2, <1>3, <1>4 DEF ToSet, Distinct
<1> QED
  BY <1>1, <1>5, <1>6

\* Dropping the first i elements removes them from the set.
LEMMA DropRemoves ==
  ASSUME NEW S, NEW q \in Seq(S), NEW i \in DOMAIN q, Distinct(q)
  PROVE  /\ SubSeq(q, i + 1, Len(q)) \in Seq(S)
         /\ Distinct(SubSeq(q, i + 1, Len(q)))
         /\ ToSet(SubSeq(q, i + 1, Len(q))) = ToSet(q) \ ({q[j] : j \in 1..(i - 1)} \cup {q[i]})
         /\ {q[j] : j \in 1..(i - 1)} \subseteq ToSet(q)
         /\ q[i] \in ToSet(q) \ {q[j] : j \in 1..(i - 1)}
<1> DEFINE d == SubSeq(q, i + 1, Len(q))
           p == {q[j] : j \in 1..(i - 1)}
<1>1. i \in 1..Len(q) /\ DOMAIN q = 1..Len(q) /\ Len(q) \in Nat
  OBVIOUS
<1>2. d \in Seq(S) /\ DOMAIN d = 1..(Len(q) - i)
  BY <1>1
<1>3. \A k \in DOMAIN d : k + i \in DOMAIN q /\ d[k] = q[k + i]
  BY <1>1, <1>2
<1>4. Distinct(d)
  BY <1>1, <1>2, <1>3 DEF Distinct
<1>5. \A j \in 1..(i - 1) : j \in DOMAIN q
  BY <1>1
<1>6. ToSet(d) \subseteq ToSet(q) \ (p \cup {q[i]})
  <2> SUFFICES ASSUME NEW k \in DOMAIN d
               PROVE  d[k] \in ToSet(q) /\ d[k] \notin p /\ d[k] # q[i]
    BY DEF ToSet
  <2>1. k + i \in DOMAIN q /\ d[k] = q[k + i] /\ k \in 1..(Len(q) - i)
    BY <1>2, <1>3
  <2>2. d[k] # q[i]
    BY <2>1, <1>1 DEF Distinct
  <2>3. \A j \in 1..(i - 1) : d[k] # q[j]
    BY <2>1, <1>1, <1>5 DEF Distinct
  <2> QED
    BY <2>1, <2>2, <2>3 DEF ToSet
<1>7. ToSet(q) \ (p \cup {q[i]}) \subseteq ToSet(d)
  <2> SUFFICES ASSUME NEW k \in DOMAIN q, q[k] \notin p, q[k] # q[i]
               PROVE  q[k] \in ToSet(d)
    BY DEF ToSet
  <2>1. k \notin 1..(i - 1) /\ k # i
    OBVIOUS
  <2>2. k - i \in DOMAIN d
    BY <2>1, <1>1, <1>2
  <2>3. (k - i) + i = k
    BY <1>1
  <2>4. d[k - i] = q[k]
    BY <2>2, <2>3, <1>3
  <2> QED
    BY <2>2, <2>4 DEF ToSet
<1>8. p \subseteq ToSet(q)
  BY <1>5 DEF ToSet
<1>9. q[i] \in ToSet(q) \ p
  BY <1>1, <1>5 DEF ToSet, Distinct
<1> QED
  BY <1>2, <1>4, <1>6, <1>7, <1>8, <1>9

\* The head of a queue leaves with the tail.
LEMMA TailRemoves ==
  ASSUME NEW S, NEW q \in Seq(S), q # << >>, Distinct(q)
  PROVE  /\ Tail(q) \in Seq(S)
         /\ Distinct(Tail(q))
         /\ ToSet(Tail(q)) = ToSet(q) \ {Head(q)}
         /\ Head(q) \in ToSet(q)
<1>1. Len(q) \in Nat /\ Len(q) > 0 /\ DOMAIN q = 1..Len(q)
  OBVIOUS
<1>2. Tail(q) \in Seq(S) /\ DOMAIN Tail(q) = 1..(Len(q) - 1) /\ Head(q) = q[1]
  BY <1>1
<1>3. \A k \in DOMAIN Tail(q) : k + 1 \in DOMAIN q /\ Tail(q)[k] = q[k + 1]
  BY <1>1, <1>2
<1>4. Distinct(Tail(q))
  BY <1>1, <1>2, <1>3 DEF Distinct
<1>5. ToSet(Tail(q)) \subseteq ToSet(q) \ {q[1]}
  BY <1>1, <1>2, <1>3 DEF ToSet, Distinct
<1>6. \A k \in DOMAIN q : k # 1 => k - 1 \in DOMAIN Tail(q) /\ Tail(q)[k - 1] = q[k]
  BY <1>1, <1>2
<1>7. ToSet(q) \ {q[1]} \subseteq ToSet(Tail(q))
  BY <1>6 DEF ToSet
<1>8. q[1] \in ToSet(q)
  BY <1>1 DEF ToSet
<1> QED
  BY <1>2, <1>4, <1>5, <1>7, <1>8

\* The empty queue holds nobody.
LEMMA EmptyHasNone ==
  ASSUME NEW S
  PROVE  << >> \in Seq(S) /\ Distinct(<< >>) /\ ToSet(<< >>) = {}
BY DEF Distinct, ToSet

-----------------------------------------------------------------------------
(* What taking the next candidate comes to, whichever of the three ways.   *)

\* P are passed over; if a candidate is taken up it was waiting in the queue and
\* no owned voice waits before a comment.
Takes(P, done, told) ==
  /\ P \subseteq Queued
  /\ Answered(P, done, told)
  /\ voices' \in Seq(Requests) /\ comments' \in Seq(Requests)
  /\ Distinct(voices') /\ Distinct(comments')
  /\ ToSet(voices') \subseteq ToSet(voices) /\ ToSet(comments') \subseteq ToSet(comments)
  /\ verdict' = "none" /\ moved' = FALSE
  /\ \/ /\ worker' = "none" /\ current' = NoRequest
        /\ P = Queued /\ Queued' = {}
     \/ /\ worker' = "evaluating" /\ current' \in (Queued \cap Owned) \ P
        /\ Queued' = Queued \ (P \cup {current'})
        /\ \/ current' \in ToSet(voices)
           \/ ToSet(voices) \cap Owned = {}

\* Each of the three ways of going on is a Takes.
LEMMA PickNextTakes ==
  ASSUME Inv, NEW done, NEW told, PickNext(done, told)
  PROVE  \E P \in SUBSET Requests : Takes(P, done, told)
<1> USE DEF Inv, TypeOK, QueuesAreSets
<1>1. /\ voices \in Seq(Requests) /\ comments \in Seq(Requests)
      /\ Distinct(voices) /\ Distinct(comments)
      /\ ToSet(voices) \cap ToSet(comments) = {}
  OBVIOUS
<1>2. ToSet(voices) \subseteq Requests /\ ToSet(comments) \subseteq Requests
  BY <1>1 DEF ToSet
<1>3. CASE PickVoice(done, told)
  <2>1. PICK i \in DOMAIN voices :
          /\ FirstOwned(voices, i)
          /\ voices' = SubSeq(voices, i + 1, Len(voices))
          /\ comments' = comments
          /\ TakeUp(voices[i])
          /\ Answered({voices[j] : j \in 1..(i - 1)}, done, told)
    BY <1>3 DEF PickVoice
  <2> DEFINE P == {voices[j] : j \in 1..(i - 1)}
  <2>2. /\ voices' \in Seq(Requests) /\ Distinct(voices')
        /\ ToSet(voices') = ToSet(voices) \ (P \cup {voices[i]})
        /\ P \subseteq ToSet(voices) /\ voices[i] \in ToSet(voices) \ P
    BY <2>1, <1>1, DropRemoves
  <2>3. worker' = "evaluating" /\ current' = voices[i] /\ verdict' = "none" /\ moved' = FALSE
    BY <2>1 DEF TakeUp
  <2>4. voices[i] \in Owned
    BY <2>1 DEF FirstOwned
  <2>5. Queued' = Queued \ (P \cup {current'})
    <3>1. Queued' = ToSet(voices') \cup ToSet(comments)
      BY <2>1 DEF Queued
    <3> QED
      BY <3>1, <2>2, <2>3, <1>1 DEF Queued
  <2>6. Takes(P, done, told)
    BY <2>1, <2>2, <2>3, <2>4, <2>5, <1>1 DEF Takes, Queued
  <2> QED
    BY <2>6, <2>2, <1>2
<1>4. CASE PickComment(done, told)
  <2>1. PICK i \in DOMAIN comments :
          /\ FirstOwned(comments, i)
          /\ comments' = SubSeq(comments, i + 1, Len(comments))
          /\ TakeUp(comments[i])
          /\ Answered(ToSet(voices) \cup {comments[j] : j \in 1..(i - 1)}, done, told)
    BY <1>4 DEF PickComment
  <2> DEFINE p == {comments[j] : j \in 1..(i - 1)}
             P == ToSet(voices) \cup p
  <2>2. /\ comments' \in Seq(Requests) /\ Distinct(comments')
        /\ ToSet(comments') = ToSet(comments) \ (p \cup {comments[i]})
        /\ p \subseteq ToSet(comments) /\ comments[i] \in ToSet(comments) \ p
    BY <2>1, <1>1, DropRemoves
  <2>3. worker' = "evaluating" /\ current' = comments[i] /\ verdict' = "none" /\ moved' = FALSE
    BY <2>1 DEF TakeUp
  <2>4. comments[i] \in Owned /\ ToSet(voices) \cap Owned = {}
    BY <2>1, <1>4 DEF FirstOwned, PickComment, NoneOwned
  <2>5. voices' \in Seq(Requests) /\ Distinct(voices') /\ ToSet(voices') = {}
    BY <1>4, EmptyHasNone DEF PickComment
  <2>6. Queued' = Queued \ (P \cup {current'})
    <3>1. Queued' = ToSet(comments')
      BY <2>5 DEF Queued
    <3> QED
      BY <3>1, <2>2, <2>3, <1>1 DEF Queued
  <2>7. Takes(P, done, told)
    BY <2>1, <2>2, <2>3, <2>4, <2>5, <2>6, <1>1 DEF Takes, Queued
  <2> QED
    BY <2>7, <2>2, <1>2
<1>5. CASE PickNobody(done, told)
  <2>1. voices' = << >> /\ comments' = << >>
    BY <1>5 DEF PickNobody
  <2>2. /\ voices' \in Seq(Requests) /\ Distinct(voices') /\ ToSet(voices') = {}
        /\ comments' \in Seq(Requests) /\ Distinct(comments') /\ ToSet(comments') = {}
    BY <2>1, EmptyHasNone
  <2>3. Queued' = {}
    BY <2>2 DEF Queued
  <2>4. Takes(Queued, done, told)
    BY <1>5, <2>2, <2>3 DEF Takes, PickNobody, GoIdle
  <2> QED
    BY <2>4, <1>2 DEF Queued
<1> QED
  BY <1>3, <1>4, <1>5 DEF PickNext

-----------------------------------------------------------------------------
(* The inductive invariant.                                                *)

\* The invariant holds of a new session.
LEMMA InitInv == ASSUME Init PROVE Inv
<1>1. voices \in Seq(Requests) /\ Distinct(voices) /\ ToSet(voices) = {}
  BY EmptyHasNone DEF Init
<1>2. comments \in Seq(Requests) /\ Distinct(comments) /\ ToSet(comments) = {}
  BY EmptyHasNone DEF Init
<1>3. Queued = {} /\ Waiting = {}
  BY <1>1, <1>2 DEF Queued, Waiting, Init
<1>4. TypeOK
  BY <1>1, <1>2 DEF TypeOK, Init, Answers
<1>5. QueuesAreSets /\ WorkerHasCandidate
  BY <1>1, <1>2, <1>3 DEF QueuesAreSets, WorkerHasCandidate, Init
<1>6. WaitingIsKept /\ PendingMatches /\ QueueHasWorker
  BY <1>3 DEF WaitingIsKept, PendingMatches, QueueHasWorker, Init
<1> QED
  BY <1>4, <1>5, <1>6 DEF Inv

\* A step of the worker: it answers its candidate, if it had one, and takes
\* the next.
WorkStep(done, told) ==
  /\ \/ worker = "started" /\ done = {}
     \/ worker \in {"decided", "cancelled"} /\ done = {current}
  /\ told \in {"accepted", "rejected"}
  /\ PickNext(done, told)
  /\ admitted' \subseteq Correlations
  /\ UNCHANGED <<valid, ended>>

\* Whoever the worker passes over or has decided is answered, and nobody else.
LEMMA WorkAnswers ==
  ASSUME Inv, NEW done, NEW told, WorkStep(done, told), NEW P, Takes(P, done, told)
  PROVE  /\ result' = [r \in Requests |-> IF r \in done THEN told
                                         ELSE IF r \in P THEN "rejected" ELSE result[r]]
         /\ pending' = pending \ {Correlation[r] : r \in P \cup done}
         /\ P \subseteq Requests /\ done \subseteq Requests
         /\ \A r \in P \cup done : result[r] = "waiting"
         /\ Waiting' = Waiting \ (P \cup done)
         /\ Waiting = Queued \cup done /\ done \cap Queued = {}
<1>1. /\ result' = [r \in Requests |-> IF r \in done THEN told ELSE Told(P, "rejected")[r]]
      /\ pending' = pending \ {Correlation[r] : r \in P \cup done}
  BY DEF Takes, Answered
<1>2. done = {current} \ {NoRequest}
  BY DEF Inv, WorkerHasCandidate, WorkStep
<1>3. Waiting = Queued \cup done /\ done \cap Queued = {}
  BY <1>2 DEF Inv, WaitingIsKept, QueuesAreSets
<1>4. P \subseteq Queued
  BY DEF Takes
<1>5. \A r \in P \cup done : r \in Requests /\ result[r] = "waiting"
  BY <1>3, <1>4 DEF Waiting
<1>6. result' = [r \in Requests |-> IF r \in done THEN told
                                   ELSE IF r \in P THEN "rejected" ELSE result[r]]
  BY <1>1, <1>5 DEF Told
<1>7. Waiting' = Waiting \ (P \cup done)
  BY <1>5, <1>6 DEF Waiting, WorkStep
<1> QED
  BY <1>1, <1>3, <1>5, <1>6, <1>7

\* A step of the worker keeps the invariant.
LEMMA WorkInv ==
  ASSUME Inv, NEW done, NEW told, WorkStep(done, told)
  PROVE  Inv'
<1>1. PICK P \in SUBSET Requests : Takes(P, done, told)
  BY PickNextTakes DEF WorkStep
<1>2. /\ result' = [r \in Requests |-> IF r \in done THEN told
                                      ELSE IF r \in P THEN "rejected" ELSE result[r]]
      /\ pending' = pending \ {Correlation[r] : r \in P \cup done}
      /\ Waiting' = Waiting \ (P \cup done)
      /\ Waiting = Queued \cup done /\ done \cap Queued = {}
  BY <1>1, WorkAnswers
<1>3. \/ worker' = "none" /\ current' = NoRequest /\ P = Queued /\ Queued' = {}
      \/ /\ worker' = "evaluating" /\ current' \in (Queued \cap Owned) \ P
         /\ Queued' = Queued \ (P \cup {current'})
  BY <1>1 DEF Takes
<1>4. Queued \subseteq Requests /\ NoRequest \notin Requests
  BY AdmissionAssumption, <1>2 DEF Waiting
<1>5. TypeOK'
  <2>1. voices' \in Seq(Requests) /\ comments' \in Seq(Requests)
    BY <1>1 DEF Takes
  <2>2. pending' \subseteq Correlations /\ admitted' \subseteq Correlations
    BY <1>2 DEF WorkStep, Inv, TypeOK
  <2>3. result' \in [Requests -> Answers]
    BY <1>2 DEF WorkStep, Inv, TypeOK, Answers
  <2>4. /\ worker' \in {"none", "started", "evaluating", "decided", "cancelled"}
        /\ current' \in Requests \cup {NoRequest}
    BY <1>3, <1>4
  <2>5. moved' \in BOOLEAN /\ verdict' \in {"none", "accept", "refuse"}
    BY <1>1 DEF Takes
  <2>6. valid' \subseteq Requests /\ ended' \in BOOLEAN
    BY DEF WorkStep, Inv, TypeOK
  <2> QED
    BY <2>1, <2>2, <2>3, <2>4, <2>5, <2>6 DEF TypeOK
<1>6. WaitingIsKept'
  <2>1. Waiting' = Queued' \cup ({current'} \ {NoRequest})
    BY <1>2, <1>3, <1>4
  <2> QED
    BY <2>1 DEF WaitingIsKept
<1>7. PendingMatches'
  <2>1. \A r, s \in Waiting : Correlation[r] = Correlation[s] => r = s
    BY DEF Inv, PendingMatches
  <2>2. ASSUME ~ ended PROVE pending' = {Correlation[r] : r \in Waiting'}
    <3>1. pending = {Correlation[r] : r \in Waiting}
      BY <2>2 DEF Inv, PendingMatches
    <3>2. P \cup done \subseteq Waiting
      BY <1>1, <1>2 DEF Takes
    <3> QED
      BY <3>1, <3>2, <2>1, <1>2
  <2>3. \A r, s \in Waiting' : Correlation[r] = Correlation[s] => r = s
    BY <2>1, <1>2
  <2> QED
    BY <2>2, <2>3 DEF PendingMatches, WorkStep
<1>8. QueueHasWorker'
  BY <1>3 DEF QueueHasWorker
<1>9. QueuesAreSets'
  <2>1. /\ Distinct(voices') /\ Distinct(comments')
        /\ ToSet(voices') \subseteq ToSet(voices) /\ ToSet(comments') \subseteq ToSet(comments)
    BY <1>1 DEF Takes
  <2>2. current' \notin Queued'
    BY <1>3, <1>4
  <2> QED
    BY <2>1, <2>2 DEF Inv, QueuesAreSets
<1>10. WorkerHasCandidate'
  <2>1. current' # NoRequest <=> worker' \in {"evaluating", "decided", "cancelled"}
    BY <1>3, <1>4
  <2>2. ASSUME ended PROVE worker' = "none" /\ Queued' = {} /\ pending' = {}
    <3>1. Queued = {} /\ pending = {}
      BY <2>2 DEF Inv, WorkerHasCandidate
    <3> QED
      BY <3>1, <1>2, <1>3
  <2>3. worker' # "cancelled"
    BY <1>3
  <2> QED
    BY <2>1, <2>2, <2>3 DEF WorkerHasCandidate, WorkStep
<1> QED
  BY <1>5, <1>6, <1>7, <1>8, <1>9, <1>10 DEF Inv

\* Every step of the worker is a WorkStep.
LEMMA WorkIsWorkStep ==
  ASSUME Inv, Work
  PROVE  \/ WorkerStarts /\ WorkStep({}, "rejected")
         \/ WorkerRefuses /\ WorkStep({current}, "rejected")
         \/ \E told \in {"accepted", "rejected"} : WorkerAdmits(told) /\ WorkStep({current}, told)
         \/ WorkerStops /\ WorkStep({current}, "rejected")
<1>1. current \in Requests \cup {NoRequest} /\ admitted \subseteq Correlations
  BY DEF Inv, TypeOK
<1>2. CASE WorkerStarts
  BY <1>1, <1>2 DEF WorkerStarts, WorkStep
<1>3. CASE WorkerRefuses
  BY <1>1, <1>3 DEF WorkerRefuses, WorkStep
<1>4. ASSUME NEW told \in {"accepted", "rejected"}, WorkerAdmits(told)
      PROVE  WorkStep({current}, told)
  <2>1. current \in Requests
    BY <1>1, <1>4 DEF WorkerAdmits, Inv, WorkerHasCandidate
  <2>2. admitted' \subseteq Correlations
    BY <2>1, <1>1, <1>4, AdmissionAssumption DEF WorkerAdmits, Remember
  <2> QED
    BY <2>2, <1>4 DEF WorkerAdmits, WorkStep
<1>5. CASE WorkerStops
  BY <1>1, <1>5 DEF WorkerStops, WorkStep
<1> QED
  BY <1>2, <1>3, <1>4, <1>5 DEF Work

\* A rejection on arrival keeps the invariant.
LEMMA RejectInv == ASSUME Inv, NEW r \in Requests, Reject(r) PROVE Inv'
<1>1. result' = [result EXCEPT ![r] = "rejected"] /\ result[r] = "unsent"
  BY DEF Reject
<1>2. Waiting' = Waiting
  BY <1>1 DEF Waiting, Inv, TypeOK
<1>3. UNCHANGED <<queueVars, workVars, admitted, valid, ended>>
  BY DEF Reject
<1>4. TypeOK'
  BY <1>1, <1>3 DEF Inv, TypeOK, Answers, queueVars, workVars
<1>5. Queued' = Queued
  BY <1>3 DEF Queued, queueVars
<1> QED
  BY <1>2, <1>3, <1>4, <1>5 DEF Inv, WaitingIsKept, PendingMatches, QueueHasWorker,
     QueuesAreSets, WorkerHasCandidate, queueVars, workVars

\* A request joins the queue and those of E are evicted for it.
Joins(r, E) ==
  /\ result[r] = "unsent" /\ ~ ended
  /\ Correlation[r] \notin pending
  /\ E \subseteq Queued
  /\ voices' \in Seq(Requests) /\ comments' \in Seq(Requests)
  /\ Distinct(voices') /\ Distinct(comments')
  /\ \A s \in ToSet(voices') : Source[s] = "voice"
  /\ \A s \in ToSet(comments') : Source[s] = "comment"
  /\ Queued' = (Queued \ E) \cup {r}
  /\ pending' = (pending \ {Correlation[s] : s \in E}) \cup {Correlation[r]}
  /\ result' = [s \in Requests |-> IF s = r THEN "waiting"
                                  ELSE IF s \in E THEN "rejected" ELSE result[s]]
  /\ worker' = StartWorker
  /\ UNCHANGED <<current, moved, verdict, admitted, valid, ended>>

\* Joining the queue keeps the invariant, with or without an eviction.
LEMMA JoinInv == ASSUME Inv, NEW r \in Requests, NEW E, Joins(r, E) PROVE Inv'
<1> USE DEF Joins
<1>1. \A s \in E : s # r /\ s \in Waiting
  BY DEF Inv, WaitingIsKept, Waiting
<1>2. Waiting' = (Waiting \ E) \cup {r}
  BY <1>1 DEF Waiting
<1>3. r \notin Queued /\ r # current /\ r \notin Waiting
  <2>1. r \notin Waiting
    BY DEF Waiting
  <2> QED
    BY <2>1, AdmissionAssumption DEF Inv, WaitingIsKept
<1>4. TypeOK'
  <2>1. Correlation[r] \in Correlations
    BY AdmissionAssumption
  <2>2. worker' \in {"none", "started", "evaluating", "decided", "cancelled"}
    BY DEF Inv, TypeOK, StartWorker
  <2>3. result' \in [Requests -> Answers]
    BY DEF Inv, TypeOK, Answers
  <2>4. pending' \subseteq Correlations
    BY <2>1 DEF Inv, TypeOK
  <2> QED
    BY <2>2, <2>3, <2>4 DEF Inv, TypeOK
<1>5. WaitingIsKept'
  <2>1. Waiting = Queued \cup ({current} \ {NoRequest}) /\ current \notin Queued
    BY DEF Inv, WaitingIsKept, QueuesAreSets
  <2>2. Waiting' = Queued' \cup ({current} \ {NoRequest})
    BY <2>1, <1>2
  <2> QED
    BY <2>2 DEF WaitingIsKept
<1>6. PendingMatches'
  <2>1. pending = {Correlation[s] : s \in Waiting}
    BY DEF Inv, PendingMatches
  <2>2. \A s, u \in Waiting : Correlation[s] = Correlation[u] => s = u
    BY DEF Inv, PendingMatches
  <2>3. \A s \in Waiting : Correlation[s] # Correlation[r]
    BY <2>1
  <2>4. \A s, u \in Waiting' : Correlation[s] = Correlation[u] => s = u
    BY <2>2, <2>3, <1>2
  <2>5. pending' = {Correlation[s] : s \in Waiting'}
    BY <2>1, <2>2, <2>3, <1>1, <1>2
  <2> QED
    BY <2>4, <2>5 DEF PendingMatches
<1>7. QueueHasWorker'
  <2>1. worker # "cancelled"
    BY DEF Inv, WorkerHasCandidate
  <2> QED
    BY <2>1 DEF Inv, TypeOK, StartWorker, QueueHasWorker
<1>8. QueuesAreSets'
  BY <1>3 DEF Inv, QueuesAreSets
<1>9. WorkerHasCandidate'
  BY DEF Inv, WorkerHasCandidate, StartWorker
<1> QED
  BY <1>4, <1>5, <1>6, <1>7, <1>8, <1>9 DEF Inv

\* A request that finds room joins and evicts nobody.
LEMMA EnqueueJoins == ASSUME Inv, NEW r \in Requests, Enqueue(r) PROVE Joins(r, {})
<1>1. /\ voices \in Seq(Requests) /\ comments \in Seq(Requests)
      /\ Distinct(voices) /\ Distinct(comments)
      /\ \A s \in ToSet(voices) : Source[s] = "voice"
      /\ \A s \in ToSet(comments) : Source[s] = "comment"
      /\ result \in [Requests -> Answers]
  BY DEF Inv, TypeOK, QueuesAreSets
<1>2. result[r] = "unsent" /\ ~ ended /\ Correlation[r] \notin pending
  BY DEF Enqueue, Received, Duplicate
<1>3. r \notin Queued
  BY <1>2 DEF Inv, WaitingIsKept, Waiting
<1>4. r \notin ToSet(voices) /\ r \notin ToSet(comments)
  BY <1>3 DEF Queued
<1>5. /\ voices' \in Seq(Requests) /\ Distinct(voices')
      /\ comments' \in Seq(Requests) /\ Distinct(comments')
      /\ ToSet(voices') \cup ToSet(comments') = ToSet(voices) \cup ToSet(comments) \cup {r}
      /\ \A s \in ToSet(voices') : Source[s] = "voice"
      /\ \A s \in ToSet(comments') : Source[s] = "comment"
  <2>1. CASE Source[r] = "voice"
    <3>1. voices' = Append(voices, r) /\ comments' = comments
      BY <2>1 DEF Enqueue
    <3>2. /\ voices' \in Seq(Requests) /\ Distinct(voices')
          /\ ToSet(voices') = ToSet(voices) \cup {r}
      BY <3>1, <1>1, <1>4, AppendAdds
    <3> QED
      BY <3>1, <3>2, <2>1, <1>1
  <2>2. CASE Source[r] # "voice"
    <3>1. comments' = Append(comments, r) /\ voices' = voices
      BY <2>2 DEF Enqueue
    <3>2. /\ comments' \in Seq(Requests) /\ Distinct(comments')
          /\ ToSet(comments') = ToSet(comments) \cup {r}
      BY <3>1, <1>1, <1>4, AppendAdds
    <3>3. Source[r] = "comment"
      BY <2>2, AdmissionAssumption
    <3> QED
      BY <3>1, <3>2, <3>3, <1>1
  <2> QED
    BY <2>1, <2>2
<1>6. Queued' = (Queued \ {}) \cup {r}
  BY <1>5 DEF Queued
<1>7. result' = [s \in Requests |-> IF s = r THEN "waiting"
                                  ELSE IF s \in {} THEN "rejected" ELSE result[s]]
  BY <1>1 DEF Enqueue
<1>8. pending' = (pending \ {Correlation[s] : s \in {}}) \cup {Correlation[r]}
  BY DEF Enqueue
<1> QED
  BY <1>2, <1>5, <1>6, <1>7, <1>8 DEF Joins, Enqueue

\* A voice that finds none joins in place of the oldest comment.
LEMMA EvictJoins ==
  ASSUME Inv, NEW r \in Requests, EvictFor(r)
  PROVE  Joins(r, {Head(comments)}) /\ Head(comments) \in ToSet(comments)
<1> DEFINE c == Head(comments)
<1>1. /\ voices \in Seq(Requests) /\ comments \in Seq(Requests)
      /\ Distinct(voices) /\ Distinct(comments)
      /\ \A s \in ToSet(voices) : Source[s] = "voice"
      /\ \A s \in ToSet(comments) : Source[s] = "comment"
      /\ result \in [Requests -> Answers]
  BY DEF Inv, TypeOK, QueuesAreSets
<1>2. /\ result[r] = "unsent" /\ ~ ended /\ Correlation[r] \notin pending
      /\ Source[r] = "voice" /\ comments # << >>
  BY DEF EvictFor, Received, Duplicate
<1>3. r \notin Queued
  BY <1>2 DEF Inv, WaitingIsKept, Waiting
<1>4. r \notin ToSet(voices) /\ r \notin ToSet(comments)
  BY <1>3 DEF Queued
<1>5. voices' = Append(voices, r) /\ comments' = Tail(comments)
  BY DEF EvictFor
<1>6. /\ voices' \in Seq(Requests) /\ Distinct(voices')
      /\ ToSet(voices') = ToSet(voices) \cup {r}
  BY <1>1, <1>4, <1>5, AppendAdds
<1>7. /\ comments' \in Seq(Requests) /\ Distinct(comments')
      /\ ToSet(comments') = ToSet(comments) \ {c} /\ c \in ToSet(comments)
  BY <1>1, <1>2, <1>5, TailRemoves
<1>8. c \notin ToSet(voices)
  BY <1>1, <1>7
<1>9. Queued' = (Queued \ {c}) \cup {r}
  <2>1. Queued' = ToSet(voices') \cup ToSet(comments')
    BY DEF Queued
  <2> QED
    BY <2>1, <1>4, <1>6, <1>7, <1>8 DEF Queued
<1>10. c \in Requests /\ result[c] = "waiting"
  BY <1>7 DEF Inv, WaitingIsKept, Waiting, Queued
<1>11. result' = [s \in Requests |-> IF s = r THEN "waiting"
                                   ELSE IF s \in {c} THEN "rejected" ELSE result[s]]
  BY <1>1, <1>10 DEF EvictFor, Told
<1>12. pending' = (pending \ {Correlation[s] : s \in {c}}) \cup {Correlation[r]}
  BY DEF EvictFor, WithoutEvicted
<1>13. {c} \subseteq Queued
  BY <1>7 DEF Queued
<1> QED
  BY <1>1, <1>2, <1>6, <1>7, <1>9, <1>11, <1>12, <1>13 DEF Joins, EvictFor

\* The candidate task, other turns and lost connections touch no queue.
LEMMA QuietInv ==
  ASSUME Inv,
         \/ \E how \in {"accept", "refuse"} : Decide(how)
         \/ \E source \in {"voice", "comment"} : LoseOwner(source)
         \/ OtherTurn
  PROVE  Inv'
<1>1. UNCHANGED <<voices, comments, pending, current, admitted, result, ended>>
  BY DEF Decide, LoseOwner, OtherTurn, queueVars, workVars
<1>2. \/ UNCHANGED worker
      \/ worker = "evaluating" /\ worker' = "decided"
  BY DEF Decide, LoseOwner, OtherTurn, workVars
<1>3. moved' \in BOOLEAN /\ verdict' \in {"none", "accept", "refuse"} /\ valid' \subseteq Requests
  BY DEF Inv, TypeOK, Decide, LoseOwner, OtherTurn, workVars
<1>4. Queued' = Queued /\ Waiting' = Waiting
  BY <1>1 DEF Queued, Waiting
<1>5. TypeOK'
  BY <1>1, <1>2, <1>3 DEF Inv, TypeOK
<1>6. WorkerHasCandidate' /\ QueueHasWorker'
  BY <1>1, <1>2, <1>4 DEF Inv, WorkerHasCandidate, QueueHasWorker
<1> QED
  BY <1>1, <1>4, <1>5, <1>6 DEF Inv, WaitingIsKept, PendingMatches, QueuesAreSets

\* At the end everybody in the queue is answered, and only they.
LEMMA EndAnswers ==
  ASSUME Inv, EndSession
  PROVE  /\ result' = [r \in Requests |-> IF r \in Queued THEN "rejected" ELSE result[r]]
         /\ Waiting' = Waiting \ Queued
         /\ \A r \in Queued : r \in Requests /\ result[r] = "waiting"
<1>1. \A r \in Queued : r \in Requests /\ result[r] = "waiting"
  BY DEF Inv, WaitingIsKept, Waiting
<1>2. result' = [r \in Requests |-> IF r \in Queued THEN "rejected" ELSE result[r]]
  BY <1>1 DEF EndSession, AnswerAtEnd, Told
<1> QED
  BY <1>1, <1>2 DEF Waiting

\* The end of the session keeps the invariant.
LEMMA EndInv == ASSUME Inv, EndSession PROVE Inv'
<1>1. /\ voices' \in Seq(Requests) /\ Distinct(voices') /\ ToSet(voices') = {}
      /\ comments' \in Seq(Requests) /\ Distinct(comments') /\ ToSet(comments') = {}
  BY EmptyHasNone DEF EndSession
<1>2. Queued' = {}
  BY <1>1 DEF Queued
<1>3. /\ result' = [r \in Requests |-> IF r \in Queued THEN "rejected" ELSE result[r]]
      /\ Waiting' = Waiting \ Queued
  BY EndAnswers
<1>4. worker' = IF worker \in {"evaluating", "decided"} THEN "cancelled" ELSE "none"
  BY DEF EndSession
<1>5. TypeOK'
  <2>1. result' \in [Requests -> Answers]
    BY <1>3 DEF Inv, TypeOK, Answers
  <2> QED
    BY <1>1, <1>4, <2>1 DEF Inv, TypeOK, EndSession
<1>6. WaitingIsKept'
  <2>1. Waiting = Queued \cup ({current} \ {NoRequest}) /\ current \notin Queued
    BY DEF Inv, WaitingIsKept, QueuesAreSets
  <2>2. Waiting' = {current} \ {NoRequest}
    BY <2>1, <1>3
  <2> QED
    BY <2>2, <1>2 DEF WaitingIsKept, EndSession
<1>7. PendingMatches'
  BY <1>3 DEF Inv, PendingMatches, EndSession
<1>8. QueueHasWorker'
  BY <1>2 DEF QueueHasWorker
<1>9. QueuesAreSets'
  BY <1>1, <1>2 DEF QueuesAreSets
<1>10. WorkerHasCandidate'
  BY <1>2, <1>4 DEF Inv, WorkerHasCandidate, EndSession
<1> QED
  BY <1>5, <1>6, <1>7, <1>8, <1>9, <1>10 DEF Inv

\* Every step keeps the invariant.
LEMMA StepInv == ASSUME Inv, [Next]_vars PROVE Inv'
<1>1. CASE \E r \in Requests : Receive(r)
  BY <1>1, RejectInv, EnqueueJoins, EvictJoins, JoinInv DEF Receive
<1>2. CASE Work
  BY <1>2, WorkIsWorkStep, WorkInv
<1>3. CASE Candidate \/ OtherTurn \/ \E source \in {"voice", "comment"} : LoseOwner(source)
  BY <1>3, QuietInv DEF Candidate
<1>4. CASE EndSession
  BY <1>4, EndInv
<1>5. CASE UNCHANGED vars
  BY <1>5 DEF Inv, TypeOK, WaitingIsKept, PendingMatches, QueueHasWorker, QueuesAreSets,
     WorkerHasCandidate, Waiting, Queued, vars, queueVars, workVars
<1> QED
  BY <1>1, <1>2, <1>3, <1>4, <1>5 DEF Next

\* The invariants hold together from the first state on.
THEOREM Invariance == Spec => []Inv
<1>1. Init => Inv
  BY InitInv
<1>2. Inv /\ [Next]_vars => Inv'
  BY StepInv
<1> QED
  BY <1>1, <1>2, PTL DEF Spec

\* Every variable keeps its type (SessionRuntime's admission fields).
THEOREM TypeCorrect == Spec => []TypeOK
<1>1. Inv => TypeOK
  BY DEF Inv
<1> QED
  BY <1>1, Invariance, PTL

\* No caller is lost: whoever has no answer is in the queue or with the worker
\* (_brain_and_enqueue_audience, _run_audience_admissions, end_session).
THEOREM CallersAreKept == Spec => []WaitingIsKept
<1>1. Inv => WaitingIsKept
  BY DEF Inv
<1> QED
  BY <1>1, Invariance, PTL

\* _pending_correlations holds the inputs that wait, each with one request.
THEOREM PendingIsExact == Spec => []PendingMatches
<1>1. Inv => PendingMatches
  BY DEF Inv
<1> QED
  BY <1>1, Invariance, PTL

\* The queue is never without a worker: the one that returns has seen it empty,
\* and whoever joins it after that starts another.
THEOREM WorkerIsThere == Spec => []QueueHasWorker
<1>1. Inv => QueueHasWorker
  BY DEF Inv
<1> QED
  BY <1>1, Invariance, PTL

-----------------------------------------------------------------------------
(* Voices first.                                                           *)

\* A comment is taken up only by a step of the worker that finds no owned voice.
LEMMA StepVoicesFirst ==
  ASSUME Inv, Next,
         current' # current, current' \in Requests, Source[current'] = "comment"
  PROVE  ToSet(voices) \cap valid = {}
<1>1. current' # current => Work
  BY DEF Next, Receive, Reject, Enqueue, EvictFor, Candidate, Decide, EndSession, LoseOwner,
     OtherTurn, workVars
<1>2. PICK done, told : WorkStep(done, told)
  BY <1>1, WorkIsWorkStep
<1>3. PICK P \in SUBSET Requests : Takes(P, done, told)
  BY <1>2, PickNextTakes DEF WorkStep
<1>4. current' \in Queued \cap Owned /\ (current' \in ToSet(voices) \/ ToSet(voices) \cap Owned = {})
  BY <1>3, AdmissionAssumption DEF Takes
<1>5. current' \notin ToSet(voices)
  BY DEF Inv, QueuesAreSets
<1>6. Owned = valid
  BY <1>4 DEF Owned
<1> QED
  BY <1>4, <1>5, <1>6

\* A comment is taken up only when no owned voice waits.
THEOREM VoicesGoFirst == Spec => VoicesFirst
<1>1. Inv /\ [Next]_vars =>
        [current' # current /\ current' \in Requests /\ Source[current'] = "comment"
           => ToSet(voices) \cap valid = {}]_vars
  BY StepVoicesFirst
<1> QED
  BY <1>1, Invariance, PTL DEF Spec, VoicesFirst

-----------------------------------------------------------------------------
(* The desk's promise.                                                     *)

\* A new session is a new desk.
LEMMA InitDesk == ASSUME Init PROVE Desk!DeskInit
BY DEF Init, Desk!DeskInit

\* A rejection turns its caller away.
LEMMA RejectDesk == ASSUME Inv, NEW r \in Requests, Reject(r) PROVE Desk!DeskNext
<1>1. result' = [s \in Requests |-> IF s \in {r} THEN "rejected" ELSE result[s]]
  BY DEF Reject, Inv, TypeOK
<1>2. Desk!Turned({r})
  BY <1>1 DEF Reject, Desk!Turned
<1> QED
  BY <1>2 DEF Reject, Desk!DeskNext, Desk!Told

\* A request that finds room waits.
LEMMA EnqueueDesk == ASSUME Inv, NEW r \in Requests, Enqueue(r) PROVE Desk!DeskNext
<1>1. Desk!Wait(r)
  BY DEF Enqueue, Received, Desk!Wait
<1> QED
  BY <1>1 DEF Enqueue, Desk!DeskNext, Desk!Told

\* An eviction displaces one comment.
LEMMA EvictDesk == ASSUME Inv, NEW r \in Requests, EvictFor(r) PROVE Desk!DeskNext
<1> DEFINE c == Head(comments)
<1>1. Joins(r, {c}) /\ c \in ToSet(comments)
  BY EvictJoins
<1>2. c \in Requests /\ result[c] = "waiting"
  BY <1>1 DEF Inv, WaitingIsKept, Waiting, Queued
<1>3. result' = [result EXCEPT ![r] = "waiting", ![c] = "rejected"]
  BY <1>1, <1>2 DEF Joins, Inv, TypeOK
<1>4. Desk!Displaced(r, c)
  BY <1>1, <1>2, <1>3 DEF Joins, Desk!Displaced
<1> QED
  BY <1>2, <1>4 DEF EvictFor, Desk!DeskNext, Desk!Told

\* A step of the worker turns callers away or opens one turn.
LEMMA WorkDesk == ASSUME Inv, Work PROVE Desk!DeskNext
<1>1. ASSUME NEW done, WorkStep(done, "rejected"), UNCHANGED admitted
      PROVE  Desk!DeskNext
  <2>1. PICK P \in SUBSET Requests : Takes(P, done, "rejected")
    BY <1>1, PickNextTakes DEF WorkStep
  <2>2. /\ result' = [r \in Requests |-> IF r \in done THEN "rejected"
                                        ELSE IF r \in P THEN "rejected" ELSE result[r]]
        /\ done \subseteq Requests
        /\ \A r \in P \cup done : result[r] = "waiting"
    BY <1>1, <2>1, WorkAnswers
  <2>3. Desk!Turned(P \cup done)
    BY <2>2 DEF Desk!Turned
  <2> QED
    BY <2>2, <2>3, <1>1 DEF WorkStep, Desk!DeskNext, Desk!Told
<1>2. ASSUME NEW told \in {"accepted", "rejected"}, WorkerAdmits(told), WorkStep({current}, told)
      PROVE  Desk!DeskNext
  <2>1. PICK P \in SUBSET Requests : Takes(P, {current}, told)
    BY <1>2, PickNextTakes DEF WorkStep
  <2>2. /\ result' = [r \in Requests |-> IF r \in {current} THEN told
                                        ELSE IF r \in P THEN "rejected" ELSE result[r]]
        /\ current \in Requests
        /\ \A r \in P \cup {current} : result[r] = "waiting"
        /\ {current} \cap Queued = {}
    BY <1>2, <2>1, WorkAnswers
  <2>3. current \notin P
    BY <2>1, <2>2 DEF Takes
  <2>4. ~ ended
    BY <1>2 DEF WorkerAdmits, Inv, WorkerHasCandidate
  <2>5. Correlation[current] \notin admitted /\ admitted' = admitted \cup {Correlation[current]}
    BY <1>2 DEF WorkerAdmits, Stale, Remember
  <2>6. Desk!Open(current, told, P)
    BY <2>2, <2>3, <2>4, <2>5 DEF Desk!Open
  <2> QED
    BY <2>2, <2>6, <1>2 DEF WorkStep, Desk!DeskNext
<1>3. UNCHANGED admitted \/ \E told \in {"accepted", "rejected"} : WorkerAdmits(told)
  BY DEF Work, WorkerStarts, WorkerRefuses, WorkerStops
<1> QED
  BY <1>1, <1>2, WorkIsWorkStep DEF WorkerStarts, WorkerRefuses, WorkerStops

\* The end turns the queue away and closes the desk.
LEMMA EndDesk == ASSUME Inv, EndSession PROVE Desk!DeskNext
<1>1. /\ result' = [r \in Requests |-> IF r \in Queued THEN "rejected" ELSE result[r]]
      /\ \A r \in Queued : r \in Requests /\ result[r] = "waiting"
  BY EndAnswers
<1>2. Desk!Turned(Queued) /\ Queued \in SUBSET Requests
  BY <1>1 DEF Desk!Turned
<1> QED
  BY <1>2 DEF EndSession, Desk!DeskNext

\* Every step is one of the desk or a stutter.
LEMMA StepDesk == ASSUME Inv, [Next]_vars PROVE [Desk!DeskNext]_(Desk!deskVars)
<1>1. CASE \E r \in Requests : Receive(r)
  BY <1>1, RejectDesk, EnqueueDesk, EvictDesk DEF Receive
<1>2. CASE Work
  BY <1>2, WorkDesk
<1>3. CASE Candidate \/ OtherTurn \/ \E source \in {"voice", "comment"} : LoseOwner(source)
  BY <1>3 DEF Candidate, Decide, OtherTurn, LoseOwner, Desk!deskVars
<1>4. CASE EndSession
  BY <1>4, EndDesk
<1>5. CASE UNCHANGED vars
  BY <1>5 DEF vars, Desk!deskVars
<1> QED
  BY <1>1, <1>2, <1>3, <1>4, <1>5 DEF Next

\* The queue, its worker, the duplicates, the evictions and the end of the session
\* implement the desk: one answer each, one turn for an input, none after the end.
THEOREM Refinement == Spec => ImplementsDesk
<1>1. Init => Desk!DeskInit
  BY InitDesk
<1>2. Inv /\ [Next]_vars => [Desk!DeskNext]_(Desk!deskVars)
  BY StepDesk
<1> QED
  BY <1>1, <1>2, Invariance, PTL DEF Spec, ImplementsDesk, Desk!DeskSpec
=============================================================================
