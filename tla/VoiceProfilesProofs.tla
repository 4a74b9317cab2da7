------------------------ MODULE VoiceProfilesProofs ------------------------
(***************************************************************************)
(* The theorems about VoiceProfiles, for any profiles, keys, faults and    *)
(* bound on the revision.  The lists of steps come first, then what a      *)
(* write does to memory and file, and then one lemma for every part of the *)
(* inductive invariant.                                                    *)
(***************************************************************************)
EXTENDS VoiceProfiles, FiniteSetTheorems, SequenceTheorems, TLAPS

\* The consent revision counts some of what the profile revision counts, so
\* the bound on the second holds for the first.
RevisionsAgree ==
  /\ live.consent <= live.profile
  /\ disk # NoFile => disk.consent <= disk.profile

\* Without a runtime nothing is under way.
DownIsIdle == run = "down" => todo = <<>>

\* Only the end of a session removes its directory.
RemovedAtTheEnd == \A i \in DOMAIN todo : todo[i].do = "remove" => ended

\* A transcript is admitted before the end, and nothing is left of its reply
\* behind it.
IdentifiedBeforeTheEnd == \A i \in DOMAIN todo : todo[i].do = "identify" => ~ended
EndedIsSilent == ended => ~asked /\ work = NoWork

\* A profile that is going to be marked is known.
MarksAreKnown ==
  \A i \in DOMAIN todo : todo[i].do = "mark" => todo[i].profile \in Known(live)

\* An enrolment is nothing but its two writes and the memory's revisions; when
\* its template is written, it is sealed under the revision to come.
Sealing(p)   == <<Do("template", p), Do("enrolled", p), Tell("bind")>>
Enrolling(p) == <<Do("enrolled", p), Tell("bind")>>
EnrolmentIsWhole ==
  \A i \in DOMAIN todo : todo[i].do \in {"template", "enrolled"} =>
    \E p \in Profiles :
      \/ todo = Sealing(p) /\ consent[p] = "given"
      \/ todo = Enrolling(p) /\ vault[p].enrolled = live.profile + 1 /\ consent[p] = "given"

\* A withdrawal is acknowledged behind the removal of the template and behind
\* the end of the work.
WithdrawalIsLast ==
  \A i \in DOMAIN todo : todo[i].do = "withdrawn" =>
    /\ todo[i].profile \in Profiles
    /\ \/ vault[todo[i].profile] = NoTemplate
       \/ \E j \in 1..i - 1 : todo[j] = Do("erase", todo[i].profile)
    /\ \/ work = NoWork
       \/ \E j \in 1..i - 1 : todo[j] = Tell("invalidate")

\* There is no template of a profile whose consent is withdrawn.
WithdrawnIsErased == \A p \in Profiles : consent[p] = "withdrawn" => vault[p] = NoTemplate

\* A template is that of the record in memory and in the file, whatever has
\* become of the record since, except between the two writes of an enrolment.
LiveMatches ==
  \A p \in Profiles \ torn :
    live.records[p] # NoRecord /\ vault[p] # NoTemplate /\ ~Doing("enrolled", p) =>
      vault[p].enrolled = live.records[p].enrolled
DiskMatches ==
  disk # NoFile =>
    \A p \in Profiles \ torn :
      disk.records[p] # NoRecord /\ vault[p] # NoTemplate /\ ~Doing("enrolled", p) =>
        vault[p].enrolled = disk.records[p].enrolled

Inv == /\ TypeOK /\ RevisionsAgree /\ DownIsIdle /\ MarksAreKnown /\ RemovedAtTheEnd /\ MemoryIsOnDisk
       /\ EnrolmentIsWhole /\ WithdrawalIsLast /\ WithdrawnIsErased
       /\ LiveMatches /\ DiskMatches
       /\ IdentifiedBeforeTheEnd /\ EndedIsSilent /\ WithdrawnIsNotTold

-----------------------------------------------------------------------------
(* Lists of steps.                                                         *)

\* A set of profiles can be listed, and the list has nothing else.
LEMMA Listed ==
  ASSUME NEW ps \in SUBSET Profiles
  PROVE  /\ Cardinality(ps) \in Nat
         /\ SetToSeq(ps) \in [1..Cardinality(ps) -> ps]
         /\ SetToSeq(ps) \in Seq(ps)
         /\ Len(SetToSeq(ps)) = Cardinality(ps)
<1>1. IsFiniteSet(ps)
  BY VoiceProfilesAssumption, FS_Subset
<1>2. PICK n \in Nat : ExistsBijection(1..n, ps)
  BY <1>1, FS_NatBijection
<1>3. Cardinality(ps) = n
  BY <1>2, FS_CountingElements
<1>4. \E f \in [1..Cardinality(ps) -> ps] : IsInjective(f)
  BY <1>2, <1>3 DEF ExistsBijection, Bijection, Injection
<1>5. SetToSeq(ps) \in [1..Cardinality(ps) -> ps]
  BY <1>4 DEF SetToSeq
<1> QED
  BY <1>3, <1>5

\* What an operation does besides withdrawing, enrolling and removing.
Ordinary == {s \in Step : s.do \in {"expired", "deleted", "erase", "bind", "invalidate"}}
Marks(ps) == {s \in Step : s.do = "mark" /\ s.profile \in ps}

\* Taking profiles out of use is a list of ordinary steps.
LEMMA PutAwayIsOrdinary ==
  ASSUME NEW ps \in SUBSET Profiles, NEW lifecycle \in {"expired", "deleted"}
  PROVE  PutAway(lifecycle, ps) \in Seq(Ordinary)
<1> DEFINE seq == SetToSeq(ps)
           n == Len(seq)
<1>1. n \in Nat /\ seq \in [1..n -> ps]
  BY Listed
<1> HIDE DEF seq
<1>2. ASSUME NEW i \in 1..2 * n
      PROVE  Do(IF i % 2 = 1 THEN lifecycle ELSE "erase", seq[(i + 1) \div 2]) \in Ordinary
  <2>1. (i + 1) \div 2 \in 1..n
    BY <1>1
  <2>2. seq[(i + 1) \div 2] \in Profiles
    BY <1>1, <2>1
  <2> QED
    BY <2>2 DEF Do, Ordinary, Step
<1>3. 2 * n \in Nat
  BY <1>1
<1>4. [i \in 1..2 * n |-> Do(IF i % 2 = 1 THEN lifecycle ELSE "erase", seq[(i + 1) \div 2])]
        \in [1..2 * n -> Ordinary]
  BY <1>2
<1> QED
  BY <1>3, <1>4 DEF PutAway, seq

\* Marking profiles is a list of marks of those profiles.
LEMMA MarkStepsAreMarks ==
  ASSUME NEW ps \in SUBSET Profiles
  PROVE  MarkSteps(ps) \in Seq(Marks(ps))
<1> DEFINE seq == SetToSeq(ps)
           n == Len(seq)
<1>1. n \in Nat /\ seq \in [1..n -> ps]
  BY Listed
<1> HIDE DEF seq
<1>2. ASSUME NEW i \in 1..n
      PROVE  Do("mark", seq[i]) \in Marks(ps)
  BY <1>1 DEF Do, Marks, Step
<1>3. [i \in 1..n |-> Do("mark", seq[i])] \in [1..n -> Marks(ps)]
  BY <1>2
<1> QED
  BY <1>1, <1>3 DEF MarkSteps, seq

\* A list of ordinary steps and marks is a list of steps, and with another one
\* behind it, it still is.
LEMMA Joined ==
  ASSUME NEW S, NEW T, NEW a \in Seq(S), NEW b \in Seq(T)
  PROVE  a \o b \in Seq(S \cup T)
<1>1. a \in Seq(S \cup T) /\ b \in Seq(S \cup T)
  OBVIOUS
<1> QED
  BY <1>1, ConcatProperties

\* What is left of a list when its first step is taken.
LEMMA TakenFirst ==
  ASSUME todo \in Seq(Step), todo # <<>>, GoOn
  PROVE  /\ todo' \in Seq(Step) /\ todo[1] \in Step /\ Head(todo) = todo[1]
         /\ Len(todo') = Len(todo) - 1 /\ Len(todo) \in Nat /\ Len(todo) > 0
         /\ DOMAIN todo = 1..Len(todo) /\ DOMAIN todo' = 1..Len(todo) - 1
         /\ \A i \in DOMAIN todo' : i + 1 \in DOMAIN todo /\ todo'[i] = todo[i + 1]
<1>1. /\ Tail(todo) \in Seq(Step) /\ Len(Tail(todo)) = Len(todo) - 1
      /\ \A i \in 1..Len(Tail(todo)) : Tail(todo)[i] = todo[i + 1]
  BY HeadTailProperties
<1>2. Len(todo) \in Nat /\ Len(todo) > 0 /\ Head(todo) = todo[1] /\ todo[1] \in Step
  OBVIOUS
<1> QED
  BY <1>1, <1>2 DEF GoOn

-----------------------------------------------------------------------------
(* What a step does to the records in memory and in the file.              *)

\* What a write may make of the records: a record keeps its enrolment unless
\* the write is that of an enrolment.
Successor(new) ==
  /\ new \in Snapshot /\ new.profile = live.profile + 1 /\ new.consent <= new.profile
  /\ \A p \in Profiles : live.records[p] # NoRecord => new.records[p] # NoRecord
  /\ \A p \in Profiles :
       new.records[p] # NoRecord /\ ~Doing("enrolled", p) =>
         live.records[p] # NoRecord /\ new.records[p].enrolled = live.records[p].enrolled

StaysUp == run' # "down" => run # "down"

Writes == /\ \E new \in Snapshot :
               /\ Successor(new) /\ disk' = new
               /\ live' = new \/ (live' = live /\ (todo' = <<>> \/ GoOn))
          /\ StaysUp /\ UNCHANGED ended
Idles  == /\ UNCHANGED <<live, disk>> /\ StaysUp
          /\ \/ UNCHANGED ended
             \/ ended' = TRUE /\ todo = <<>>
Removes == /\ live' = live /\ disk' = NoFile /\ todo # <<>> /\ Head(todo) = Tell("remove")
           /\ StaysUp /\ UNCHANGED ended
Stops  == live' = Fresh /\ UNCHANGED disk /\ run' = "down" /\ todo' = <<>>
Starts == live' = Load /\ UNCHANGED disk /\ todo = <<>>

\* A new snapshot has the next revision and the records it was given.
LEMMA SnapIsSuccessor ==
  ASSUME live \in Snapshot, live.consent <= live.profile, live.profile < MaxRevision,
         NEW records \in [Profiles -> Record \cup {NoRecord}], NEW withConsent \in BOOLEAN
  PROVE  LET new == Snap(records, withConsent)
         IN  /\ new \in Snapshot /\ new.profile = live.profile + 1
             /\ new.consent <= new.profile /\ new.records = records
BY VoiceProfilesAssumption DEF Snap, Snapshot

\* Publish writes the file, or leaves it, and memory never moves without it.
LEMMA Published ==
  ASSUME NEW new, Publish(new)
  PROVE  /\ live.profile < MaxRevision
         /\ \/ disk' = new /\ live' = new /\ GoOn /\ UNCHANGED run
            \/ /\ live' = live /\ disk' \in {disk, new} /\ todo' = <<>>
               /\ run' = run \/ run' = "down"
BY DEF Publish, SaveRaises, Fail

\* So publishing either writes a successor or changes nothing.
LEMMA PublishedSuccessor ==
  ASSUME NEW new, Publish(new), Successor(new), UNCHANGED ended
  PROVE  Writes \/ Idles
<1>1. run' # "down" => run # "down"
  BY Published
<1>2. new \in Snapshot
  BY DEF Successor
<1> QED
  BY <1>1, <1>2, Published DEF Writes, Idles, StaysUp

\* Every step writes a successor, leaves the records alone, removes the file,
\* stops or starts.
LEMMA StoreStep ==
  ASSUME TypeOK, RevisionsAgree, DownIsIdle, MarksAreKnown, [Next]_vars
  PROVE  Writes \/ Idles \/ Removes \/ Stops \/ Starts
<1> USE DEF StaysUp
<1>t. live \in Snapshot /\ live.consent <= live.profile
  BY DEF TypeOK, RevisionsAgree
<1>r. live.records \in [Profiles -> Record \cup {NoRecord}]
  BY <1>t DEF Snapshot
<1>1. CASE UNCHANGED vars
  BY <1>1 DEF vars, runtimeVars, durableVars, Idles
<1>2. CASE \/ Hear \/ BeginReply \/ EndReply \/ End \/ Expire
           \/ BindMemory \/ Identify \/ InvalidatePending
  BY <1>2 DEF Hear, BeginReply, EndReply, End, Expire, BindMemory, Identify, InvalidatePending,
      Idle, DownIsIdle, runtimeVars, durableVars, Idles
<1>b. ASSUME NEW steps, Begin(steps)
      PROVE  Idles
  BY <1>b DEF Begin, durableVars, Idles
<1>e. ASSUME NEW p \in Profiles, Enroll(p)
      PROVE  Idles
  BY <1>e DEF Enroll, durableVars, Idles
<1>o. CASE \/ Recognize \/ ExpireProfiles
           \/ \E p \in Profiles : Revoke(p) \/ Delete(p) \/ Amend(p)
  BY <1>o, <1>b DEF Recognize, ExpireProfiles, Revoke, Delete, Amend
<1>3. CASE RemoveDirectory
  <2>1. CASE disk' = NoFile
    BY <1>3, <2>1 DEF RemoveDirectory, Removes, Fail
  <2>2. CASE disk' = disk
    BY <1>3, <2>2 DEF RemoveDirectory, Idles, Fail
  <2> QED
    BY <1>3, <2>1, <2>2 DEF RemoveDirectory
<1>4. CASE Stop
  BY <1>4 DEF Stop, Stops, durableVars
<1>5. CASE Start
  BY <1>5 DEF Start, Starts, durableVars, DownIsIdle
<1>6. ASSUME NEW p \in Profiles, WriteTemplate(p) \/ EraseTemplate(p) \/ Withdraw(p)
      PROVE  Idles
  BY <1>6 DEF WriteTemplate, EraseTemplate, Withdraw, Fail, durableVars, Idles
<1>7. ASSUME NEW p \in Profiles, PublishEnrolment(p)
      PROVE  Writes \/ Idles
  <2>1. PICK lasting \in BOOLEAN :
          Publish(Snap([live.records EXCEPT ![p] =
                          [lifecycle |-> "active", enrolled |-> live.profile + 1,
                           expires |-> ~lasting, flagged |-> FALSE]], TRUE))
    BY <1>7 DEF PublishEnrolment
  <2> DEFINE record == [lifecycle |-> "active", enrolled |-> live.profile + 1,
                        expires |-> ~lasting, flagged |-> FALSE]
             records == [live.records EXCEPT ![p] = record]
  <2>2. live.profile < MaxRevision /\ live.profile \in Nat
    <3>1. live.profile < MaxRevision
      BY <2>1, Published
    <3> QED
      BY <1>t, <3>1, VoiceProfilesAssumption DEF Snapshot
  <2>3. record \in Record
    BY <2>2, VoiceProfilesAssumption DEF Record
  <2>4. records \in [Profiles -> Record \cup {NoRecord}] /\ records[p] \in Record
    BY <1>r, <2>3
  <2>5. \A q \in Profiles : q # p => records[q] = live.records[q]
    BY <1>r
  <2>6. Doing("enrolled", p)
    BY <1>7 DEF PublishEnrolment
  <2>7. Successor(Snap(records, TRUE))
    <3> HIDE DEF records
    <3> QED
      BY <1>t, <2>2, <2>4, <2>5, <2>6, SnapIsSuccessor, NothingAssumption DEF Successor
  <2> QED
    BY <1>7, <2>1, <2>7, PublishedSuccessor DEF PublishEnrolment
<1>8. ASSUME NEW p \in Profiles, NEW lifecycle \in {"revoked", "expired", "deleted"},
             Transition(lifecycle, p)
      PROVE  Writes \/ Idles
  <2>1. CASE p \in Known(live) /\ live.records[p].lifecycle # lifecycle
    <3> DEFINE records == [live.records EXCEPT ![p].lifecycle = lifecycle]
    <3>1. Publish(Snap(records, TRUE)) /\ UNCHANGED ended
      BY <1>8, <2>1 DEF Transition
    <3>2. live.records[p] \in Record
      BY <1>r, <2>1 DEF Known
    <3>3. records \in [Profiles -> Record \cup {NoRecord}] /\ records[p] \in Record
          /\ records[p].enrolled = live.records[p].enrolled
      BY <1>r, <3>2 DEF Record
    <3>4. \A q \in Profiles : q # p => records[q] = live.records[q]
      BY <1>r
    <3>5. Successor(Snap(records, TRUE))
      <4>1. live.records[p] # NoRecord
        BY <3>2, NothingAssumption
      <4>2. live.profile < MaxRevision
        BY <3>1, Published
      <4> HIDE DEF records
      <4> QED
        BY <1>t, <3>3, <3>4, <4>1, <4>2, SnapIsSuccessor, NothingAssumption DEF Successor
    <3> QED
      BY <3>1, <3>5, PublishedSuccessor
  <2>2. CASE ~(p \in Known(live) /\ live.records[p].lifecycle # lifecycle)
    BY <1>8, <2>2 DEF Transition, Idles
  <2> QED
    BY <2>1, <2>2
<1>9. ASSUME NEW p \in Profiles, PublishAmendment(p)
      PROVE  Writes \/ Idles
  <2>1. Publish(Snap(live.records, FALSE)) /\ UNCHANGED ended
    BY <1>9 DEF PublishAmendment
  <2>2. Successor(Snap(live.records, FALSE))
    BY <1>t, <1>r, <2>1, Published, SnapIsSuccessor DEF Successor
  <2> QED
    BY <2>1, <2>2, PublishedSuccessor
<1>10. ASSUME NEW p \in Profiles, MarkUnreadable(p)
       PROVE  Writes \/ Idles
  <2>1. CASE vault[p] = NoTemplate \/ Readable(p) \/ live.records[p].flagged
    BY <1>10, <2>1 DEF MarkUnreadable, Idles
  <2>2. CASE ~(vault[p] = NoTemplate \/ Readable(p) \/ live.records[p].flagged)
    <3> DEFINE records == [live.records EXCEPT ![p].flagged = TRUE]
               new == Snap(records, FALSE)
    <3>1. /\ live.profile < MaxRevision /\ UNCHANGED <<run, ended>> /\ GoOn
          /\ \/ live' = new /\ disk' = new
             \/ live' = live /\ disk' \in {disk, new}
      BY <1>10, <2>2 DEF MarkUnreadable, SaveRaises
    <3>2. live.records[p] \in Record
      <4>1. todo # <<>> /\ Head(todo) = Do("mark", p)
        BY <1>10 DEF MarkUnreadable, Doing
      <4>2. 1 \in DOMAIN todo /\ todo[1] = Do("mark", p)
        BY <4>1 DEF TypeOK
      <4>3. p \in Known(live)
        BY <4>2 DEF MarksAreKnown, Do
      <4> QED
        BY <1>r, <4>3 DEF Known
    <3>3. records \in [Profiles -> Record \cup {NoRecord}] /\ records[p] \in Record
          /\ records[p].enrolled = live.records[p].enrolled
      BY <1>r, <3>2 DEF Record
    <3>4. \A q \in Profiles : q # p => records[q] = live.records[q]
      BY <1>r
    <3>5. Successor(new)
      <4>1. live.records[p] # NoRecord
        BY <3>2, NothingAssumption
      <4> HIDE DEF records
      <4> QED
        BY <1>t, <3>1, <3>3, <3>4, <4>1, SnapIsSuccessor, NothingAssumption DEF Successor
    <3>6. new \in Snapshot
      BY <3>5 DEF Successor
    <3> QED
      BY <3>1, <3>5, <3>6 DEF Writes, Idles
  <2> QED
    BY <2>1, <2>2
<1> QED
  BY <1>1, <1>2, <1>e, <1>o, <1>3, <1>4, <1>5, <1>6, <1>7, <1>8, <1>9, <1>10 DEF Next, Perform

-----------------------------------------------------------------------------
(* What a step does to the list of steps.                                  *)

Withdrawing(p) ==
  {<<Do(what, p), Do("erase", p), Tell("bind"), Tell("invalidate"), Do("withdrawn", p)>> :
     what \in {"revoked", "deleted"}}

Opens ==
  /\ todo = <<>>
  /\ \/ \E p \in Profiles : todo' = Sealing(p) /\ consent'[p] = "given"
     \/ \E p \in Profiles : todo' \in Withdrawing(p)
     \/ \E p \in Profiles : todo' = <<Do("amend", p), Tell("bind")>>
     \/ todo' \in Seq(Ordinary \cup Marks(Known(live')))
     \/ todo' \in Seq((Ordinary \cup Marks(Known(live'))) \cup {Tell("identify")}) /\ ~ended'
     \/ todo' \in Seq(Ordinary \cup {Tell("remove")}) /\ ended'

\* What an operation ends with is ordinary.
LEMMA TellIsOrdinary ==
  /\ <<Tell("bind")>> \in Seq(Ordinary)
  /\ <<Tell("bind"), Tell("invalidate")>> \in Seq(Ordinary)
  /\ <<Tell("identify")>> \in Seq({Tell("identify")})
  /\ <<Tell("remove")>> \in Seq({Tell("remove")})
<1>1. Tell("bind") \in Ordinary /\ Tell("invalidate") \in Ordinary
  BY DEF Tell, Do, Ordinary, Step
<1> QED
  BY <1>1

\* So is expiring what is overdue.
LEMMA ExpiryIsOrdinary ==
  ASSUME NEW s, NEW now
  PROVE  ExpireSteps(s, now) \in Seq(Ordinary)
BY PutAwayIsOrdinary DEF ExpireSteps, Overdue

\* A step leaves the list alone, takes its first step, drops it, or begins one.
LEMMA TodoStep ==
  ASSUME TypeOK, DownIsIdle, [Next]_vars
  PROVE  todo' = todo \/ (todo # <<>> /\ GoOn) \/ todo' = <<>> \/ Opens
<1>1. CASE UNCHANGED vars
  BY <1>1 DEF vars, runtimeVars
<1>2. CASE Hear \/ BeginReply \/ EndReply \/ Expire
  BY <1>2 DEF Hear, BeginReply, EndReply, Expire, runtimeVars
<1>3. CASE BindMemory \/ Identify \/ InvalidatePending \/ RemoveDirectory
  BY <1>3 DEF BindMemory, Identify, InvalidatePending, RemoveDirectory, Fail
<1>4. CASE Stop
  BY <1>4 DEF Stop
<1>5. ASSUME NEW p \in Profiles, Enroll(p)
      PROVE  todo' = todo \/ Opens
  <2>1. consent \in [Profiles -> {"none", "given", "withdrawn"}]
    BY DEF TypeOK
  <2>2. CASE evidence = "good"
    BY <1>5, <2>1, <2>2 DEF Enroll, Idle, Opens, Sealing
  <2>3. CASE evidence # "good"
    BY <1>5, <2>3 DEF Enroll
  <2> QED
    BY <2>2, <2>3
<1>6. ASSUME NEW p \in Profiles, Revoke(p) \/ Delete(p)
      PROVE  Opens
  <2>1. todo = <<>> /\ todo' \in Withdrawing(p)
    BY <1>6 DEF Revoke, Delete, Begin, RevokeSteps, Withdrawing, Idle
  <2> QED
    BY <2>1 DEF Opens
<1>7. ASSUME NEW p \in Profiles, Amend(p)
      PROVE  Opens
  BY <1>7 DEF Amend, Begin, Idle, Opens
<1>8. CASE ExpireProfiles
  <2>1. /\ todo = <<>> /\ live' = live
        /\ todo' = ExpireSteps(live, late) \o <<Tell("bind"), Tell("invalidate")>>
    BY <1>8 DEF ExpireProfiles, Begin, Idle
  <2>2. todo' \in Seq(Ordinary \cup Ordinary)
    <3> DEFINE a == ExpireSteps(live, late)
    <3>1. a \in Seq(Ordinary)
      BY ExpiryIsOrdinary
    <3> HIDE DEF a
    <3>2. a \o <<Tell("bind"), Tell("invalidate")>> \in Seq(Ordinary \cup Ordinary)
      BY <3>1, TellIsOrdinary, Joined
    <3> QED
      BY <2>1, <3>2 DEF a
  <2>3. todo' \in Seq(Ordinary \cup Marks(Known(live')))
    BY <2>2
  <2> QED
    BY <2>1, <2>3 DEF Opens
<1>9. CASE Recognize
  <2> DEFINE ps == {p \in Matchable(live) \ Overdue(live, late) :
                      vault[p] # NoTemplate /\ ~Readable(p)}
  <2>1. ps \in SUBSET Profiles /\ ps \subseteq Known(live)
    BY DEF Matchable, IsActive, Known
  <2> DEFINE before == IF evidence = "none" THEN <<>>
                       ELSE ExpireSteps(live, late) \o MarkSteps(ps)
  <2>2. /\ todo = <<>> /\ live' = live /\ ~ended'
        /\ todo' = before \o <<Tell("identify")>>
    BY <1>9 DEF Recognize, Begin, Idle
  <2> HIDE DEF ps
  <2>3. before \in Seq(Ordinary \cup Marks(ps))
    <3>1. ExpireSteps(live, late) \o MarkSteps(ps) \in Seq(Ordinary \cup Marks(ps))
      BY <2>1, ExpiryIsOrdinary, MarkStepsAreMarks, Joined
    <3>2. <<>> \in Seq(Ordinary \cup Marks(ps))
      OBVIOUS
    <3> QED
      BY <3>1, <3>2
  <2>4. Ordinary \cup Marks(ps) \subseteq Ordinary \cup Marks(Known(live'))
    BY <2>1, <2>2 DEF Marks
  <2>5. before \in Seq(Ordinary \cup Marks(Known(live')))
    BY <2>3, <2>4
  <2> HIDE DEF before
  <2>6. before \o <<Tell("identify")>>
          \in Seq((Ordinary \cup Marks(Known(live'))) \cup {Tell("identify")})
    BY <2>5, TellIsOrdinary, Joined
  <2> QED
    BY <2>2, <2>6 DEF Opens
<1>10. CASE End
  <2>1. /\ todo = <<>> /\ ended'
        /\ todo' = PutAway("deleted", Known(live)) \o <<Tell("remove")>>
    BY <1>10 DEF End, Idle
  <2>2. Known(live) \in SUBSET Profiles
    BY DEF Known
  <2>3. PutAway("deleted", Known(live)) \in Seq(Ordinary)
    BY <2>2, PutAwayIsOrdinary
  <2>4. todo' \in Seq(Ordinary \cup {Tell("remove")})
    BY <2>1, <2>3, TellIsOrdinary, Joined
  <2> QED
    BY <2>1, <2>4 DEF Opens
<1>11. CASE Start
  <2> DEFINE ps == Known(Load) \ Overdue(Load, late')
             expiring == ExpireSteps(Load, late')
             rest == <<Tell("bind")>> \o MarkSteps(ps)
  <2>1. ps \in SUBSET Profiles /\ ps \subseteq Known(Load)
    BY DEF Known
  <2>2. /\ todo = <<>> /\ live' = Load
        /\ todo' = (expiring \o <<Tell("bind")>>) \o MarkSteps(ps)
    BY <1>11 DEF Start, DownIsIdle
  <2>3. expiring \in Seq(Ordinary) /\ MarkSteps(ps) \in Seq(Marks(ps))
    BY <2>1, ExpiryIsOrdinary, MarkStepsAreMarks
  <2> HIDE DEF ps, expiring
  <2>4. expiring \o <<Tell("bind")>> \in Seq(Ordinary \cup Ordinary)
    BY <2>3, TellIsOrdinary, Joined
  <2>5. (expiring \o <<Tell("bind")>>) \o MarkSteps(ps) \in Seq((Ordinary \cup Ordinary) \cup Marks(ps))
    BY <2>3, <2>4, Joined
  <2>6. (Ordinary \cup Ordinary) \cup Marks(ps) \subseteq Ordinary \cup Marks(Known(live'))
    BY <2>1, <2>2 DEF Marks
  <2>7. todo' \in Seq(Ordinary \cup Marks(Known(live')))
    BY <2>2, <2>5, <2>6
  <2> QED
    BY <2>2, <2>7 DEF Opens
<1>12. ASSUME NEW new, Publish(new), todo # <<>>
       PROVE  GoOn \/ todo' = <<>>
  BY <1>12, Published
<1>13. ASSUME NEW p \in Profiles, Perform(p)
       PROVE  (todo # <<>> /\ GoOn) \/ todo' = <<>>
  BY <1>12, <1>13 DEF Perform, WriteTemplate, EraseTemplate, Withdraw, MarkUnreadable,
     PublishEnrolment, PublishAmendment, Transition, Doing, Fail
<1> QED
  BY <1>1, <1>2, <1>3, <1>4, <1>5, <1>6, <1>7, <1>8, <1>9, <1>10, <1>11, <1>13 DEF Next

-----------------------------------------------------------------------------
(* The parts of the invariant.                                             *)

\* The lists an operation begins with consist of steps.
LEMMA OpenedIsList ==
  ASSUME Opens
  PROVE  todo' \in Seq(Step)
<1>1. \A what \in {"template", "enrolled", "revoked", "deleted", "erase", "amend", "withdrawn"},
        p \in Profiles : Do(what, p) \in Step
  BY DEF Do, Step
<1>2. \A what \in {"bind", "identify", "invalidate", "remove"} : Tell(what) \in Step
  BY DEF Tell, Do, Step
<1>3. ASSUME NEW S \in SUBSET Step, todo' \in Seq(S)
      PROVE  todo' \in Seq(Step)
  BY <1>3
<1>4. /\ Ordinary \cup Marks(Known(live')) \in SUBSET Step
      /\ (Ordinary \cup Marks(Known(live'))) \cup {Tell("identify")} \in SUBSET Step
      /\ Ordinary \cup {Tell("remove")} \in SUBSET Step
  BY <1>2 DEF Ordinary, Marks
<1>5. ASSUME NEW p \in Profiles, todo' \in Withdrawing(p)
      PROVE  todo' \in Seq(Step)
  <2>1. PICK what \in {"revoked", "deleted"} :
          todo' = <<Do(what, p), Do("erase", p), Tell("bind"), Tell("invalidate"),
                    Do("withdrawn", p)>>
    BY <1>5 DEF Withdrawing
  <2>2. \A a, b, c, d, e \in Step : <<a, b, c, d, e>> \in Seq(Step)
    OBVIOUS
  <2> QED
    BY <1>1, <1>2, <2>1, <2>2
<1>6. ASSUME NEW p \in Profiles, todo' = Sealing(p) \/ todo' = <<Do("amend", p), Tell("bind")>>
      PROVE  todo' \in Seq(Step)
  <2>1. (\A a, b \in Step : <<a, b>> \in Seq(Step)) /\ \A a, b, c \in Step : <<a, b, c>> \in Seq(Step)
    OBVIOUS
  <2> QED
    BY <1>1, <1>2, <1>6, <2>1 DEF Sealing
<1> QED
  BY <1>3, <1>4, <1>5, <1>6 DEF Opens

\* The list consists of steps.
LEMMA TodoTyped ==
  ASSUME TypeOK, DownIsIdle, [Next]_vars
  PROVE  todo' \in Seq(Step)
<1>1. todo \in Seq(Step) /\ <<>> \in Seq(Step)
  BY DEF TypeOK
<1> QED
  BY <1>1, TodoStep, TakenFirst, OpenedIsList

\* The records of an empty store have their shape,
LEMMA FreshIsSnapshot == Fresh \in Snapshot /\ Fresh.consent <= Fresh.profile
BY VoiceProfilesAssumption DEF Fresh, Snapshot

\* and so have those that are loaded.
LEMMA LoadIsSnapshot ==
  ASSUME TypeOK, RevisionsAgree
  PROVE  Load \in Snapshot /\ Load.consent <= Load.profile
BY FreshIsSnapshot DEF Load, TypeOK, RevisionsAgree

\* Memory and file keep to their shape, and their revisions agree.
LEMMA StoreTyped ==
  ASSUME TypeOK, RevisionsAgree, DownIsIdle, MarksAreKnown, [Next]_vars
  PROVE  live' \in Snapshot /\ disk' \in Snapshot \cup {NoFile} /\ RevisionsAgree'
<1>1. live \in Snapshot /\ disk \in Snapshot \cup {NoFile}
  BY DEF TypeOK
<1>2. CASE Writes
  BY <1>1, <1>2 DEF Writes, Successor, RevisionsAgree
<1>3. CASE Idles
  BY <1>1, <1>3 DEF Idles, RevisionsAgree
<1>4. CASE Removes
  BY <1>1, <1>4 DEF Removes, RevisionsAgree
<1>5. CASE Stops
  BY <1>1, <1>5, FreshIsSnapshot DEF Stops, RevisionsAgree
<1>6. CASE Starts
  BY <1>1, <1>6, LoadIsSnapshot DEF Starts, RevisionsAgree
<1> QED
  BY <1>2, <1>3, <1>4, <1>5, <1>6, StoreStep

\* What is sealed has the shape of a template.
LEMMA SealedIsTemplate ==
  ASSUME TypeOK, live.profile < MaxRevision
  PROVE  Sealed \in Template
<1>1. live.profile \in 0..MaxRevision /\ key \in Keys
  BY DEF TypeOK, Snapshot
<1>2. live.profile + 1 \in 1..MaxRevision
  BY <1>1, VoiceProfilesAssumption
<1> QED
  BY <1>1, <1>2 DEF Sealed, Template

\* The revisions of a snapshot have their shape.
LEMMA BoundIsRevisions ==
  ASSUME NEW s \in Snapshot
  PROVE  BoundTo(s) \in Revisions
BY DEF Snapshot, BoundTo, Revisions

\* What has a shape besides the records and the steps.
Shapes ==
  /\ run \in {"down", "starting", "up"} /\ bound \in Revisions /\ key \in Keys
  /\ evidence \in {"none", "good", "poor"}
  /\ speaker \in Profiles \cup {NoRecord} /\ asked \in BOOLEAN /\ work \in Revisions \cup {NoWork}
  /\ ended \in BOOLEAN /\ erased \in BOOLEAN /\ late \in BOOLEAN
  /\ vault \in [Profiles -> Template \cup {NoTemplate}]
  /\ consent \in [Profiles -> {"none", "given", "withdrawn"}] /\ torn \subseteq Profiles
  /\ overtaken \in BOOLEAN

\* They keep to it.
LEMMA RestTyped ==
  ASSUME TypeOK, [Next]_vars
  PROVE  Shapes'
<1> USE DEF runtimeVars, replyVars, durableVars, historyVars, Shapes
<1>t. Shapes
  BY DEF TypeOK
<1>l. live \in Snapshot
  BY DEF TypeOK
<1>1. CASE UNCHANGED vars
  BY <1>1, <1>t DEF vars
<1>2. CASE \/ Hear \/ BeginReply \/ EndReply \/ Expire
           \/ BindMemory \/ InvalidatePending \/ End
  BY <1>2, <1>t, <1>l, BoundIsRevisions
     DEF Hear, BeginReply, EndReply, Expire, BindMemory, InvalidatePending, End
<1>i. CASE Identify
  BY <1>i, <1>t DEF Identify, Matchable
<1>3. ASSUME NEW steps, Begin(steps)
      PROVE  UNCHANGED <<run, live, bound, key, evidence, replyVars, ended, erased,
                         durableVars, late, historyVars>>
  BY <1>3 DEF Begin
<1>4. CASE \/ Recognize \/ ExpireProfiles
           \/ \E p \in Profiles : Revoke(p) \/ Delete(p) \/ Amend(p)
  BY <1>3, <1>4, <1>t DEF Recognize, ExpireProfiles, Revoke, Delete, Amend
<1>5. ASSUME NEW p \in Profiles, Enroll(p)
      PROVE  Shapes'
  BY <1>5, <1>t DEF Enroll
<1>6. CASE RemoveDirectory
  BY <1>6, <1>t DEF RemoveDirectory, Fail
<1>7. CASE Stop
  BY <1>7, <1>t, FreshIsSnapshot, BoundIsRevisions DEF Stop
<1>8. CASE Start
  BY <1>8, <1>t DEF Start
<1>9. ASSUME NEW p \in Profiles, WriteTemplate(p)
      PROVE  Shapes'
  BY <1>9, <1>t, SealedIsTemplate DEF WriteTemplate, Fail
<1>10. ASSUME NEW p \in Profiles, EraseTemplate(p) \/ Withdraw(p)
       PROVE  Shapes'
  <2>1. CASE EraseTemplate(p)
    BY <1>t, <2>1 DEF EraseTemplate, Fail
  <2>2. CASE Withdraw(p)
    <3>1. overtaken' \in BOOLEAN
      BY <2>2 DEF Withdraw
    <3> QED
      BY <1>t, <2>2, <3>1 DEF Withdraw
  <2> QED
    BY <1>10, <2>1, <2>2
<1>11. ASSUME NEW new, Publish(new)
       PROVE  run' \in {"down", "starting", "up"}
  BY <1>11, <1>t, Published
<1>12. ASSUME NEW p \in Profiles, PublishEnrolment(p)
       PROVE  Shapes'
  BY <1>11, <1>12, <1>t DEF PublishEnrolment, TakeBack
<1>13. ASSUME NEW p \in Profiles, NEW lifecycle \in {"revoked", "expired", "deleted"},
              Transition(lifecycle, p)
       PROVE  Shapes'
  BY <1>11, <1>13, <1>t DEF Transition
<1>14. ASSUME NEW p \in Profiles, PublishAmendment(p) \/ MarkUnreadable(p)
       PROVE  Shapes'
  BY <1>11, <1>14, <1>t DEF PublishAmendment, MarkUnreadable
<1> HIDE DEF Shapes
<1> QED
  BY <1>1, <1>2, <1>i, <1>4, <1>5, <1>6, <1>7, <1>8, <1>9, <1>10, <1>12, <1>13, <1>14
     DEF Next, Perform

\* A step that leaves no runtime leaves nothing under way.
LEMMA DownStaysIdle ==
  ASSUME TypeOK, DownIsIdle, [Next]_vars
  PROVE  DownIsIdle'
<1> USE DEF DownIsIdle, runtimeVars
<1>1. CASE UNCHANGED vars
  BY <1>1 DEF vars
<1>2. CASE \/ Hear \/ BeginReply \/ EndReply \/ Expire \/ BindMemory \/ Identify
           \/ InvalidatePending \/ End \/ RemoveDirectory \/ Stop \/ Start
  BY <1>2 DEF Hear, BeginReply, EndReply, Expire, BindMemory, Identify, InvalidatePending, End,
     Idle, RemoveDirectory, Fail, Stop, Start
<1>3. ASSUME NEW steps, Begin(steps), Idle
      PROVE  run' # "down"
  BY <1>3 DEF Begin, Idle
<1>4. CASE \/ Recognize \/ ExpireProfiles
           \/ \E p \in Profiles : Revoke(p) \/ Delete(p) \/ Amend(p)
  BY <1>3, <1>4 DEF Recognize, ExpireProfiles, Revoke, Delete, Amend
<1>5. ASSUME NEW p \in Profiles, Enroll(p)
      PROVE  run' # "down"
  BY <1>5 DEF Enroll, Idle
<1>6. ASSUME NEW new, Publish(new), todo # <<>>
      PROVE  run' = "down" => todo' = <<>>
  BY <1>6, Published
<1>7. ASSUME NEW p \in Profiles, Perform(p)
      PROVE  run' = "down" => todo' = <<>>
  BY <1>6, <1>7 DEF Perform, WriteTemplate, EraseTemplate, Withdraw, MarkUnreadable,
     PublishEnrolment, PublishAmendment, Transition, Doing, Fail
<1> QED
  BY <1>1, <1>2, <1>4, <1>5, <1>7 DEF Next

\* Whatever is true of every step of the list stays true of what is left.
LEMMA OpenedSteps ==
  ASSUME Opens, NEW i \in DOMAIN todo'
  PROVE  /\ todo'[i].do = "mark" => todo'[i].profile \in Known(live')
         /\ todo'[i].do = "remove" => ended'
         /\ todo'[i].do = "identify" => ~ended'
<1>1. CASE \E p \in Profiles : \/ todo' = Sealing(p) \/ todo' \in Withdrawing(p)
                               \/ todo' = <<Do("amend", p), Tell("bind")>>
  BY <1>1 DEF Sealing, Withdrawing, Do, Tell
<1>2. CASE todo' \in Seq(Ordinary \cup Marks(Known(live')))
  <2>1. todo'[i] \in Ordinary \cup Marks(Known(live'))
    BY <1>2
  <2> QED
    BY <2>1 DEF Ordinary, Marks
<1>3. CASE todo' \in Seq(Ordinary \cup {Tell("remove")}) /\ ended'
  <2>1. todo'[i] \in Ordinary \cup {Tell("remove")}
    BY <1>3
  <2> QED
    BY <1>3, <2>1 DEF Ordinary, Tell, Do
<1>4. CASE todo' \in Seq((Ordinary \cup Marks(Known(live'))) \cup {Tell("identify")}) /\ ~ended'
  <2>1. todo'[i] \in (Ordinary \cup Marks(Known(live'))) \cup {Tell("identify")}
    BY <1>4
  <2> QED
    BY <1>4, <2>1 DEF Ordinary, Marks, Tell, Do
<1> QED
  BY <1>1, <1>2, <1>3, <1>4 DEF Opens

\* A record that is known stays known while anything is under way.
LEMMA KnownStaysKnown ==
  ASSUME TypeOK, RevisionsAgree, DownIsIdle, MarksAreKnown, [Next]_vars,
         todo # <<>>, todo' # <<>>
  PROVE  Known(live) \subseteq Known(live') /\ ended' = ended
<1>1. CASE Writes
  BY <1>1 DEF Writes, Successor, Known
<1>2. CASE Idles \/ Removes
  BY <1>2 DEF Idles, Removes, Known
<1> QED
  BY <1>1, <1>2, StoreStep DEF Stops, Starts

\* What is to be marked stays known, what is removed is ended, and what is
\* identified is not.
LEMMA MarksStayKnown ==
  ASSUME TypeOK, RevisionsAgree, DownIsIdle, MarksAreKnown, RemovedAtTheEnd,
         IdentifiedBeforeTheEnd, [Next]_vars
  PROVE  MarksAreKnown' /\ RemovedAtTheEnd' /\ IdentifiedBeforeTheEnd'
<1> SUFFICES ASSUME NEW i \in DOMAIN todo'
             PROVE  /\ todo'[i].do = "mark" => todo'[i].profile \in Known(live')
                    /\ todo'[i].do = "remove" => ended'
                    /\ todo'[i].do = "identify" => ~ended'
  BY DEF MarksAreKnown, RemovedAtTheEnd, IdentifiedBeforeTheEnd, Known
<1>1. todo' # <<>>
  OBVIOUS
<1>2. CASE todo' = todo
  BY <1>1, <1>2, KnownStaysKnown DEF MarksAreKnown, RemovedAtTheEnd, IdentifiedBeforeTheEnd
<1>3. CASE todo # <<>> /\ GoOn
  BY <1>1, <1>3, KnownStaysKnown, TakenFirst
     DEF MarksAreKnown, RemovedAtTheEnd, IdentifiedBeforeTheEnd, TypeOK
<1>4. CASE Opens
  BY <1>4, OpenedSteps
<1> QED
  BY <1>1, <1>2, <1>3, <1>4, TodoStep

\* Memory and file.
LEMMA MemoryStaysOnDisk ==
  ASSUME TypeOK, RevisionsAgree, DownIsIdle, MarksAreKnown, RemovedAtTheEnd, MemoryIsOnDisk,
         [Next]_vars
  PROVE  MemoryIsOnDisk'
<1>t. live \in Snapshot /\ live.profile \in Nat /\ disk \in Snapshot \cup {NoFile}
  BY DEF TypeOK, Snapshot
<1>1. CASE Writes
  <2>1. PICK new \in Snapshot : /\ new.profile = live.profile + 1 /\ disk' = new
                                /\ live' = new \/ live' = live
    BY <1>1 DEF Writes, Successor
  <2>2. disk' # NoFile
    BY <2>1, NothingAssumption
  <2>3. CASE live' = new
    <3>1. live'.profile = live.profile + 1 /\ disk'.profile = live.profile + 1
      BY <2>1, <2>3
    <3> QED
      BY <1>t, <2>1, <2>2, <2>3, <3>1 DEF MemoryIsOnDisk
  <2>4. CASE live' = live
    <3>1. live'.profile = live.profile /\ disk'.profile = live.profile + 1
      BY <2>1, <2>4
    <3> QED
      BY <1>t, <2>2, <3>1 DEF MemoryIsOnDisk
  <2> QED
    BY <2>1, <2>3, <2>4
<1>2. CASE Idles
  BY <1>2 DEF Idles, StaysUp, MemoryIsOnDisk
<1>3. CASE Removes
  <2>1. todo[1] = Tell("remove") /\ 1 \in DOMAIN todo
    BY <1>3 DEF Removes, TypeOK
  <2>2. ended
    BY <2>1 DEF RemovedAtTheEnd, Tell, Do
  <2> QED
    BY <1>3, <2>2 DEF Removes, MemoryIsOnDisk
<1>4. CASE Stops
  BY <1>4 DEF Stops, MemoryIsOnDisk
<1>5. CASE Starts
  BY <1>t, <1>5 DEF Starts, MemoryIsOnDisk, Load, Snapshot
<1> QED
  BY <1>1, <1>2, <1>3, <1>4, <1>5, StoreStep

\* When the list of steps goes on, its first step was taken.
LEMMA Underway ==
  ASSUME TypeOK, DownIsIdle, [Next]_vars, todo # <<>>, todo' # <<>>
  PROVE  \/ UNCHANGED <<live, work, todo, disk, vault, consent, torn>>
         \/ /\ GoOn
            /\ \/ BindMemory \/ Identify \/ InvalidatePending \/ RemoveDirectory
               \/ \E p \in Profiles : Perform(p)
<1>1. CASE UNCHANGED vars
  BY <1>1 DEF vars, runtimeVars, replyVars, durableVars, historyVars
<1>2. CASE Expire
  BY <1>2 DEF Expire, runtimeVars, replyVars, durableVars, historyVars
<1>3. ~Idle
  BY DEF Idle
<1>4. ~Hear /\ ~Recognize /\ ~ExpireProfiles /\ ~BeginReply /\ ~EndReply /\ ~End
  BY <1>3 DEF Hear, Recognize, ExpireProfiles, BeginReply, EndReply, End
<1>5. \A p \in Profiles : ~Enroll(p) /\ ~Revoke(p) /\ ~Delete(p) /\ ~Amend(p)
  BY <1>3 DEF Enroll, Revoke, Delete, Amend
<1>6. ~Stop /\ ~Start
  BY DEF Stop, Start, DownIsIdle
<1>7. CASE \/ BindMemory \/ Identify \/ InvalidatePending \/ RemoveDirectory
           \/ \E p \in Profiles : Perform(p)
  <2>1. GoOn \/ todo' = <<>>
    <3>1. ASSUME NEW new, Publish(new)
          PROVE  GoOn \/ todo' = <<>>
      BY <3>1, Published
    <3> QED
      BY <1>7, <3>1 DEF BindMemory, Identify, InvalidatePending, RemoveDirectory, Fail, Perform,
         WriteTemplate, EraseTemplate, Withdraw, MarkUnreadable, PublishEnrolment,
         PublishAmendment, Transition
  <2> QED
    BY <1>7, <2>1
<1> QED
  BY <1>1, <1>2, <1>4, <1>5, <1>6, <1>7 DEF Next

\* When a list of steps begins, nothing has been written.
LEMMA Begun ==
  ASSUME TypeOK, DownIsIdle, [Next]_vars, todo = <<>>, todo' # <<>>
  PROVE  Opens
BY TodoStep

\* The enrolments of a list that begins, and its withdrawals.
LEMMA OpenedEnrolment ==
  ASSUME Opens, NEW i \in DOMAIN todo'
  PROVE  /\ todo'[i].do \in {"template", "enrolled"} =>
              \E p \in Profiles : todo' = Sealing(p) /\ consent'[p] = "given"
         /\ todo'[i].do = "withdrawn" =>
              /\ todo'[i].profile \in Profiles
              /\ \E j \in 1..i - 1 : todo'[j] = Do("erase", todo'[i].profile)
              /\ \E j \in 1..i - 1 : todo'[j] = Tell("invalidate")
<1> DEFINE Acknowledges ==
             todo'[i].do = "withdrawn" =>
               /\ todo'[i].profile \in Profiles
               /\ \E j \in 1..i - 1 : todo'[j] = Do("erase", todo'[i].profile)
               /\ \E j \in 1..i - 1 : todo'[j] = Tell("invalidate")
<1>1. ASSUME NEW p \in Profiles, todo' = Sealing(p)
      PROVE  todo'[i].do # "withdrawn"
  BY <1>1 DEF Sealing, Do, Tell
<1>2. ASSUME NEW p \in Profiles, NEW what \in {"revoked", "deleted"},
             todo' = <<Do(what, p), Do("erase", p), Tell("bind"), Tell("invalidate"),
                       Do("withdrawn", p)>>
      PROVE  todo'[i].do \notin {"template", "enrolled"} /\ Acknowledges
  <2>1. /\ DOMAIN todo' = 1..5 /\ todo'[1] = Do(what, p) /\ todo'[2] = Do("erase", p)
        /\ todo'[3] = Tell("bind") /\ todo'[4] = Tell("invalidate")
        /\ todo'[5] = Do("withdrawn", p)
    BY <1>2
  <2>2. CASE i = 5
    BY <2>1, <2>2 DEF Do
  <2>3. CASE i # 5
    <3>1. i \in {1, 2, 3, 4}
      BY <2>1, <2>3
    <3> QED
      BY <2>1, <3>1 DEF Do, Tell
  <2> QED
    BY <2>2, <2>3
<1>3. ASSUME NEW p \in Profiles, todo' = <<Do("amend", p), Tell("bind")>>
      PROVE  todo'[i].do \notin {"template", "enrolled", "withdrawn"}
  BY <1>3 DEF Do, Tell
<1>4. ASSUME todo' \in Seq(Ordinary \cup Marks(Known(live')))
      PROVE  todo'[i].do \notin {"template", "enrolled", "withdrawn"}
  <2>1. todo'[i] \in Ordinary \cup Marks(Known(live'))
    BY <1>4
  <2> QED
    BY <2>1 DEF Ordinary, Marks
<1>5. ASSUME todo' \in Seq(Ordinary \cup {Tell("remove")})
      PROVE  todo'[i].do \notin {"template", "enrolled", "withdrawn"}
  <2>1. todo'[i] \in Ordinary \cup {Tell("remove")}
    BY <1>5
  <2> QED
    BY <2>1 DEF Ordinary, Tell, Do
<1>6. ASSUME todo' \in Seq((Ordinary \cup Marks(Known(live'))) \cup {Tell("identify")})
      PROVE  todo'[i].do \notin {"template", "enrolled", "withdrawn"}
  <2>1. todo'[i] \in (Ordinary \cup Marks(Known(live'))) \cup {Tell("identify")}
    BY <1>6
  <2> QED
    BY <2>1 DEF Ordinary, Marks, Tell, Do
<1> QED
  BY <1>1, <1>2, <1>3, <1>4, <1>5, <1>6 DEF Opens, Withdrawing

\* Which step an action takes.
LEMMA FirstStep ==
  /\ BindMemory => Head(todo).do = "bind"
  /\ Identify => Head(todo).do = "identify"
  /\ InvalidatePending => Head(todo).do = "invalidate"
  /\ RemoveDirectory => Head(todo).do = "remove"
  /\ \A p \in Profiles :
       /\ WriteTemplate(p) => Head(todo).do = "template" /\ Head(todo).profile = p
       /\ PublishEnrolment(p) => Head(todo).do = "enrolled" /\ Head(todo).profile = p
       /\ EraseTemplate(p) => Head(todo).do = "erase" /\ Head(todo).profile = p
       /\ \A lifecycle \in {"revoked", "expired", "deleted"} :
            Transition(lifecycle, p) => Head(todo).do = lifecycle
       /\ PublishAmendment(p) => Head(todo).do = "amend"
       /\ MarkUnreadable(p) => Head(todo).do = "mark"
       /\ Withdraw(p) => Head(todo).do = "withdrawn" /\ Head(todo).profile = p
<1>1. \A what, q : Do(what, q).do = what /\ Do(what, q).profile = q
  BY DEF Do
<1>2. \A what : Tell(what).do = what
  BY DEF Tell, Do
<1>3. \A what, q : Doing(what, q) => Head(todo).do = what /\ Head(todo).profile = q
  BY <1>1 DEF Doing
<1>4. BindMemory => Head(todo) = Tell("bind")
  BY DEF BindMemory
<1>i. Identify => Head(todo) = Tell("identify")
  BY DEF Identify
<1>5. InvalidatePending => Head(todo) = Tell("invalidate")
  BY DEF InvalidatePending
<1>6. RemoveDirectory => Head(todo) = Tell("remove")
  BY DEF RemoveDirectory
<1>7. ASSUME NEW p \in Profiles
      PROVE  /\ WriteTemplate(p) => Doing("template", p)
             /\ PublishEnrolment(p) => Doing("enrolled", p)
             /\ EraseTemplate(p) => Doing("erase", p)
             /\ \A lifecycle : Transition(lifecycle, p) => Doing(lifecycle, p)
             /\ PublishAmendment(p) => Doing("amend", p)
             /\ MarkUnreadable(p) => Doing("mark", p)
             /\ Withdraw(p) => Doing("withdrawn", p)
  BY DEF WriteTemplate, PublishEnrolment, EraseTemplate, Transition, PublishAmendment,
     MarkUnreadable, Withdraw
<1> QED
  BY <1>2, <1>3, <1>4, <1>i, <1>5, <1>6, <1>7

\* An enrolment stays whole, and its template is sealed in time.
LEMMA EnrolmentStaysWhole ==
  ASSUME TypeOK, DownIsIdle, EnrolmentIsWhole, [Next]_vars
  PROVE  EnrolmentIsWhole'
<1> SUFFICES ASSUME NEW i \in DOMAIN todo', todo'[i].do \in {"template", "enrolled"}
             PROVE  \E p \in Profiles :
                      \/ todo' = Sealing(p) /\ consent'[p] = "given"
                      \/ /\ todo' = Enrolling(p) /\ vault'[p].enrolled = live'.profile + 1
                         /\ consent'[p] = "given"
  BY DEF EnrolmentIsWhole, Sealing, Enrolling
<1>1. todo' # <<>>
  OBVIOUS
<1>2. CASE todo = <<>>
  BY <1>1, <1>2, Begun, OpenedEnrolment
<1>3. CASE todo # <<>> /\ UNCHANGED <<live, work, todo, disk, vault, consent, torn>>
  BY <1>3 DEF EnrolmentIsWhole
<1>4. CASE /\ todo # <<>> /\ GoOn
           /\ \/ BindMemory \/ Identify \/ InvalidatePending \/ RemoveDirectory
              \/ \E p \in Profiles : Perform(p)
  <2>1. i + 1 \in DOMAIN todo /\ todo[i + 1].do \in {"template", "enrolled"} /\ i \in Nat \ {0}
        /\ Len(todo') = Len(todo) - 1
    BY <1>4, TakenFirst DEF TypeOK
  <2>2. PICK p \in Profiles :
          \/ todo = Sealing(p) /\ consent[p] = "given"
          \/ todo = Enrolling(p) /\ consent[p] = "given"
    BY <2>1 DEF EnrolmentIsWhole
  <2>3. CASE todo = Enrolling(p)
    <3>1. i + 1 = 2 /\ todo[2] = Tell("bind")
      BY <2>1, <2>3 DEF Enrolling
    <3> QED
      BY <2>1, <3>1 DEF Tell, Do
  <2>4. CASE todo = Sealing(p)
    <3>1. todo' = Enrolling(p) /\ Head(todo) = Do("template", p)
      BY <1>4, <2>4 DEF GoOn, Sealing, Enrolling
    <3>2. WriteTemplate(p)
      <4>1. Head(todo).do = "template" /\ Head(todo).profile = p
        BY <3>1 DEF Do
      <4> QED
        BY <1>4, <4>1, FirstStep DEF Perform
    <3>3. vault'[p].enrolled = live'.profile + 1
      <4>1. vault' = [vault EXCEPT ![p] = Sealed] /\ live' = live
        BY <1>1, <3>2 DEF WriteTemplate, Fail
      <4> QED
        BY <4>1 DEF Sealed, TypeOK
    <3> QED
      BY <2>2, <2>4, <3>1, <3>2, <3>3 DEF WriteTemplate, historyVars, Sealing, Enrolling
  <2> QED
    BY <2>2, <2>3, <2>4
<1> QED
  BY <1>1, <1>2, <1>3, <1>4, Underway

\* What is at the head of a list with a withdrawal, and what it does.
LEMMA TemplateIsAlone ==
  ASSUME EnrolmentIsWhole, NEW i \in DOMAIN todo, todo[i].do = "withdrawn",
         NEW j \in DOMAIN todo
  PROVE  todo[j].do \notin {"template", "enrolled"}
<1> SUFFICES ASSUME todo[j].do \in {"template", "enrolled"}
             PROVE  FALSE
  OBVIOUS
<1>1. PICK p \in Profiles : todo = Sealing(p) \/ todo = Enrolling(p)
  BY DEF EnrolmentIsWhole
<1> QED
  BY <1>1 DEF Sealing, Enrolling, Do, Tell

\* A step that is taken from before an acknowledgement has done its work.
LEMMA WithdrawalStaysLast ==
  ASSUME TypeOK, DownIsIdle, EnrolmentIsWhole, WithdrawalIsLast, [Next]_vars
  PROVE  WithdrawalIsLast'
<1> SUFFICES ASSUME NEW i \in DOMAIN todo', todo'[i].do = "withdrawn"
             PROVE  /\ todo'[i].profile \in Profiles
                    /\ \/ vault'[todo'[i].profile] = NoTemplate
                       \/ \E j \in 1..i - 1 : todo'[j] = Do("erase", todo'[i].profile)
                    /\ \/ work' = NoWork
                       \/ \E j \in 1..i - 1 : todo'[j] = Tell("invalidate")
  BY DEF WithdrawalIsLast, Do, Tell
<1>1. todo' # <<>>
  OBVIOUS
<1>2. CASE todo = <<>>
  BY <1>1, <1>2, Begun, OpenedEnrolment
<1>3. CASE todo # <<>> /\ UNCHANGED <<live, work, todo, disk, vault, consent, torn>>
  BY <1>3 DEF WithdrawalIsLast
<1>4. CASE /\ todo # <<>> /\ GoOn
           /\ \/ BindMemory \/ Identify \/ InvalidatePending \/ RemoveDirectory
              \/ \E p \in Profiles : Perform(p)
  <2> DEFINE q == todo[i + 1].profile
  <2>1. /\ i + 1 \in DOMAIN todo /\ todo'[i] = todo[i + 1] /\ i \in Nat \ {0}
        /\ Head(todo) = todo[1] /\ 1 \in DOMAIN todo /\ DOMAIN todo = 1..Len(todo)
        /\ \A j \in DOMAIN todo' : todo'[j] = todo[j + 1]
        /\ DOMAIN todo' = 1..Len(todo) - 1 /\ Len(todo) \in Nat
    BY <1>4, TakenFirst DEF TypeOK
  <2>2. /\ q \in Profiles
        /\ \/ vault[q] = NoTemplate
           \/ \E j \in 1..i : todo[j] = Do("erase", q)
        /\ \/ work = NoWork
           \/ \E j \in 1..i : todo[j] = Tell("invalidate")
    BY <2>1 DEF WithdrawalIsLast
  <2>3. todo[1].do \notin {"template", "enrolled"}
    BY <2>1, TemplateIsAlone
  <2> HIDE DEF q
  <2>4. ASSUME NEW x, NEW j \in 1..i, todo[j] = x, x # todo[1]
        PROVE  \E k \in 1..i - 1 : todo'[k] = x
    <3>1. j - 1 \in 1..i - 1 /\ j - 1 \in DOMAIN todo' /\ (j - 1) + 1 = j
      BY <2>1, <2>4
    <3>2. todo'[j - 1] = todo[j]
      BY <2>1, <3>1
    <3> QED
      BY <2>4, <3>1, <3>2
  <2>5. \A p \in Profiles : ~WriteTemplate(p) /\ ~PublishEnrolment(p)
    BY <2>1, <2>3, FirstStep
  <2>6. vault[q] = NoTemplate => vault'[q] = NoTemplate
    BY <1>4, <2>2, <2>5 DEF BindMemory, Identify, InvalidatePending, RemoveDirectory, Perform,
       EraseTemplate, Transition, PublishAmendment, MarkUnreadable, Withdraw, durableVars, TypeOK
  <2>7. todo[1] = Do("erase", q) => vault'[q] = NoTemplate
    <3> SUFFICES ASSUME todo[1] = Do("erase", q)
                 PROVE  vault'[q] = NoTemplate
      OBVIOUS
    <3>1. Head(todo).do = "erase" /\ Head(todo).profile = q
      BY <2>1 DEF Do
    <3>2. EraseTemplate(q)
      BY <1>4, <3>1, FirstStep DEF Perform
    <3> QED
      BY <1>1, <2>2, <3>2 DEF EraseTemplate, Fail, TypeOK
  <2>8. work = NoWork => work' = NoWork
    BY <1>4, <2>5 DEF BindMemory, Identify, InvalidatePending, RemoveDirectory, Perform,
       EraseTemplate, Transition, PublishAmendment, MarkUnreadable, Withdraw, replyVars
  <2>9. todo[1] = Tell("invalidate") => work' = NoWork
    <3> SUFFICES ASSUME todo[1] = Tell("invalidate")
                 PROVE  work' = NoWork
      OBVIOUS
    <3>1. Head(todo).do = "invalidate"
      BY <2>1 DEF Do, Tell
    <3>2. InvalidatePending
      BY <1>4, <3>1, FirstStep DEF Perform
    <3> QED
      BY <3>2 DEF InvalidatePending
  <2>10. vault'[q] = NoTemplate \/ \E j \in 1..i - 1 : todo'[j] = Do("erase", q)
    BY <2>2, <2>4, <2>6, <2>7
  <2>11. work' = NoWork \/ \E j \in 1..i - 1 : todo'[j] = Tell("invalidate")
    BY <2>2, <2>4, <2>8, <2>9
  <2>12. todo'[i].profile = q
    BY <2>1 DEF q
  <2> QED
    BY <2>2, <2>10, <2>11, <2>12
<1> QED
  BY <1>1, <1>2, <1>3, <1>4, Underway

\* No template comes back without a new consent.
LEMMA WithdrawnStaysErased ==
  ASSUME TypeOK, DownIsIdle, EnrolmentIsWhole, WithdrawalIsLast, WithdrawnIsErased, [Next]_vars
  PROVE  WithdrawnIsErased'
<1> SUFFICES ASSUME NEW p \in Profiles, consent'[p] = "withdrawn"
             PROVE  vault'[p] = NoTemplate
  BY DEF WithdrawnIsErased
<1>t. /\ consent \in [Profiles -> {"none", "given", "withdrawn"}]
      /\ DOMAIN vault = Profiles
  BY DEF TypeOK
<1>1. CASE UNCHANGED <<vault, consent>>
  BY <1>1 DEF WithdrawnIsErased
<1>2. ASSUME NEW q \in Profiles, WriteTemplate(q)
      PROVE  vault'[p] = NoTemplate
  <2>1. 1 \in DOMAIN todo /\ todo[1] = Head(todo)
    BY <1>2 DEF WriteTemplate, Doing, TypeOK
  <2>2. todo[1].do = "template" /\ todo[1].profile = q
    BY <1>2, <2>1, FirstStep
  <2>3. PICK r \in Profiles : (todo = Sealing(r) \/ todo = Enrolling(r)) /\ consent[r] = "given"
    BY <2>1, <2>2 DEF EnrolmentIsWhole
  <2>4. r = q
    BY <2>2, <2>3 DEF Sealing, Enrolling, Do
  <2> QED
    BY <1>2, <1>t, <2>3, <2>4 DEF WriteTemplate, WithdrawnIsErased, historyVars
<1>3. ASSUME NEW q \in Profiles, Withdraw(q)
      PROVE  vault'[p] = NoTemplate
  <2>1. 1 \in DOMAIN todo /\ todo[1] = Head(todo)
    BY <1>3 DEF Withdraw, Doing, TypeOK
  <2>2. todo[1].do = "withdrawn" /\ todo[1].profile = q
    BY <1>3, <2>1, FirstStep
  <2>3. vault[q] = NoTemplate
    BY <2>1, <2>2 DEF WithdrawalIsLast
  <2> QED
    BY <1>3, <1>t, <2>3 DEF Withdraw, WithdrawnIsErased, durableVars
<1>4. ASSUME NEW q \in Profiles, Enroll(q)
      PROVE  vault'[p] = NoTemplate
  BY <1>4, <1>t DEF Enroll, WithdrawnIsErased, durableVars
<1>5. ASSUME NEW q \in Profiles, EraseTemplate(q) \/ PublishEnrolment(q)
      PROVE  vault'[p] = NoTemplate
  BY <1>5, <1>t DEF EraseTemplate, PublishEnrolment, TakeBack, WithdrawnIsErased
<1>6. CASE RemoveDirectory
  BY <1>6, <1>t DEF RemoveDirectory, WithdrawnIsErased
<1>7. CASE \/ Hear \/ BeginReply \/ EndReply \/ Expire \/ BindMemory \/ Identify
           \/ InvalidatePending \/ End \/ Stop \/ Start
  BY <1>1, <1>7 DEF Hear, BeginReply, EndReply, Expire, BindMemory, Identify,
     InvalidatePending, End, Stop, Start, durableVars, historyVars
<1>8. ASSUME NEW steps, Begin(steps)
      PROVE  UNCHANGED <<vault, consent>>
  BY <1>8 DEF Begin, durableVars, historyVars
<1>9. CASE \/ Recognize \/ ExpireProfiles
           \/ \E q \in Profiles : Revoke(q) \/ Delete(q) \/ Amend(q)
  BY <1>1, <1>8, <1>9 DEF Recognize, ExpireProfiles, Revoke, Delete, Amend
<1>10. ASSUME NEW q \in Profiles,
              \/ PublishAmendment(q) \/ MarkUnreadable(q)
              \/ \E lifecycle \in {"revoked", "expired", "deleted"} : Transition(lifecycle, q)
       PROVE  UNCHANGED <<vault, consent>>
  BY <1>10 DEF PublishAmendment, MarkUnreadable, Transition, historyVars
<1>11. CASE UNCHANGED vars
  BY <1>1, <1>11 DEF vars, durableVars, historyVars
<1> QED
  BY <1>1, <1>2, <1>3, <1>4, <1>5, <1>6, <1>7, <1>9, <1>10, <1>11 DEF Next, Perform

\* What becomes of a reply: it is left as it is, begins, ends, is cancelled, or
\* is created by an identification.
LEMMA ReplyStep ==
  ASSUME [Next]_vars
  PROVE  \/ UNCHANGED replyVars
         \/ /\ UNCHANGED <<speaker, ended, consent, overtaken>>
            /\ \/ asked /\ ~asked'
               \/ asked' = asked /\ work' = NoWork
         \/ Identify
         \/ ~asked' /\ work' = NoWork
<1> USE DEF historyVars
<1>1. CASE UNCHANGED vars
  BY <1>1 DEF vars, runtimeVars
<1>2. CASE BeginReply
  BY <1>2 DEF BeginReply
<1>3. CASE EndReply \/ InvalidatePending
  BY <1>3 DEF EndReply, InvalidatePending
<1>4. CASE Identify \/ End \/ Stop
  BY <1>4 DEF End, Stop
<1>5. CASE \/ Hear \/ Recognize \/ ExpireProfiles \/ BindMemory \/ RemoveDirectory \/ Start
           \/ Expire
  BY <1>5 DEF Hear, Recognize, ExpireProfiles, Begin, BindMemory, RemoveDirectory, Start, Expire,
     runtimeVars
<1>6. CASE \E p \in Profiles : Enroll(p) \/ Revoke(p) \/ Delete(p) \/ Amend(p)
  BY <1>6 DEF Enroll, Revoke, Delete, Amend, Begin
<1>7. CASE \E p \in Profiles : Perform(p)
  BY <1>7 DEF Perform, WriteTemplate, PublishEnrolment, EraseTemplate, Transition,
     PublishAmendment, MarkUnreadable, Withdraw
<1> QED
  BY <1>1, <1>2, <1>3, <1>4, <1>5, <1>6, <1>7 DEF Next

\* While no reply is touched, the session does not end, nothing is forgotten
\* and no speaker withdraws unnoticed; or there is no reply.
LEMMA ConsentStep ==
  ASSUME TypeOK, WithdrawalIsLast, RemovedAtTheEnd, EndedIsSilent, [Next]_vars,
         UNCHANGED replyVars, ~Identify
  PROVE  \/ ~asked /\ work = NoWork
         \/ /\ ended' => ended
            /\ overtaken => overtaken'
            /\ \A p \in Profiles :
                 consent'[p] = "withdrawn" /\ speaker = p =>
                   consent[p] = "withdrawn" \/ overtaken'
<1> USE DEF historyVars
<1>t. consent \in [Profiles -> {"none", "given", "withdrawn"}]
  BY DEF TypeOK
<1>1. CASE UNCHANGED <<ended, consent, overtaken>>
  BY <1>1
<1>2. CASE End \/ Stop
  BY <1>2 DEF End, Stop, replyVars
<1>3. CASE RemoveDirectory
  <2>1. 1 \in DOMAIN todo /\ todo[1] = Tell("remove")
    BY <1>3 DEF RemoveDirectory, TypeOK
  <2>2. todo[1].do = "remove"
    BY <2>1 DEF Tell, Do
  <2> QED
    BY <2>1, <2>2 DEF RemovedAtTheEnd, EndedIsSilent
<1>4. ASSUME NEW q \in Profiles, Enroll(q)
      PROVE  /\ UNCHANGED <<ended, overtaken>>
             /\ \A p \in Profiles : consent'[p] = "withdrawn" => consent[p] = "withdrawn"
  BY <1>4, <1>t DEF Enroll
<1>5. ASSUME NEW q \in Profiles, Withdraw(q), asked
      PROVE  /\ UNCHANGED ended
             /\ overtaken => overtaken'
             /\ \A p \in Profiles :
                  consent'[p] = "withdrawn" /\ speaker = p =>
                    consent[p] = "withdrawn" \/ overtaken'
  <2>1. /\ UNCHANGED ended
        /\ overtaken' = (overtaken \/ (asked /\ speaker = q))
    BY <1>5 DEF Withdraw
  <2>2. (overtaken => overtaken') /\ (speaker = q => overtaken')
    BY <1>5, <2>1, Zenon
  <2>3. \A p \in Profiles : q # p => consent'[p] = consent[p]
    BY <1>5, <1>t DEF Withdraw
  <2> QED
    BY <2>1, <2>2, <2>3
<1>6. ASSUME NEW q \in Profiles, Withdraw(q)
      PROVE  work = NoWork
  <2>1. 1 \in DOMAIN todo /\ todo[1] = Head(todo)
    BY <1>6 DEF Withdraw, Doing, TypeOK
  <2>2. todo[1].do = "withdrawn" /\ todo[1].profile = q
    BY <1>6, <2>1, FirstStep
  <2> QED
    BY <2>1, <2>2 DEF WithdrawalIsLast
<1>7. CASE UNCHANGED vars
  BY <1>1, <1>7 DEF vars, runtimeVars
<1>8. CASE BeginReply \/ EndReply \/ InvalidatePending \/ BindMemory \/ Hear \/ Recognize
           \/ ExpireProfiles \/ Start \/ Expire
  BY <1>1, <1>8 DEF BeginReply, EndReply, InvalidatePending, BindMemory, Hear, Recognize,
     ExpireProfiles, Begin, Start, Expire, runtimeVars
<1>9. ASSUME NEW q \in Profiles,
             \/ Revoke(q) \/ Delete(q) \/ Amend(q)
             \/ WriteTemplate(q) \/ PublishEnrolment(q) \/ EraseTemplate(q)
             \/ \E lifecycle \in {"revoked", "expired", "deleted"} : Transition(lifecycle, q)
             \/ PublishAmendment(q) \/ MarkUnreadable(q)
      PROVE  UNCHANGED <<ended, consent, overtaken>>
  BY <1>9 DEF Revoke, Delete, Amend, Begin, WriteTemplate, PublishEnrolment, EraseTemplate,
     Transition, PublishAmendment, MarkUnreadable
<1> QED
  BY <1>1, <1>2, <1>3, <1>4, <1>5, <1>6, <1>7, <1>8, <1>9 DEF Next, Perform

\* Nothing is left of a reply behind the end, and a withdrawn speaker's was
\* overtaken.
LEMMA RepliesStayTrue ==
  ASSUME TypeOK, EnrolmentIsWhole, WithdrawalIsLast, WithdrawnIsErased, RemovedAtTheEnd,
         IdentifiedBeforeTheEnd, EndedIsSilent, WithdrawnIsNotTold, [Next]_vars
  PROVE  EndedIsSilent' /\ WithdrawnIsNotTold'
<1>1. CASE UNCHANGED replyVars /\ ~Identify
  <2>1. speaker' = speaker /\ asked' = asked /\ work' = work
    BY <1>1 DEF replyVars
  <2>2. CASE ~asked /\ work = NoWork
    BY <2>1, <2>2 DEF EndedIsSilent, WithdrawnIsNotTold
  <2>3. CASE ~(~asked /\ work = NoWork)
    BY <1>1, <2>1, <2>3, ConsentStep DEF EndedIsSilent, WithdrawnIsNotTold
  <2> QED
    BY <2>2, <2>3
<1>2. CASE UNCHANGED <<speaker, ended, consent, overtaken>> /\ asked /\ ~asked'
  BY <1>2 DEF EndedIsSilent, WithdrawnIsNotTold
<1>3. CASE UNCHANGED <<speaker, ended, consent, overtaken>> /\ asked' = asked /\ work' = NoWork
  BY <1>3 DEF EndedIsSilent, WithdrawnIsNotTold
<1>4. CASE Identify
  <2>1. 1 \in DOMAIN todo /\ todo[1] = Tell("identify")
    BY <1>4 DEF Identify, TypeOK
  <2>2. ~ended
    BY <2>1 DEF IdentifiedBeforeTheEnd, Tell, Do
  <2>3. UNCHANGED <<ended, consent>>
    BY <1>4 DEF Identify
  <2>4. ASSUME NEW p \in Profiles, consent'[p] = "withdrawn"
        PROVE  speaker' # p
    <3>1. vault[p] = NoTemplate
      BY <2>3, <2>4 DEF WithdrawnIsErased
    <3> QED
      BY <1>4, <3>1, NothingAssumption DEF Identify, Readable
  <2> QED
    BY <2>2, <2>3, <2>4 DEF EndedIsSilent, WithdrawnIsNotTold
<1>5. CASE ~asked' /\ work' = NoWork
  BY <1>5 DEF EndedIsSilent, WithdrawnIsNotTold
<1> QED
  BY <1>1, <1>2, <1>3, <1>4, <1>5, ReplyStep

\* A template that is not touched stays that of its record, in memory and in
\* the file: a write makes of the file no more than what memory was.
LEMMA RecordsKeep ==
  ASSUME TypeOK, RevisionsAgree, DownIsIdle, MarksAreKnown, LiveMatches, DiskMatches,
         [Next]_vars, NEW p \in Profiles \ torn, vault[p] # NoTemplate, ~Doing("enrolled", p)
  PROVE  /\ live'.records[p] # NoRecord => vault[p].enrolled = live'.records[p].enrolled
         /\ disk' # NoFile /\ disk'.records[p] # NoRecord =>
              vault[p].enrolled = disk'.records[p].enrolled
<1>1. /\ live.records[p] # NoRecord => vault[p].enrolled = live.records[p].enrolled
      /\ disk # NoFile /\ disk.records[p] # NoRecord =>
           vault[p].enrolled = disk.records[p].enrolled
  BY DEF LiveMatches, DiskMatches
<1>2. CASE Writes
  <2>1. PICK new \in Snapshot : /\ Successor(new) /\ disk' = new
                                /\ live' = new \/ live' = live
    BY <1>2 DEF Writes
  <2>2. new.records[p] # NoRecord => vault[p].enrolled = new.records[p].enrolled
    BY <1>1, <2>1 DEF Successor
  <2> QED
    BY <1>1, <2>1, <2>2
<1>3. CASE Idles \/ Removes
  BY <1>1, <1>3 DEF Idles, Removes
<1>4. Fresh.records[p] = NoRecord
  BY DEF Fresh
<1>5. CASE Stops
  BY <1>1, <1>4, <1>5 DEF Stops
<1>6. CASE Starts
  BY <1>1, <1>4, <1>6 DEF Starts, Load
<1> QED
  BY <1>2, <1>3, <1>5, <1>6, StoreStep

\* Unless its enrolment is published, the template of a profile is either left
\* alone, or gone, or torn from its record, or just written.
LEMMA TemplateStep ==
  ASSUME TypeOK, DownIsIdle, EnrolmentIsWhole, [Next]_vars, NEW p \in Profiles,
         ~PublishEnrolment(p)
  PROVE  \/ p \in torn' \/ vault'[p] = NoTemplate \/ Doing("enrolled", p)'
         \/ p \notin torn /\ vault'[p] = vault[p] /\ ~Doing("enrolled", p)
<1> DEFINE Left == p \notin torn /\ vault'[p] = vault[p] /\ ~Doing("enrolled", p)
           Goal == p \in torn' \/ vault'[p] = NoTemplate \/ Doing("enrolled", p)' \/ Left
<1>t. DOMAIN vault = Profiles /\ torn \subseteq Profiles
  BY DEF TypeOK
<1>1. CASE UNCHANGED <<todo, vault, torn>>
  BY <1>1 DEF Doing
<1>2. CASE todo = <<>> /\ UNCHANGED <<vault, torn>>
  BY <1>2 DEF Doing
<1>3. ASSUME Head(todo).do # "enrolled", UNCHANGED <<vault, torn>>
      PROVE  Goal
  BY <1>3 DEF Doing, Do
<1>4. CASE UNCHANGED vars \/ Expire
  BY <1>1, <1>4 DEF vars, Expire, runtimeVars, durableVars, historyVars
<1>5. CASE Hear \/ BeginReply \/ EndReply \/ End
  BY <1>2, <1>5 DEF Hear, BeginReply, EndReply, End, Idle, durableVars, historyVars
<1>6. ASSUME NEW steps, Begin(steps), Idle
      PROVE  Goal
  BY <1>2, <1>6 DEF Begin, Idle, durableVars, historyVars
<1>7. CASE \/ Recognize \/ ExpireProfiles
           \/ \E q \in Profiles : Revoke(q) \/ Delete(q) \/ Amend(q)
  BY <1>6, <1>7 DEF Recognize, ExpireProfiles, Revoke, Delete, Amend
<1>8. ASSUME NEW q \in Profiles, Enroll(q)
      PROVE  Goal
  BY <1>2, <1>8 DEF Enroll, Idle, durableVars
<1>9. CASE BindMemory \/ Identify \/ InvalidatePending
  <2>1. UNCHANGED <<vault, torn>>
    BY <1>9 DEF BindMemory, Identify, InvalidatePending, durableVars, historyVars
  <2>2. Head(todo).do # "enrolled"
    BY <1>9, FirstStep
  <2> QED
    BY <1>3, <2>1, <2>2
<1>10. CASE RemoveDirectory
  <2>1. vault' = [q \in Profiles |-> NoTemplate] \/ UNCHANGED <<vault, torn>>
    BY <1>10 DEF RemoveDirectory
  <2>2. Head(todo).do # "enrolled"
    BY <1>10, FirstStep
  <2> QED
    BY <1>3, <2>1, <2>2
<1>11. CASE Stop
  BY <1>11, <1>t DEF Stop, durableVars
<1>12. CASE Start
  BY <1>2, <1>12 DEF Start, DownIsIdle, durableVars, historyVars
<1>13. ASSUME NEW q \in Profiles, WriteTemplate(q)
       PROVE  Goal
  <2>1. Head(todo).do = "template" /\ Head(todo).profile = q
    BY <1>13, FirstStep
  <2>2. CASE UNCHANGED <<vault, torn>>
    BY <1>3, <2>1, <2>2
  <2>3. CASE vault' = [vault EXCEPT ![q] = Sealed] /\ GoOn /\ p = q
    <3>1. 1 \in DOMAIN todo /\ todo[1] = Head(todo)
      BY <1>13 DEF WriteTemplate, Doing, TypeOK
    <3>2. PICK r \in Profiles : todo = Sealing(r) \/ todo = Enrolling(r)
      BY <2>1, <3>1 DEF EnrolmentIsWhole
    <3>3. todo = Sealing(p)
      BY <2>1, <2>3, <3>1, <3>2 DEF Sealing, Enrolling, Do
    <3>4. todo' = Enrolling(p)
      BY <2>3, <3>3 DEF GoOn, Sealing, Enrolling
    <3> QED
      BY <3>4 DEF Enrolling, Doing
  <2>4. CASE vault' = [vault EXCEPT ![q] = Sealed] /\ torn' = torn /\ p # q
    BY <1>t, <2>1, <2>4 DEF Doing, Do
  <2>5. CASE vault' = [vault EXCEPT ![q] = Sealed] /\ torn' = torn \cup {q}
    BY <1>t, <2>1, <2>5 DEF Doing, Do
  <2> QED
    BY <1>13, <2>2, <2>3, <2>4, <2>5 DEF WriteTemplate
<1>14. ASSUME NEW q \in Profiles, EraseTemplate(q)
       PROVE  Goal
  <2>1. Head(todo).do = "erase"
    BY <1>14, FirstStep
  <2>2. CASE UNCHANGED <<vault, torn>>
    BY <1>3, <2>1, <2>2
  <2>3. CASE vault' = [vault EXCEPT ![q] = NoTemplate] /\ torn' = torn \ {q}
    BY <1>t, <2>1, <2>3 DEF Doing, Do
  <2> QED
    BY <1>14, <2>2, <2>3 DEF EraseTemplate
<1>15. ASSUME NEW q \in Profiles, PublishEnrolment(q)
       PROVE  Goal
  <2>1. p # q /\ Head(todo).profile = q
    BY <1>15, FirstStep
  <2>2. ~Doing("enrolled", p)
    BY <2>1 DEF Doing, Do
  <2>3. /\ vault' = vault \/ vault' = [vault EXCEPT ![q] = NoTemplate]
        /\ torn' = torn \/ torn' = torn \ {q} \/ torn' = torn \cup {q}
    BY <1>15 DEF PublishEnrolment, TakeBack
  <2> QED
    BY <1>t, <2>1, <2>2, <2>3
<1>16. ASSUME NEW q \in Profiles,
              \/ PublishAmendment(q) \/ MarkUnreadable(q) \/ Withdraw(q)
              \/ \E lifecycle \in {"revoked", "expired", "deleted"} : Transition(lifecycle, q)
       PROVE  Goal
  <2>1. UNCHANGED <<vault, torn>>
    BY <1>16 DEF PublishAmendment, MarkUnreadable, Withdraw, Transition, historyVars, durableVars
  <2>2. Head(todo).do # "enrolled"
    BY <1>16, FirstStep
  <2> QED
    BY <1>3, <2>1, <2>2
<1> QED
  BY <1>4, <1>5, <1>7, <1>8, <1>9, <1>10, <1>11, <1>12, <1>13, <1>14, <1>15, <1>16
     DEF Next, Perform

\* The record an enrolment publishes is the one its template was sealed for.
LEMMA PublishedMatches ==
  ASSUME TypeOK, EnrolmentIsWhole, NEW p \in Profiles, PublishEnrolment(p)
  PROVE  \/ p \in torn' \/ vault'[p] = NoTemplate
         \/ /\ vault'[p].enrolled = live'.records[p].enrolled
            /\ disk' = live'
<1>t. DOMAIN vault = Profiles /\ live.records \in [Profiles -> Record \cup {NoRecord}]
  BY DEF TypeOK, Snapshot
<1>1. CASE todo' = <<>>
  BY <1>1, <1>t DEF PublishEnrolment, TakeBack
<1>2. CASE todo' # <<>>
  <2>1. Head(todo).do = "enrolled" /\ Head(todo).profile = p /\ vault' = vault
    BY <1>2, FirstStep DEF PublishEnrolment
  <2>2. 1 \in DOMAIN todo /\ todo[1] = Head(todo)
    BY DEF PublishEnrolment, Doing, TypeOK
  <2>3. PICK r \in Profiles :
          \/ todo = Sealing(r)
          \/ todo = Enrolling(r) /\ vault[r].enrolled = live.profile + 1
    BY <2>1, <2>2 DEF EnrolmentIsWhole
  <2>4. r = p /\ vault[p].enrolled = live.profile + 1
    BY <2>1, <2>2, <2>3 DEF Sealing, Enrolling, Do
  <2>5. PICK lasting \in BOOLEAN :
          Publish(Snap([live.records EXCEPT ![p] =
                          [lifecycle |-> "active", enrolled |-> live.profile + 1,
                           expires |-> ~lasting, flagged |-> FALSE]], TRUE))
    BY DEF PublishEnrolment
  <2> DEFINE records == [live.records EXCEPT ![p] =
                           [lifecycle |-> "active", enrolled |-> live.profile + 1,
                            expires |-> ~lasting, flagged |-> FALSE]]
  <2>6. records[p].enrolled = live.profile + 1
    BY <1>t
  <2> HIDE DEF records
  <2>7. live' = Snap(records, TRUE) /\ disk' = live'
    BY <1>2, <2>5, Published DEF records
  <2>8. live'.records = records
    BY <2>7 DEF Snap
  <2> QED
    BY <2>1, <2>4, <2>6, <2>7, <2>8
<1> QED
  BY <1>1, <1>2

\* Every template stays that of its record.
LEMMA TemplatesStayMatched ==
  ASSUME TypeOK, RevisionsAgree, DownIsIdle, MarksAreKnown, EnrolmentIsWhole,
         LiveMatches, DiskMatches, [Next]_vars
  PROVE  LiveMatches' /\ DiskMatches'
<1> SUFFICES ASSUME NEW p \in Profiles, p \notin torn', vault'[p] # NoTemplate,
                    ~Doing("enrolled", p)'
             PROVE  /\ live'.records[p] # NoRecord =>
                         vault'[p].enrolled = live'.records[p].enrolled
                    /\ disk' # NoFile /\ disk'.records[p] # NoRecord =>
                         vault'[p].enrolled = disk'.records[p].enrolled
  BY DEF LiveMatches, DiskMatches
<1>1. CASE PublishEnrolment(p)
  BY <1>1, PublishedMatches
<1>2. CASE ~PublishEnrolment(p)
  <2>1. p \notin torn /\ vault'[p] = vault[p] /\ ~Doing("enrolled", p)
    BY <1>2, TemplateStep
  <2> QED
    BY <2>1, RecordsKeep
<1> QED
  BY <1>1, <1>2

-----------------------------------------------------------------------------
(* The theorems.                                                           *)

\* The parts hold together in every reachable state.
THEOREM Invariants == Spec => []Inv
<1>1. Init => Inv
  <2> SUFFICES ASSUME Init
               PROVE  Inv
    OBVIOUS
  <2>1. todo = <<>> /\ todo \in Seq(Step) /\ run = "down" /\ disk = NoFile
        /\ live = Fresh /\ bound = BoundTo(Fresh)
    BY DEF Init
  <2>2. TypeOK
    BY <2>1, FreshIsSnapshot, BoundIsRevisions DEF Init, TypeOK
  <2>3. RevisionsAgree /\ DownIsIdle /\ MemoryIsOnDisk
    BY <2>1, FreshIsSnapshot DEF RevisionsAgree, DownIsIdle, MemoryIsOnDisk
  <2>4. MarksAreKnown /\ RemovedAtTheEnd /\ EnrolmentIsWhole /\ WithdrawalIsLast
    <3>1. DOMAIN todo = {}
      BY <2>1
    <3> QED
      BY <3>1 DEF MarksAreKnown, RemovedAtTheEnd, EnrolmentIsWhole, WithdrawalIsLast
  <2>5. WithdrawnIsErased /\ LiveMatches /\ DiskMatches
    BY <2>1 DEF Init, WithdrawnIsErased, LiveMatches, DiskMatches
  <2>6. IdentifiedBeforeTheEnd /\ EndedIsSilent /\ WithdrawnIsNotTold
    BY <2>1 DEF Init, IdentifiedBeforeTheEnd, EndedIsSilent, WithdrawnIsNotTold
  <2> QED
    BY <2>2, <2>3, <2>4, <2>5, <2>6 DEF Inv
<1>2. Inv /\ [Next]_vars => Inv'
  <2> SUFFICES ASSUME Inv, [Next]_vars
               PROVE  Inv'
    OBVIOUS
  <2> USE DEF Inv
  <2>1. TypeOK' /\ RevisionsAgree'
    BY TodoTyped, StoreTyped, RestTyped DEF TypeOK, Shapes
  <2>2. /\ DownIsIdle' /\ MarksAreKnown' /\ RemovedAtTheEnd' /\ IdentifiedBeforeTheEnd'
        /\ MemoryIsOnDisk'
    BY DownStaysIdle, MarksStayKnown, MemoryStaysOnDisk
  <2>3. EnrolmentIsWhole' /\ WithdrawalIsLast' /\ WithdrawnIsErased'
    BY EnrolmentStaysWhole, WithdrawalStaysLast, WithdrawnStaysErased
  <2>4. LiveMatches' /\ DiskMatches'
    BY TemplatesStayMatched
  <2>5. EndedIsSilent' /\ WithdrawnIsNotTold'
    BY RepliesStayTrue
  <2> QED
    BY <2>1, <2>2, <2>3, <2>4, <2>5
<1> QED
  BY <1>1, <1>2, PTL DEF Spec

\* Every variable keeps to its shape, whatever fails (JsonVoiceProfileStore,
\* VoiceProfileService).
THEOREM TypeCorrect == Spec => []TypeOK
BY Invariants, PTL DEF Inv

\* Nobody is recognised whose withdrawal was acknowledged: their template was
\* removed first (revoke_profile_consent).
THEOREM WithdrawnAreForgotten == Spec => []WithdrawnIsNeverRecognized
<1>1. Inv => WithdrawnIsNeverRecognized
  BY DEF Inv, WithdrawnIsErased, WithdrawnIsNeverRecognized, Recognizable
<1> QED
  BY <1>1, Invariants, PTL

\* The file is never behind memory (_publish).
THEOREM MemoryIsWritten == Spec => []MemoryIsOnDisk
BY Invariants, PTL DEF Inv

\* A speaker is matched by the template of their own enrolment (enroll).
THEOREM TemplatesMatch == Spec => []TemplateIsOfItsRecord
<1>1. Inv => TemplateIsOfItsRecord
  <2> SUFFICES ASSUME Inv, Idle, NEW p \in Matchable(live) \ torn, vault[p] # NoTemplate
               PROVE  vault[p].enrolled = live.records[p].enrolled
    BY DEF TemplateIsOfItsRecord
  <2>1. p \in Profiles \ torn /\ live.records[p] # NoRecord
    BY DEF Matchable, IsActive, Known
  <2>2. ~Doing("enrolled", p)
    BY DEF Idle, Doing
  <2> QED
    BY <2>1, <2>2 DEF Inv, LiveMatches
<1> QED
  BY <1>1, Invariants, PTL

\* The Brain is told of a withdrawn speaker by no reply but one that had not
\* begun when its speaker withdrew: a withdrawal ends the operation that runs
\* before it is acknowledged, and nobody is identified as the withdrawn
\* (revoke_profile_consent, invalidate_pending).
THEOREM WithdrawnAreNotTold == Spec => []WithdrawnIsNotTold
BY Invariants, PTL DEF Inv
=============================================================================
