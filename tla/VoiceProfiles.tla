--------------------------- MODULE VoiceProfiles ---------------------------
(***************************************************************************)
(* The voice profiles of a session: the records and revisions in memory    *)
(* (voice_profile_service.py), the file they are kept in                   *)
(* (profile_store.py), the directory of encrypted templates                *)
(* (profile_vault.py), and the reply that may name the speaker a turn was  *)
(* recognised as (scheduler_runtime.py).                                   *)
(*                                                                         *)
(* An operation runs without an await, but it writes more than one file,   *)
(* and a write may fail and the process may stop between two of them.  So  *)
(* an operation is the list of the steps it has yet to take, todo, and a   *)
(* write that raises OSError drops the rest of the list.                   *)
(***************************************************************************)
EXTENDS Naturals, FiniteSets, SequencesExt

CONSTANTS
  Profiles,     \* the profile ids
  Keys,         \* the template keys a start may be configured with
  MaxRevision,  \* bound on the profile revision
  Faults,       \* what may go wrong
  NoRecord, NoTemplate, NoFile, NoWork

ASSUME VoiceProfilesAssumption ==
  /\ IsFiniteSet(Profiles)
  /\ MaxRevision \in Nat
  /\ Faults \subseteq
       {"refused",  \* a file is not written
        "unsure",   \* it is written or removed, and the call raises nevertheless
        "unlink",   \* a template cannot be removed
        "crash"}    \* the process stops between two writes

VARIABLES
  run,      \* is there a runtime for the session: "down", "starting", "up"
  live,     \* its records and its two revisions
  bound,    \* the revisions the session's memory carries
  key,      \* the template key it was configured with
  evidence, \* the one voice sample it remembers
  speaker,  \* the profile the latest turn was recognised as (_speaker_identities)
  asked,    \* that turn's reply to an operation is created and has not begun
  work,     \* the revisions its running operation was scheduled under
  todo,     \* the steps the present operation has yet to take
  ended,    \* the session was told to end
  erased,   \* its directory was removed under the runtime
  disk,     \* voice-profiles.json
  vault,    \* the template files
  late,     \* the deadline of the profiles that have one has passed
  consent,  \* what the speaker was last told of their consent
  torn,     \* the profiles of which half an enrolment was left behind
  overtaken \* the speaker's consent was withdrawn before their reply had begun

replyVars   == <<speaker, asked, work>>
runtimeVars == <<run, live, bound, key, evidence, replyVars, todo, ended, erased>>
durableVars == <<disk, vault>>
historyVars == <<consent, torn, overtaken>>
vars == <<runtimeVars, durableVars, late, historyVars>>

Record == [lifecycle : {"active", "revoked", "expired", "deleted"},
           enrolled  : 1..MaxRevision,  \* the revision of its enrolment
           expires   : BOOLEAN,
           flagged   : BOOLEAN]         \* re_enrollment_required
Template  == [enrolled : 1..MaxRevision, key : Keys]
Revisions == [profile : 0..MaxRevision, consent : 0..MaxRevision]
Snapshot  == [profile : 0..MaxRevision, consent : 0..MaxRevision,
              records : [Profiles -> Record \cup {NoRecord}]]
Fresh == [profile |-> 0, consent |-> 0, records |-> [p \in Profiles |-> NoRecord]]

ASSUME NothingAssumption ==
  NoFile \notin Snapshot /\ NoRecord \notin Record /\ NoRecord \notin Profiles

Step == [do : {"template", "enrolled", "revoked", "expired", "deleted", "erase",
               "amend", "mark", "bind", "identify", "invalidate", "withdrawn", "remove"},
         profile : Profiles \cup {NoRecord}]
Do(what, p) == [do |-> what, profile |-> p]
Tell(what)  == Do(what, NoRecord)

-----------------------------------------------------------------------------
\* Reading the records.

Known(s)     == {p \in Profiles : s.records[p] # NoRecord}
IsActive(s, p) == p \in Known(s) /\ s.records[p].lifecycle = "active"
Overdue(s, now) == {p \in Profiles : IsActive(s, p) /\ s.records[p].expires /\ now}
Matchable(s) == {p \in Profiles : IsActive(s, p) /\ ~s.records[p].flagged}
Readable(p)  == vault[p] # NoTemplate /\ vault[p].key = key

\* Whom a process that goes by these records may recognise, with the right key.
Recognizable(s, p) == IsActive(s, p) /\ vault[p] # NoTemplate

BoundTo(s) == [profile |-> s.profile, consent |-> s.consent]

\* The steps that take these profiles out of use, one profile after the other.
PutAway(lifecycle, ps) ==
  LET seq == SetToSeq(ps)
  IN  [i \in 1..2 * Len(seq) |->
         Do(IF i % 2 = 1 THEN lifecycle ELSE "erase", seq[(i + 1) \div 2])]

ExpireSteps(s, now) == PutAway("expired", Overdue(s, now))
MarkSteps(ps) == LET seq == SetToSeq(ps)
                 IN  [i \in 1..Len(seq) |-> Do("mark", seq[i])]

Idle == run = "up" /\ todo = <<>>

-----------------------------------------------------------------------------
\* The operations.

\* Broken: revoking a profile this process has no record of is a no-op.
RevokeKnown(p) ==
  IF p \in Known(live)
    THEN <<Do("revoked", p), Do("erase", p), Tell("bind"), Tell("invalidate"), Do("withdrawn", p)>>
    ELSE <<Do("withdrawn", p)>>

\* Broken: revoking again what is revoked already is a no-op.
RevokeOnce(p) ==
  IF p \in Known(live) /\ live.records[p].lifecycle = "revoked"
    THEN <<Do("withdrawn", p)>>
    ELSE <<Do("revoked", p), Do("erase", p), Tell("bind"), Tell("invalidate"), Do("withdrawn", p)>>

RevokeSteps(p) ==
  <<Do("revoked", p), Do("erase", p), Tell("bind"), Tell("invalidate"), Do("withdrawn", p)>>

\* A sample arrives; it takes the place of an older one, or is forgotten.
Hear == /\ Idle
        /\ evidence' \in {"good", "poor", "none"} \ {evidence}
        /\ UNCHANGED <<run, live, bound, key, replyVars, todo, ended, erased,
                       durableVars, late, historyVars>>

\* The sample is spent before its quality is looked at.
Enroll(p) ==
  /\ Idle /\ evidence # "none"
  /\ evidence' = "none"
  /\ IF evidence = "good"
       THEN /\ todo' = <<Do("template", p), Do("enrolled", p), Tell("bind")>>
            /\ consent' = [consent EXCEPT ![p] = "given"]
       ELSE UNCHANGED <<todo, consent>>
  /\ UNCHANGED <<run, live, bound, key, replyVars, ended, erased, durableVars, late, torn, overtaken>>

Begin(steps) ==
  /\ todo' = steps
  /\ UNCHANGED <<run, live, bound, key, evidence, replyVars, ended, erased,
                 durableVars, late, historyVars>>

Revoke(p) == Idle /\ Begin(RevokeSteps(p))

\* delete_profile
Delete(p) ==
  Idle /\ Begin(<<Do("deleted", p), Do("erase", p), Tell("bind"), Tell("invalidate"),
                  Do("withdrawn", p)>>)

\* expire_profiles; only an expiry that is asked for invalidates pending work.
ExpireProfiles ==
  /\ Idle /\ Overdue(live, late) # {}
  /\ Begin(ExpireSteps(live, late) \o <<Tell("bind"), Tell("invalidate")>>)

\* correct_profile, confirm_profile
Amend(p) == Idle /\ IsActive(live, p) /\ Begin(<<Do("amend", p), Tell("bind")>>)

\* A final transcript is admitted.  If there is a sample of its voice, overdue
\* profiles are expired and unreadable ones marked on the way to its speaker, and
\* the memory is not told.  A reply that was created begins in the next round of
\* the event loop, before another candidate can have been evaluated.
Recognize ==
  /\ Idle /\ ~ended /\ ~asked
  /\ LET unreadable == {p \in Matchable(live) \ Overdue(live, late) :
                          vault[p] # NoTemplate /\ ~Readable(p)}
     IN  Begin((IF evidence = "none" THEN <<>>
                  ELSE ExpireSteps(live, late) \o MarkSteps(unreadable)) \o <<Tell("identify")>>)

\* The reply schedules its operation, and asks the Brain at once when it cannot.
BeginReply ==
  /\ Idle /\ asked
  /\ asked' = FALSE
  /\ work' \in {bound, NoWork}
  /\ UNCHANGED <<run, live, bound, key, evidence, speaker, todo, ended, erased,
                 durableVars, late, historyVars>>

\* The operation is over.  The Brain is asked for the final words, and is told
\* the speaker; with its revisions out of date the result is refused instead.
EndReply ==
  /\ Idle /\ work # NoWork
  /\ work' = NoWork
  /\ UNCHANGED <<run, live, bound, key, evidence, speaker, asked, todo, ended, erased,
                 durableVars, late, historyVars>>

End ==
  /\ Idle /\ ~ended
  /\ ended' = TRUE
  /\ evidence' = "none"
  /\ speaker' = NoRecord /\ asked' = FALSE /\ work' = NoWork
  /\ todo' = PutAway("deleted", Known(live)) \o <<Tell("remove")>>
  /\ UNCHANGED <<run, live, bound, key, erased, durableVars, late, historyVars>>

-----------------------------------------------------------------------------
\* The steps.

Doing(what, p) == todo # <<>> /\ Head(todo) = Do(what, p)
GoOn == todo' = Tail(todo)

\* OSError leaves the operation; a start that meets one yields no runtime.
Fail == /\ todo' = <<>>
        /\ run' = IF run = "starting" THEN "down" ELSE run

\* The file is replaced as a whole.  A directory that cannot be flushed counts
\* as written when the file reads back equal; what comes after may still raise.
SaveRaises(new) ==
  \/ "refused" \in Faults /\ UNCHANGED disk
  \/ "unsure" \in Faults /\ disk' = new

\* Broken: memory moves before the file is written.
PublishEagerly(new) ==
  /\ live.profile < MaxRevision
  /\ live' = new
  /\ \/ disk' = new /\ GoOn /\ UNCHANGED run
     \/ SaveRaises(new) /\ Fail

\* Memory moves when the file is written.
Publish(new) ==
  /\ live.profile < MaxRevision
  /\ \/ disk' = new /\ live' = new /\ GoOn /\ UNCHANGED run
     \/ SaveRaises(new) /\ UNCHANGED live /\ Fail

Snap(records, withConsent) ==
  [profile |-> live.profile + 1,
   consent |-> live.consent + (IF withConsent THEN 1 ELSE 0),
   records |-> records]

Sealed == [enrolled |-> live.profile + 1, key |-> key]

\* The file is replaced and then its directory flushed.  No template is taken
\* back when either raises.
WriteTemplate(p) ==
  /\ Doing("template", p) /\ live.profile < MaxRevision
  /\ \/ ~erased /\ vault' = [vault EXCEPT ![p] = Sealed] /\ GoOn /\ UNCHANGED <<run, torn>>
     \/ /\ erased \/ "refused" \in Faults   \* or the directory is gone
        /\ Fail /\ UNCHANGED <<vault, torn>>
     \/ /\ ~erased /\ "unsure" \in Faults
        /\ vault' = [vault EXCEPT ![p] = Sealed] /\ torn' = torn \cup {p} /\ Fail
  /\ UNCHANGED <<live, bound, key, evidence, replyVars, ended, erased, disk, late,
                 consent, overtaken>>

\* Broken: a failed enrolment leaves its template behind.
KeepTemplate(p) == UNCHANGED <<vault, torn>>

\* A failed enrolment takes its template back, if it can.
TakeBack(p) ==
  \/ vault' = [vault EXCEPT ![p] = NoTemplate] /\ UNCHANGED torn
  \/ "unlink" \in Faults /\ UNCHANGED vault /\ torn' = torn \cup {p}

PublishEnrolment(p) ==
  /\ Doing("enrolled", p)
  /\ \E lasting \in BOOLEAN :
       Publish(Snap([live.records EXCEPT ![p] =
                       [lifecycle |-> "active", enrolled |-> live.profile + 1,
                        expires |-> ~lasting, flagged |-> FALSE]], TRUE))
  /\ IF todo' # <<>>
       THEN torn' = torn \ {p} /\ UNCHANGED vault
       ELSE TakeBack(p)
  /\ UNCHANGED <<bound, key, evidence, replyVars, ended, erased, late, consent, overtaken>>

\* _transition: nothing to do for a profile that is unknown or there already.
Transition(lifecycle, p) ==
  /\ Doing(lifecycle, p)
  /\ IF p \in Known(live) /\ live.records[p].lifecycle # lifecycle
       THEN Publish(Snap([live.records EXCEPT ![p].lifecycle = lifecycle], TRUE))
       ELSE GoOn /\ UNCHANGED <<run, live, disk>>
  /\ UNCHANGED <<bound, key, evidence, replyVars, ended, erased, vault, late, historyVars>>

\* A template that is there is unlinked and then its directory flushed.
EraseTemplate(p) ==
  /\ Doing("erase", p)
  /\ \/ /\ vault' = [vault EXCEPT ![p] = NoTemplate] /\ torn' = torn \ {p}
        /\ \/ GoOn /\ UNCHANGED run
           \/ "unsure" \in Faults /\ vault[p] # NoTemplate /\ Fail
     \/ /\ "unlink" \in Faults /\ vault[p] # NoTemplate
        /\ Fail /\ UNCHANGED <<vault, torn>>
  /\ UNCHANGED <<live, bound, key, evidence, replyVars, ended, erased, disk, late,
                 consent, overtaken>>

PublishAmendment(p) ==
  /\ Doing("amend", p)
  /\ Publish(Snap(live.records, FALSE))
  /\ UNCHANGED <<bound, key, evidence, replyVars, ended, erased, vault, late, historyVars>>

\* A mark that cannot be written is logged, and the matching goes on.
MarkUnreadable(p) ==
  /\ Doing("mark", p) /\ GoOn
  /\ LET new == Snap([live.records EXCEPT ![p].flagged = TRUE], FALSE) IN
     IF vault[p] = NoTemplate \/ Readable(p) \/ live.records[p].flagged
       THEN UNCHANGED <<live, disk>>
       ELSE /\ live.profile < MaxRevision
            /\ \/ live' = new /\ disk' = new
               \/ SaveRaises(new) /\ UNCHANGED live
  /\ UNCHANGED <<run, bound, key, evidence, replyVars, ended, erased, vault, late, historyVars>>

BindMemory ==
  /\ todo # <<>> /\ Head(todo) = Tell("bind") /\ GoOn
  /\ bound' = BoundTo(live)
  /\ run' = "up"
  /\ UNCHANGED <<live, key, evidence, replyVars, ended, erased, durableVars, late, historyVars>>

\* What cancel_pending reaches: an operation that runs, not a reply to come.
InvalidatePending ==
  /\ todo # <<>> /\ Head(todo) = Tell("invalidate") /\ GoOn
  /\ work' = NoWork
  /\ UNCHANGED <<run, live, bound, key, evidence, speaker, asked, ended, erased,
                 durableVars, late, historyVars>>

\* The turn begins and cancels what is pending; its first words are spoken, and
\* they may ask for an operation.
Identify ==
  /\ todo # <<>> /\ Head(todo) = Tell("identify") /\ GoOn
  /\ speaker' \in {NoRecord} \cup
                   {p \in Matchable(live) : evidence # "none" /\ Readable(p)}
  /\ asked' \in BOOLEAN
  /\ work' = NoWork
  /\ overtaken' = FALSE
  /\ UNCHANGED <<run, live, bound, key, evidence, ended, erased, durableVars, late,
                 consent, torn>>

\* The caller is told that the consent is withdrawn.
Withdraw(p) ==
  /\ Doing("withdrawn", p) /\ GoOn
  /\ consent' = [consent EXCEPT ![p] = IF @ = "given" THEN "withdrawn" ELSE @]
  /\ overtaken' = (overtaken \/ (asked /\ speaker = p))
  /\ UNCHANGED <<run, live, bound, key, evidence, replyVars, ended, erased, durableVars,
                 late, torn>>

\* rmtree; an entry that cannot be removed leaves what it has not got to.
RemoveDirectory ==
  /\ todo # <<>> /\ Head(todo) = Tell("remove")
  /\ \/ /\ disk' = NoFile /\ vault' = [p \in Profiles |-> NoTemplate]
        /\ erased' = TRUE /\ torn' = {} /\ GoOn /\ UNCHANGED run
        /\ consent' = [p \in Profiles |->
                         IF consent[p] = "given" THEN "withdrawn" ELSE consent[p]]
     \/ /\ "unlink" \in Faults /\ Fail
        /\ disk' \in {disk, NoFile}
        /\ UNCHANGED <<vault, erased, torn, consent>>
  /\ UNCHANGED <<live, bound, key, evidence, replyVars, ended, late, overtaken>>

-----------------------------------------------------------------------------
\* The process stops; or, once it has ended, the runtime is dropped by the
\* teardown.
Stop ==
  /\ run # "down"
  /\ todo # <<>> => "crash" \in Faults
  /\ torn' = torn \cup {p \in Profiles : Doing("enrolled", p)}
  /\ run' = "down" /\ todo' = <<>> /\ live' = Fresh /\ bound' = BoundTo(Fresh)
  /\ evidence' = "none" /\ ended' = FALSE /\ erased' = FALSE
  /\ speaker' = NoRecord /\ asked' = FALSE /\ work' = NoWork /\ overtaken' = FALSE
  /\ UNCHANGED <<key, durableVars, late, consent>>

Load == IF disk = NoFile THEN Fresh ELSE disk

\* A runtime is created from what is on disk.  The clock is monotonic and may
\* have begun anew with the host.
Start ==
  /\ run = "down"
  /\ live' = Load
  /\ late' \in {late, FALSE}
  /\ key' \in Keys
  /\ todo' = ExpireSteps(Load, late') \o <<Tell("bind")>>
               \o MarkSteps(Known(Load) \ Overdue(Load, late'))
  /\ run' = "starting"
  /\ UNCHANGED <<bound, evidence, replyVars, ended, erased, durableVars, historyVars>>

Expire == /\ ~late /\ late' = TRUE
          /\ UNCHANGED <<runtimeVars, durableVars, historyVars>>

Init ==
  /\ run = "down" /\ live = Fresh /\ bound = BoundTo(Fresh) /\ key \in Keys
  /\ evidence = "none" /\ todo = <<>> /\ ended = FALSE /\ erased = FALSE
  /\ speaker = NoRecord /\ asked = FALSE /\ work = NoWork
  /\ disk = NoFile /\ vault = [p \in Profiles |-> NoTemplate] /\ late = FALSE
  /\ consent = [p \in Profiles |-> "none"] /\ torn = {} /\ overtaken = FALSE

Perform(p) ==
  \/ WriteTemplate(p) \/ PublishEnrolment(p) \/ EraseTemplate(p)
  \/ \E lifecycle \in {"revoked", "expired", "deleted"} : Transition(lifecycle, p)
  \/ PublishAmendment(p) \/ MarkUnreadable(p) \/ Withdraw(p)

Next ==
  \/ Hear \/ Recognize \/ BeginReply \/ EndReply \/ ExpireProfiles \/ End
  \/ \E p \in Profiles : Enroll(p) \/ Revoke(p) \/ Delete(p) \/ Amend(p) \/ Perform(p)
  \/ BindMemory \/ Identify \/ InvalidatePending \/ RemoveDirectory
  \/ Stop \/ Start \/ Expire

Spec == Init /\ [][Next]_vars

-----------------------------------------------------------------------------
\* Every variable keeps to its shape.
TypeOK ==
  /\ run \in {"down", "starting", "up"}
  /\ live \in Snapshot /\ bound \in Revisions /\ key \in Keys
  /\ evidence \in {"none", "good", "poor"}
  /\ speaker \in Profiles \cup {NoRecord} /\ asked \in BOOLEAN /\ work \in Revisions \cup {NoWork}
  /\ todo \in Seq(Step) /\ ended \in BOOLEAN /\ erased \in BOOLEAN
  /\ disk \in Snapshot \cup {NoFile}
  /\ vault \in [Profiles -> Template \cup {NoTemplate}]
  /\ late \in BOOLEAN
  /\ consent \in [Profiles -> {"none", "given", "withdrawn"}] /\ torn \subseteq Profiles
  /\ overtaken \in BOOLEAN

\* A speaker who was told that their consent is withdrawn is never recognised
\* again, by this process or by one that starts from what is on disk, whatever
\* write failed before and wherever the process stopped (revoke_profile_consent,
\* end_session).  What was recognised before is WithdrawnIsNotTold's matter.
WithdrawnIsNeverRecognized ==
  \A p \in Profiles : consent[p] = "withdrawn" =>
    /\ ~Recognizable(live, p)
    /\ disk # NoFile => ~Recognizable(disk, p)

\* What memory says is on disk: the file is never older than the revision in
\* memory, and of the same revision it has the same records (_publish).
MemoryIsOnDisk ==
  run # "down" /\ live # Fresh =>
    IF disk = NoFile
      THEN ended
      ELSE /\ disk.profile >= live.profile
           /\ disk.profile = live.profile => disk = live

\* The template a profile is matched by is that of its own enrolment, unless a
\* later one was left half done: the process stopped between its two writes, the
\* later template could not be taken back, or it was written by a call that
\* raised nevertheless, and then nobody tries to (enroll, store_encrypted).
TemplateIsOfItsRecord ==
  Idle => \A p \in Matchable(live) \ torn :
            vault[p] # NoTemplate => vault[p].enrolled = live.records[p].enrolled

\* The identity of a turn outlives the consent, so it is the reply that has to
\* go: the Brain is told of a speaker whose consent is withdrawn only by a reply
\* that had been created and had not begun when the withdrawal came, for there
\* is no task of it yet to cancel.  A withdrawal that is repeated because its
\* first attempt failed half way still ends the reply
\* (revoke_profile_consent, invalidate_pending, _candidate_brain_snapshot).
WithdrawnIsNotTold ==
  \A p \in Profiles :
    consent[p] = "withdrawn" /\ speaker = p /\ (asked \/ work # NoWork) => overtaken
=============================================================================
