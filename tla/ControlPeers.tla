---------------------------- MODULE ControlPeers ----------------------------
(***************************************************************************)
(* The peers of the Orchestrator and what they own (transport_runtime.py,  *)
(* transport_hub.py): connections with a role, the session each is bound   *)
(* to, the runtime and lease of a session, the Mic, Sound and Frontend     *)
(* routes, what peers said that the Brain has not decided yet, and the     *)
(* commands a Frontend has still to answer.                                *)
(*                                                                         *)
(* Every connection has a handler that reads its messages one at a time;   *)
(* it reads what was buffered after the socket was closed, and gives up    *)
(* what the connection owned only when it ends.                            *)
(***************************************************************************)
EXTENDS Naturals, FiniteSets

CONSTANTS
  Peers,        \* the connections at one time
  Roles,        \* the roles they may have
  Sessions,     \* the sessions, each with one stream
  Commands,     \* 1..N, the commands a Frontend is sent, in this order
  MaxSessions,  \* config.max_sessions
  MaxPending,   \* bound on the utterances that are undecided at one time
  MaxComment,   \* the comments of a connection are numbered 1..MaxComment
  ReplayWindow, \* config.replay_window
  MaxEpoch, MaxSeq, MaxRuntimes, \* bounds
  NoPeer, NoSession, NoRuntime, NoCommand, Done

ASSUME ControlPeersAssumption ==
  /\ Roles \subseteq {"mic", "sound", "comments", "frontend"}
  /\ Commands \subseteq Nat \ {0} /\ IsFiniteSet(Commands)
  /\ {MaxSessions, MaxPending, MaxComment, ReplayWindow} \subseteq Nat
  /\ {MaxEpoch, MaxSeq, MaxRuntimes} \subseteq Nat
  /\ NoPeer \notin Peers /\ NoSession \notin Sessions

VARIABLES
  peer,       \* the connections
  runtime,    \* _session_runtimes, and the lease that goes with each
  created,    \* how many runtimes there were
  mic,        \* the Mic routes
  sink,       \* the Sound routes, by owner
  front,      \* _frontend_connections
  utterances, \* what was said and is not decided
  commands,   \* what Frontends were asked
  captioning, \* the sessions that ended and whose captions are being cancelled
  overtaken   \* the utterances whose speaker, or route, has gone since

routes == <<mic, sink, front>>
vars == <<peer, runtime, created, routes, utterances, commands, captioning, overtaken>>

Peer == [conn : {"away", "open", "closed", "leaving"}, role : Roles \cup {NoPeer},
         at : Sessions \cup {NoSession},
         seen : SUBSET (1..MaxComment), \* what its comment ingress remembers
         took : SUBSET (1..MaxComment)] \* the comments it has taken
Runtime == [id : 1..MaxRuntimes, ended : BOOLEAN, owners : SUBSET Peers,
            turn : {"quiet", "asking", "active"}, \* may it use its one tool still?
            page : Commands \cup {NoCommand}] \* the reducer's presentation state
Route == [owner : Peers \cup {NoPeer}, epoch : 0..MaxEpoch, seq : 0..MaxSeq]
Utterance == [peer : Peers, session : Sessions, runtime : 1..MaxRuntimes,
              epoch : 0..MaxEpoch, seq : Nat] \* of the Mic route; a comment's epoch is 0
Command == [session : Sessions, owner : Peers, runtime : 1..MaxRuntimes,
            deck : BOOLEAN,   \* it moves the page, as an avatar's cue does not
            stage : {"sending", "interrupted", "waiting", "escaped"},
            resolved : BOOLEAN] \* its future is: answered, cancelled or given up

ASSUME CommandAssumption == NoCommand \notin Command /\ NoCommand # Done

Absent == [conn |-> "away", role |-> NoPeer, at |-> NoSession, seen |-> {}, took |-> {}]
Fresh  == [id |-> created + 1, ended |-> FALSE, owners |-> {},
           turn |-> "quiet", page |-> NoCommand]

-----------------------------------------------------------------------------
\* Messages and sessions.

Has(s)      == runtime[s] # NoRuntime
Blocked(p)  == \E u \in utterances : u.peer = p /\ u.epoch = 0
Reading(p, role) == /\ peer[p].conn \in {"open", "closed"} /\ peer[p].role = role
                    /\ ~Blocked(p)

\* role_allows: the session of a connection is the first that it names, so that
\* it may as well be known when the connection is made.
MayName(p, s) == peer[p].at = s

\* A registration creates the runtime, if there is room for one.
HasRoom       == Cardinality({s \in Sessions : Has(s)}) < MaxSessions
Creates(s)    == ~Has(s) /\ HasRoom
Touched(r, p) == [r EXCEPT !.owners = @ \cup {p}]

Renewed(s, p) == IF Has(s) THEN [runtime EXCEPT ![s] = Touched(@, p)]
                 ELSE IF Creates(s) THEN [runtime EXCEPT ![s] = Touched(Fresh, p)]
                 ELSE runtime

Touch(s, p) == runtime' = IF Has(s) THEN Renewed(s, p) ELSE runtime

CountRuntime(s) == IF Creates(s) THEN created < MaxRuntimes /\ created' = created + 1
                                 ELSE UNCHANGED created

TouchOrCreate(s, p) == runtime' = Renewed(s, p) /\ CountRuntime(s)

\* A future is resolved at most once, and a resolved one is waited for no more.
Open(c)    == commands[c] \notin {NoCommand, Done}
Pending(c) == Open(c) /\ ~commands[c].resolved
Settled(c) == IF Pending(c) THEN [commands[c] EXCEPT !.resolved = TRUE] ELSE commands[c]
Resolved(cs) == [c \in Commands |-> IF c \in cs THEN Settled(c) ELSE commands[c]]

-----------------------------------------------------------------------------
\* Connections.

\* An id is used again when nothing holds the connection that had it.
Connect(p, role, s) ==
  /\ peer[p].conn = "away" /\ \A u \in utterances : u.peer # p
  /\ \A c \in Commands : Open(c) /\ commands[c].stage # "escaped" => commands[c].owner # p
  /\ peer' = [peer EXCEPT ![p] = [Absent EXCEPT !.conn = "open", !.role = role, !.at = s]]
  /\ UNCHANGED <<runtime, created, routes, utterances, commands, captioning, overtaken>>

Close(p) ==
  /\ peer[p].conn = "open"
  /\ peer' = [peer EXCEPT ![p].conn = "closed"]
  /\ overtaken' = overtaken \cup {u \in utterances : u.peer = p}
  /\ UNCHANGED <<runtime, created, routes, utterances, commands, captioning>>

\* Broken: the sequence numbers begin anew and the epoch does not.
SameEpoch(r, owner) == [r EXCEPT !.owner = owner, !.seq = 0]

\* A route that is registered or invalidated begins a new epoch.
NewEpoch(r, owner) == [owner |-> owner, epoch |-> r.epoch + 1, seq |-> 0]

\* Broken: the Mic routes of a connection stay when it goes.
RemoveSinks(p) ==
  /\ mic' = mic
  /\ sink' = [s \in Sessions |-> IF sink[s] = p THEN NoPeer ELSE sink[s]]

\* hub.remove_connection
RemoveRoutes(p) ==
  /\ \A s \in Sessions : mic[s].owner = p => mic[s].epoch < MaxEpoch
  /\ mic' = [s \in Sessions |-> IF mic[s].owner = p THEN NewEpoch(mic[s], NoPeer) ELSE mic[s]]
  /\ sink' = [s \in Sessions |-> IF sink[s] = p THEN NoPeer ELSE sink[s]]

\* The handler's finally, with the leases as they were left before.
LetGo(p, leases) ==
  /\ peer' = [peer EXCEPT ![p] = Absent]
  /\ RemoveRoutes(p)
  /\ front' = [s \in Sessions |-> IF front[s] = p THEN NoPeer ELSE front[s]]
  /\ commands' = Resolved({c \in Commands : Open(c) /\ commands[c].owner = p})
  /\ runtime' = [s \in Sessions |->
                   IF leases[s] # NoRuntime THEN [leases[s] EXCEPT !.owners = @ \ {p}]
                                            ELSE NoRuntime]
  /\ overtaken' = overtaken \cup {u \in utterances : u.peer = p}

\* A handler that waits for the decision of a comment has not got there.
Release(p) ==
  /\ peer[p].conn \in {"closed", "leaving"} /\ ~Blocked(p)
  /\ LetGo(p, runtime)
  /\ UNCHANGED <<created, utterances, captioning>>

-----------------------------------------------------------------------------
\* Registrations.

\* The route is registered whether or not there is a runtime.  The answer to it
\* cannot be sent to a peer that has gone: its handler ends.
RegisterMic(p, s) ==
  /\ Reading(p, "mic") /\ MayName(p, s) /\ mic[s].epoch < MaxEpoch
  /\ peer' = [peer EXCEPT ![p].conn = IF @ = "closed" THEN "leaving" ELSE @]
  /\ TouchOrCreate(s, p)
  /\ mic' = [mic EXCEPT ![s] = NewEpoch(@, p)]
  /\ overtaken' = overtaken \cup {u \in utterances : u.session = s /\ u.epoch # 0}
  /\ UNCHANGED <<sink, front, utterances, commands, captioning>>

RegisterSink(p, s) ==
  /\ Reading(p, "sound") /\ MayName(p, s) /\ sink[s] = NoPeer
  /\ TouchOrCreate(s, p)
  /\ sink' = [sink EXCEPT ![s] = p]
  /\ UNCHANGED <<peer, mic, front, utterances, commands, captioning, overtaken>>

\* DuplicateRouteError, raised also for a sink the peer has itself, is not
\* caught in the handler and ends it.
DuplicateSink(p, s) ==
  /\ Reading(p, "sound") /\ MayName(p, s) /\ sink[s] # NoPeer
  /\ CountRuntime(s) /\ LetGo(p, Renewed(s, p))
  /\ UNCHANGED <<utterances, captioning>>

RegisterFrontend(p, s) ==
  /\ Reading(p, "frontend") /\ MayName(p, s)
  /\ TouchOrCreate(s, p)
  /\ front' = IF Has(s) \/ Creates(s) THEN [front EXCEPT ![s] = p] ELSE front
  /\ UNCHANGED <<peer, mic, sink, utterances, commands, captioning, overtaken>>

\* Any other message binds the peer and renews the lease, whatever becomes of it.
Chatter(p, s) ==
  /\ peer[p].conn \in {"open", "closed"} /\ ~Blocked(p) /\ MayName(p, s)
  /\ Touch(s, p)
  /\ UNCHANGED <<peer, created, routes, utterances, commands, captioning, overtaken>>

\* stream.state "cancelled" or "error" takes the stream's Sound away.
StreamEnds(p, s) ==
  /\ Reading(p, "sound") /\ MayName(p, s)
  /\ Touch(s, p)
  /\ sink' = [sink EXCEPT ![s] = NoPeer]
  /\ UNCHANGED <<peer, created, mic, front, utterances, commands, captioning, overtaken>>

-----------------------------------------------------------------------------
\* What is said.

Alive(s) == Has(s) /\ ~runtime[s].ended

Said(p, s, epoch, seq) ==
  /\ Cardinality(utterances) < MaxPending
  /\ utterances' = IF Alive(s)
    THEN utterances \cup {[peer |-> p, session |-> s, runtime |-> runtime[s].id,
                           epoch |-> epoch, seq |-> seq]}
    ELSE utterances

\* accept_asr_final
IsLiveFinal(p, s, epoch, seq) ==
  mic[s].owner = p /\ epoch = mic[s].epoch /\ seq > mic[s].seq

\* The number of a final counts as used also when there is no runtime.
Final(p, s, epoch, seq) ==
  /\ Reading(p, "mic") /\ MayName(p, s) /\ IsLiveFinal(p, s, epoch, seq)
  /\ Touch(s, p)
  /\ mic' = [mic EXCEPT ![s].seq = seq]
  /\ Said(p, s, epoch, seq)
  /\ UNCHANGED <<peer, created, sink, front, commands, captioning, overtaken>>

\* The ingress of a connection forgets what its window has left behind, and
\* takes no comment that is in front of the window, or that it remembers.
InWindow(n, seen) == \A m \in seen : n + ReplayWindow >= m
Taken(n, seen)    == n \in seen \/ ~InWindow(n, seen)

\* Broken: the last number of the window is forgotten too early.
RememberNewer(n, seen) == {m \in seen \cup {n} : \A k \in seen \cup {n} : m + ReplayWindow > k}

Remember(n, seen) == {m \in seen \cup {n} : InWindow(m, seen \cup {n})}

Heard(r, n) == [r EXCEPT !.seen = Remember(n, @), !.took = @ \cup {n}]

\* _receive_comment; its handler waits for the decision.  A comment that is
\* refused is Chatter.
Comment(p, s, n) ==
  /\ Reading(p, "comments") /\ MayName(p, s) /\ Has(s)
  /\ ~Taken(n, peer[p].seen)
  /\ peer' = [peer EXCEPT ![p] = Heard(@, n)]
  /\ Touch(s, p) /\ Said(p, s, 0, n)
  /\ UNCHANGED <<created, routes, commands, captioning, overtaken>>

\* _audience_owner_valid
OwnerValid(u) ==
  /\ peer[u.peer].conn = "open" /\ peer[u.peer].at = u.session
  /\ Has(u.session) /\ runtime[u.session].id = u.runtime

\* Broken: the Mic owns its route still, of whatever epoch.
ValidForOwner(u) ==
  OwnerValid(u) /\ (u.epoch # 0 => mic[u.session].owner = u.peer)

\* _mic_admission_guard, _comment_admission_guard
Valid(u) ==
  /\ OwnerValid(u)
  /\ u.epoch # 0 => mic[u.session].owner = u.peer /\ mic[u.session].epoch = u.epoch

\* Broken: a command that is waited for is not cancelled with its turn.
StoppedSends(c) == IF commands[c].stage = "sending"
                     THEN [commands[c] EXCEPT !.stage = "interrupted"] ELSE commands[c]

\* The work of a turn is cancelled: a send is broken off, the future of what
\* was sent resolved at once, and a task that was left running closed.
Stopped(c) ==
  CASE commands[c].stage = "sending"     -> [commands[c] EXCEPT !.stage = "interrupted"]
    [] commands[c].stage = "waiting"     -> Settled(c)
    [] commands[c].stage = "interrupted" -> commands[c]
    [] commands[c].stage = "escaped"     -> Done

StopWork(s) ==
  commands' = [c \in Commands |-> IF Open(c) /\ commands[c].session = s
                                    THEN Stopped(c) ELSE commands[c]]

\* The Brain answers, and its turn takes over.
Admit(u) ==
  /\ u \in utterances /\ Valid(u)
  /\ utterances' = utterances \ {u} /\ overtaken' = overtaken \ {u}
  /\ runtime' = [runtime EXCEPT ![u.session].turn = "asking"]
  /\ StopWork(u.session)
  /\ UNCHANGED <<peer, created, routes, captioning>>

\* The Brain ignores it or fails, or it is too late.
Drop(u) ==
  /\ u \in utterances
  /\ utterances' = utterances \ {u} /\ overtaken' = overtaken \ {u}
  /\ UNCHANGED <<peer, runtime, created, routes, commands, captioning>>

-----------------------------------------------------------------------------
\* What a Frontend is asked: the page of a deck, or a cue for the avatar.

\* _presentation_tool_is_current, and the same of an avatar's cue: the one tool
\* of the turn that is.
Current(s) == Alive(s) /\ runtime[s].turn = "asking"

\* The Brain asks in a loop that has come round since it was broken off.
Undisturbed == \A d \in Commands : Open(d) => commands[d].stage # "interrupted"

\* reduce_presentation and _admit: no command is issued twice, and only a
\* loaded deck is navigated.
NextCommand(c)        == commands[c] = NoCommand /\ \A d \in Commands : d < c => commands[d] # NoCommand
Proposable(c, s, kind) == NextCommand(c) /\ (kind = "navigate" => runtime[s].page # NoCommand)

Using(s) == [runtime EXCEPT ![s].turn = "active"]

AskedOf(s, deck) ==
  [session |-> s, owner |-> front[s], runtime |-> runtime[s].id,
   deck |-> deck, stage |-> "sending", resolved |-> FALSE]

\* execute_presentation_tool, as far as _dispatch_presentation's send.
AskDeck(c, s, kind) ==
  /\ Current(s) /\ Undisturbed /\ Proposable(c, s, kind) /\ front[s] # NoPeer
  /\ commands' = [commands EXCEPT ![c] = AskedOf(s, TRUE)]
  /\ runtime' = Using(s)
  /\ UNCHANGED <<peer, created, routes, utterances, captioning, overtaken>>

\* execute_avatar_tool, as far as _dispatch_avatar's send.
AskAvatar(c, s) ==
  /\ Current(s) /\ Undisturbed /\ NextCommand(c) /\ front[s] # NoPeer
  /\ commands' = [commands EXCEPT ![c] = AskedOf(s, FALSE)]
  /\ runtime' = Using(s)
  /\ UNCHANGED <<peer, created, routes, utterances, captioning, overtaken>>

\* The tool fails at once: nobody renders the session, or no deck is loaded.
AskNobody(s) ==
  /\ Current(s) /\ (front[s] = NoPeer \/ runtime[s].page = NoCommand)
  /\ runtime' = Using(s)
  /\ UNCHANGED <<peer, created, routes, utterances, commands, captioning, overtaken>>

Sent(c) ==
  /\ Open(c) /\ commands[c].stage = "sending"
  /\ commands' = [commands EXCEPT ![c].stage = "waiting"]
  /\ UNCHANGED <<peer, runtime, created, routes, utterances, captioning, overtaken>>

Closed(c) ==
  /\ commands' = [commands EXCEPT ![c] = Done]
  /\ UNCHANGED <<peer, runtime, created, routes, utterances, captioning, overtaken>>

\* Its future was resolved: the deck's task is reduced or cancelled (_consume).
Consume(c) ==
  /\ Open(c) /\ commands[c].stage = "waiting" /\ commands[c].resolved
  /\ Closed(c)

\* The answer takes too long, or the wait was broken off.  A cue that cannot be
\* sent, or not in time, is no more than a tool that failed.
GiveUp(c) ==
  /\ Open(c)
  /\ \/ commands[c].stage = "interrupted"
     \/ commands[c].stage = "waiting" /\ ~commands[c].resolved
     \/ commands[c].stage = "sending" /\ ~commands[c].deck
  /\ Closed(c)

\* ConnectionClosed is no OSError: it passes by the deck worker, which leaves
\* the task running.
Escape(c) ==
  /\ Open(c) /\ commands[c].stage = "sending" /\ commands[c].deck
  /\ peer[commands[c].owner].conn # "open"
  /\ commands' = [commands EXCEPT ![c].stage = "escaped", ![c].resolved = TRUE]
  /\ UNCHANGED <<peer, runtime, created, routes, utterances, captioning, overtaken>>

Asked(c, p) == Pending(c) /\ commands[c].session = peer[p].at /\ commands[c].owner = p

\* receive_presentation_result finds the correlation of the command only in the
\* runtime that has asked it.
Correlated(c, s) == Has(s) /\ runtime[s].id = commands[c].runtime

\* The page that the session is on now.
Shown(c, s, succeeded) == IF succeeded THEN c ELSE runtime[s].page

\* accept_presentation_result
AnswerDeck(c, p, succeeded) ==
  /\ Reading(p, "frontend") /\ Asked(c, p) /\ commands[c].deck
  /\ Correlated(c, peer[p].at)
  /\ commands' = Resolved({c})
  /\ runtime' = [runtime EXCEPT ![peer[p].at] =
       [Touched(@, p) EXCEPT !.page = Shown(c, peer[p].at, succeeded)]]
  /\ UNCHANGED <<peer, created, routes, utterances, captioning, overtaken>>

\* accept_cue_result
AnswerCue(c, p) ==
  /\ Reading(p, "frontend") /\ Asked(c, p) /\ ~commands[c].deck
  /\ commands' = Resolved({c}) /\ Touch(peer[p].at, p)
  /\ UNCHANGED <<peer, created, routes, utterances, captioning, overtaken>>

-----------------------------------------------------------------------------
\* Sessions end.

InProgress(s) ==
  \/ runtime[s].turn # "quiet"
  \/ \E u \in utterances : u.session = s
  \/ \E c \in Commands : Open(c) /\ commands[c].session = s

\* Those who wait for a Frontend are told no; the tasks go with the runtime.
TellWaiting(s) ==
  commands' = [c \in Commands |->
    IF Open(c) /\ commands[c].session = s
      THEN IF commands[c].stage = "escaped" THEN Done ELSE Settled(c)
      ELSE commands[c]]

\* _teardown_session with runtime.end_session.  The Mic route, its epoch and
\* its numbers stay with the peer that registered them.
Teardown(s) ==
  /\ runtime' = [runtime EXCEPT ![s] = NoRuntime]
  /\ front' = [front EXCEPT ![s] = NoPeer]
  /\ sink' = [sink EXCEPT ![s] = NoPeer]
  /\ TellWaiting(s)
  /\ utterances' = {u \in utterances : u.session # s}
  /\ overtaken' = {u \in overtaken : u.session # s}
  /\ UNCHANGED <<peer, created, mic>>

\* Any time may have passed since the last activity, and so the TTL too.
Sweep(s) ==
  /\ Has(s) /\ runtime[s].owners = {} /\ ~InProgress(s)
  /\ Teardown(s) /\ UNCHANGED captioning

\* An operator ends the session, which is torn down when the caption of a
\* Frontend has been taken back.
End(s) ==
  /\ Alive(s)
  /\ runtime' = [runtime EXCEPT ![s].ended = TRUE, ![s].turn = "quiet"]
  /\ StopWork(s)
  /\ utterances' = {u \in utterances : u.session # s}
  /\ overtaken' = {u \in overtaken : u.session # s}
  /\ captioning' = captioning \cup {s}
  /\ UNCHANGED <<peer, created, routes>>

Finish(s) ==
  /\ s \in captioning /\ captioning' = captioning \ {s}
  /\ Teardown(s)

\* The caption's Frontend has gone: ConnectionClosed ends the operator's
\* handler, and the session is not torn down.
Abandon(s) ==
  /\ s \in captioning /\ front[s] # NoPeer => peer[front[s]].conn # "open"
  /\ captioning' = captioning \ {s}
  /\ UNCHANGED <<peer, runtime, created, routes, utterances, commands, overtaken>>

Quiet(s) ==
  /\ Has(s) /\ runtime[s].turn # "quiet"
  /\ runtime' = [runtime EXCEPT ![s].turn = "quiet"]
  /\ UNCHANGED <<peer, created, routes, utterances, commands, captioning, overtaken>>

Init ==
  /\ peer = [p \in Peers |-> Absent]
  /\ runtime = [s \in Sessions |-> NoRuntime] /\ created = 0
  /\ mic = [s \in Sessions |-> [owner |-> NoPeer, epoch |-> 0, seq |-> 0]]
  /\ sink = [s \in Sessions |-> NoPeer] /\ front = [s \in Sessions |-> NoPeer]
  /\ utterances = {} /\ commands = [c \in Commands |-> NoCommand] /\ captioning = {}
  /\ overtaken = {}

FromPeer(p) ==
  \/ \E role \in Roles, s \in Sessions : Connect(p, role, s)
  \/ Close(p) \/ Release(p)
  \/ \E s \in Sessions :
       \/ RegisterMic(p, s) \/ RegisterSink(p, s) \/ DuplicateSink(p, s)
       \/ RegisterFrontend(p, s) \/ Chatter(p, s) \/ StreamEnds(p, s)
       \/ \E n \in 1..MaxComment : Comment(p, s, n)
       \/ \E epoch \in 0..MaxEpoch, seq \in 1..MaxSeq : Final(p, s, epoch, seq)
  \/ \E c \in Commands, succeeded \in BOOLEAN : AnswerDeck(c, p, succeeded)
  \/ \E c \in Commands : AnswerCue(c, p)

FromSession(s) ==
  \/ Sweep(s) \/ End(s) \/ Finish(s) \/ Abandon(s) \/ Quiet(s)
  \/ AskNobody(s) \/ \E c \in Commands : AskAvatar(c, s)
  \/ \E c \in Commands, kind \in {"load", "navigate"} : AskDeck(c, s, kind)

Next ==
  \/ \E p \in Peers : FromPeer(p)
  \/ \E s \in Sessions : FromSession(s)
  \/ \E u \in utterances : Admit(u) \/ Drop(u)
  \/ \E c \in Commands : Sent(c) \/ Consume(c) \/ GiveUp(c) \/ Escape(c)

Spec == Init /\ [][Next]_vars

-----------------------------------------------------------------------------
\* Every variable keeps to its shape.
TypeOK ==
  /\ peer \in [Peers -> Peer] /\ runtime \in [Sessions -> Runtime \cup {NoRuntime}]
  /\ created \in 0..MaxRuntimes /\ mic \in [Sessions -> Route]
  /\ sink \in [Sessions -> Peers \cup {NoPeer}] /\ front \in [Sessions -> Peers \cup {NoPeer}]
  /\ utterances \subseteq Utterance /\ overtaken \subseteq utterances
  /\ commands \in [Commands -> Command \cup {NoCommand, Done}] /\ captioning \subseteq Sessions

\* A connection that has gone owns nothing: no lease that keeps a session
\* from being swept, no route, and no answer that is waited for (the finally
\* of handle_control).
TheGoneOwnNothing ==
  \A p \in Peers : peer[p].conn = "away" =>
    /\ \A s \in Sessions : /\ Has(s) => p \notin runtime[s].owners
                          /\ p \notin {mic[s].owner, sink[s], front[s]}
    /\ \A c \in Commands : Pending(c) => commands[c].owner # p

Position(s)  == <<mic[s].epoch, mic[s].seq>>
Before(a, b) == a[1] < b[1] \/ (a[1] = b[1] /\ a[2] < b[2])

\* What is said is taken once.  A final transcript, whatever connection it
\* comes from and however often its route was registered, lost, or its session
\* torn down ("Validate that a final belongs to a live Mic route exactly once",
\* accept_asr_final); a comment of one connection, although its ingress forgets
\* the numbers it has left behind (_discard_expired_replays).
TakenOnce ==
  [][/\ \A s \in Sessions : Position(s)' = Position(s) \/ Before(Position(s), Position(s)')
     /\ \A u \in utterances' \ utterances :
          IF u.epoch = 0 THEN u.seq \notin peer[u.peer].took
          ELSE /\ Before(Position(u.session), <<u.epoch, u.seq>>)
               /\ Position(u.session)' = <<u.epoch, u.seq>>]_vars

\* What was said is answered only while the connection that said it is open and
\* its Mic has neither been registered again nor lost (_mic_admission_guard).
UtteranceOfTheLiveRoute ==
  [][\A u \in overtaken : ~ Admit(u)]_vars

\* A deck does not go back: the answer to the command of an older turn never
\* replaces the page of a newer one (accept_presentation_result).
PagesMoveForward ==
  [][\A s \in Sessions :
       Has(s) /\ Has(s)' /\ runtime[s].page # NoCommand =>
         \/ runtime'[s].id # runtime[s].id
         \/ runtime'[s].page >= runtime[s].page]_vars
=============================================================================
