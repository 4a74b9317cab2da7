------------------------- MODULE ControlPeersProofs -------------------------
(***************************************************************************)
(* The theorems about ControlPeers, for any peers, sessions, commands and  *)
(* limits.  Type correctness comes first, by one lemma for every way a     *)
(* variable is changed; then what a step does to the commands, which two   *)
(* of the invariants rest on; then one inductive invariant for each        *)
(* property.                                                               *)
(***************************************************************************)
EXTENDS ControlPeers, TLAPS

RuntimeOrNone == Runtime \cup {NoRuntime}
CommandOrNone == Command \cup {NoCommand, Done}

-----------------------------------------------------------------------------
(* The shape of what the operators make.                                   *)

\* A connection keeps its shape whatever field of it changes.
LEMMA PeerFields ==
  ASSUME NEW r \in Peer
  PROVE  /\ \A x \in {"away", "open", "closed", "leaving"} : [r EXCEPT !.conn = x] \in Peer
         /\ \A x \in {"away", "open", "closed", "leaving"} : [r EXCEPT !.conn = x].conn = x
         /\ \A x \in {"away", "open", "closed", "leaving"} :
              [r EXCEPT !.conn = x].seen = r.seen /\ [r EXCEPT !.conn = x].took = r.took
BY DEF Peer

\* So does the record of a new connection.
LEMMA AbsentIsPeer ==
  /\ Absent \in Peer
  /\ \A role \in Roles, s \in Sessions :
       [Absent EXCEPT !.conn = "open", !.role = role, !.at = s] \in Peer
BY DEF Absent, Peer

\* A runtime keeps its shape whatever field of it changes.
LEMMA RuntimeFields ==
  ASSUME NEW r \in Runtime
  PROVE  /\ \A p \in Peers : Touched(r, p) \in Runtime
         /\ \A o \in SUBSET Peers : [r EXCEPT !.owners = o] \in Runtime
         /\ \A t \in {"quiet", "asking", "active"} : [r EXCEPT !.turn = t] \in Runtime
         /\ [r EXCEPT !.ended = TRUE, !.turn = "quiet"] \in Runtime
         /\ \A c \in Commands \cup {NoCommand} : [r EXCEPT !.page = c] \in Runtime
BY DEF Touched, Runtime

\* A command keeps its shape whatever field of it changes.
LEMMA CommandFields ==
  ASSUME NEW r \in Command
  PROVE  /\ [r EXCEPT !.resolved = TRUE] \in Command
         /\ \A t \in {"sending", "interrupted", "waiting", "escaped"} :
              /\ [r EXCEPT !.stage = t] \in Command
              /\ [r EXCEPT !.stage = t, !.resolved = TRUE] \in Command
BY DEF Command

\* A route that begins a new epoch has the shape of one.
LEMMA NewEpochIsRoute ==
  ASSUME NEW r \in Route, NEW o \in Peers \cup {NoPeer}, r.epoch < MaxEpoch
  PROVE  NewEpoch(r, o) \in Route
BY ControlPeersAssumption DEF NewEpoch, Route

\* A new runtime has the shape of one.
LEMMA FreshIsRuntime ==
  ASSUME TypeOK, created < MaxRuntimes
  PROVE  Fresh \in Runtime
BY ControlPeersAssumption DEF Fresh, Runtime, TypeOK

\* The runtimes of the leases that a registration renews.
LEMMA RenewedShape ==
  ASSUME TypeOK, NEW s \in Sessions, NEW p \in Peers, CountRuntime(s)
  PROVE  Renewed(s, p) \in [Sessions -> RuntimeOrNone] /\ created' \in 0..MaxRuntimes
<1>1. CASE Has(s)
  BY <1>1, RuntimeFields DEF TypeOK, RuntimeOrNone, Has, Renewed, CountRuntime, Creates
<1>2. CASE Creates(s)
  <2>1. created < MaxRuntimes /\ created' = created + 1
    BY <1>2 DEF CountRuntime
  <2>2. Touched(Fresh, p) \in Runtime
    BY <2>1, FreshIsRuntime, RuntimeFields
  <2> QED
    BY <1>2, <2>1, <2>2, ControlPeersAssumption DEF TypeOK, RuntimeOrNone, Renewed, Creates
<1>3. CASE ~Has(s) /\ ~Creates(s)
  BY <1>3 DEF TypeOK, RuntimeOrNone, Renewed, CountRuntime
<1> QED
  BY <1>1, <1>2, <1>3

\* The runtimes after a message that renews a lease.
LEMMA TouchShape ==
  ASSUME TypeOK, NEW s \in Sessions, NEW p \in Peers, Touch(s, p)
  PROVE  runtime' \in [Sessions -> RuntimeOrNone]
BY RuntimeFields DEF TypeOK, RuntimeOrNone, Has, Renewed, Touch

\* The commands of which some were resolved, stopped or told.
LEMMA CommandsShape ==
  ASSUME TypeOK, NEW s
  PROVE  /\ \A cs : Resolved(cs) \in [Commands -> CommandOrNone]
         /\ StopWork(s) => commands' \in [Commands -> CommandOrNone]
         /\ TellWaiting(s) => commands' \in [Commands -> CommandOrNone]
<1>1. \A c \in Commands : commands[c] \in CommandOrNone
  BY DEF TypeOK, CommandOrNone
<1>2. \A c \in Commands : Open(c) => commands[c] \in Command
  BY <1>1 DEF CommandOrNone, Open
<1>3. \A c \in Commands : Settled(c) \in CommandOrNone
  BY <1>1, <1>2, CommandFields DEF Settled, Pending, CommandOrNone
<1>4. \A c \in Commands : Open(c) => Stopped(c) \in CommandOrNone
  <2> SUFFICES ASSUME NEW c \in Commands, Open(c)
               PROVE  Stopped(c) \in CommandOrNone
    OBVIOUS
  <2>1. commands[c].stage \in {"sending", "interrupted", "waiting", "escaped"}
    BY <1>2 DEF Command
  <2>2. [commands[c] EXCEPT !.stage = "interrupted"] \in Command
    BY <1>2, CommandFields
  <2> QED
    BY <2>1, <2>2, <1>1, <1>3 DEF Stopped, CommandOrNone
<1>5. \A cs : Resolved(cs) \in [Commands -> CommandOrNone]
  BY <1>1, <1>3 DEF Resolved
<1>6. StopWork(s) => commands' \in [Commands -> CommandOrNone]
  BY <1>1, <1>4 DEF StopWork
<1>7. TellWaiting(s) => commands' \in [Commands -> CommandOrNone]
  <2>1. Done \in CommandOrNone
    BY DEF CommandOrNone
  <2> QED
    BY <1>1, <1>3, <2>1 DEF TellWaiting
<1> QED
  BY <1>5, <1>6, <1>7

\* What the end of a handler leaves, with leases of the right shape.
LEMMA LetGoShape ==
  ASSUME TypeOK, NEW p \in Peers, NEW leases \in [Sessions -> RuntimeOrNone],
         LetGo(p, leases)
  PROVE  /\ peer' \in [Peers -> Peer] /\ runtime' \in [Sessions -> RuntimeOrNone]
         /\ mic' \in [Sessions -> Route] /\ sink' \in [Sessions -> Peers \cup {NoPeer}]
         /\ front' \in [Sessions -> Peers \cup {NoPeer}]
         /\ commands' \in [Commands -> CommandOrNone] /\ overtaken' \subseteq utterances
<1>1. peer' \in [Peers -> Peer]
  BY AbsentIsPeer DEF LetGo, TypeOK
<1>2. runtime' \in [Sessions -> RuntimeOrNone]
  <2>1. \A s \in Sessions : leases[s] # NoRuntime =>
          /\ leases[s] \in Runtime
          /\ [leases[s] EXCEPT !.owners = @ \ {p}] \in Runtime
    <3> SUFFICES ASSUME NEW s \in Sessions, leases[s] # NoRuntime
                 PROVE  /\ leases[s] \in Runtime
                        /\ [leases[s] EXCEPT !.owners = @ \ {p}] \in Runtime
      OBVIOUS
    <3>1. leases[s] \in Runtime
      BY DEF RuntimeOrNone
    <3>2. leases[s].owners \ {p} \in SUBSET Peers
      BY <3>1 DEF Runtime
    <3> QED
      BY <3>1, <3>2, RuntimeFields
  <2>2. NoRuntime \in RuntimeOrNone /\ Runtime \subseteq RuntimeOrNone
    BY DEF RuntimeOrNone
  <2>3. runtime' = [s \in Sessions |->
                     IF leases[s] # NoRuntime THEN [leases[s] EXCEPT !.owners = @ \ {p}]
                                              ELSE NoRuntime]
    BY DEF LetGo
  <2> QED
    BY <2>1, <2>2, <2>3
<1>3. mic' \in [Sessions -> Route]
  BY NewEpochIsRoute DEF LetGo, RemoveRoutes, TypeOK
<1>4. sink' \in [Sessions -> Peers \cup {NoPeer}] /\ front' \in [Sessions -> Peers \cup {NoPeer}]
  BY DEF LetGo, RemoveRoutes, TypeOK
<1>5. commands' \in [Commands -> CommandOrNone]
  BY CommandsShape DEF LetGo
<1>6. overtaken' \subseteq utterances
  BY DEF LetGo, TypeOK
<1> QED
  BY <1>1, <1>2, <1>3, <1>4, <1>5, <1>6

\* What is said is an utterance.
LEMMA SaidShape ==
  ASSUME TypeOK, NEW p \in Peers, NEW s \in Sessions, NEW epoch \in 0..MaxEpoch,
         NEW seq \in Nat, Said(p, s, epoch, seq)
  PROVE  utterances' \subseteq Utterance /\ utterances \subseteq utterances'
<1>1. Alive(s) => runtime[s].id \in 1..MaxRuntimes
  BY DEF Alive, Has, TypeOK, Runtime
<1> QED
  BY <1>1 DEF Said, TypeOK, Utterance

-----------------------------------------------------------------------------
(* Type correctness.                                                       *)

\* The shape of everything after a step of a connection.
LEMMA TypeFromPeer ==
  ASSUME TypeOK, NEW p \in Peers, FromPeer(p)
  PROVE  TypeOK'
<1> USE DEF RuntimeOrNone, CommandOrNone, routes
<1>1. ASSUME NEW role \in Roles, NEW s \in Sessions, Connect(p, role, s)
      PROVE  TypeOK'
  BY <1>1, AbsentIsPeer DEF Connect, TypeOK
<1>2. CASE Close(p)
  BY <1>2, PeerFields DEF Close, TypeOK
<1>3. CASE Release(p)
  BY <1>3, LetGoShape DEF Release, TypeOK
<1>4. ASSUME NEW s \in Sessions, RegisterMic(p, s)
      PROVE  TypeOK'
  <2>1. peer' \in [Peers -> Peer]
    BY <1>4, PeerFields DEF RegisterMic, Reading, TypeOK
  <2>2. runtime' \in [Sessions -> RuntimeOrNone] /\ created' \in 0..MaxRuntimes
    BY <1>4, RenewedShape DEF RegisterMic, TouchOrCreate
  <2>3. mic' \in [Sessions -> Route]
    BY <1>4, NewEpochIsRoute DEF RegisterMic, TypeOK
  <2>4. overtaken' \subseteq utterances'
    BY <1>4 DEF RegisterMic, TypeOK
  <2> QED
    BY <1>4, <2>1, <2>2, <2>3, <2>4 DEF RegisterMic, TypeOK
<1>5. ASSUME NEW s \in Sessions, RegisterSink(p, s)
      PROVE  TypeOK'
  BY <1>5, RenewedShape DEF RegisterSink, TouchOrCreate, TypeOK
<1>6. ASSUME NEW s \in Sessions, DuplicateSink(p, s)
      PROVE  TypeOK'
  BY <1>6, RenewedShape, LetGoShape DEF DuplicateSink, TypeOK
<1>7. ASSUME NEW s \in Sessions, RegisterFrontend(p, s)
      PROVE  TypeOK'
  BY <1>7, RenewedShape DEF RegisterFrontend, TouchOrCreate, TypeOK
<1>8. ASSUME NEW s \in Sessions, Chatter(p, s)
      PROVE  TypeOK'
  BY <1>8, TouchShape DEF Chatter, TypeOK
<1>9. ASSUME NEW s \in Sessions, StreamEnds(p, s)
      PROVE  TypeOK'
  BY <1>9, TouchShape DEF StreamEnds, TypeOK
<1>10. ASSUME NEW s \in Sessions, NEW n \in 1..MaxComment, Comment(p, s, n)
       PROVE  TypeOK'
  <2>1. peer[p] \in Peer /\ peer[p].seen \subseteq 1..MaxComment
                          /\ peer[p].took \subseteq 1..MaxComment
    BY DEF TypeOK, Peer
  <2>2. Remember(n, peer[p].seen) \subseteq 1..MaxComment
    BY <2>1 DEF Remember
  <2>3. peer' \in [Peers -> Peer]
    <3>1. Heard(peer[p], n) \in Peer
      BY <2>1, <2>2 DEF Heard, Peer
    <3> QED
      BY <1>10, <3>1 DEF Comment, TypeOK
  <2>4. utterances' \subseteq Utterance /\ utterances \subseteq utterances'
    BY <1>10, SaidShape, ControlPeersAssumption DEF Comment
  <2> QED
    BY <1>10, <2>3, <2>4, TouchShape DEF Comment, TypeOK
<1>11. ASSUME NEW s \in Sessions, NEW epoch \in 0..MaxEpoch, NEW seq \in 1..MaxSeq,
              Final(p, s, epoch, seq)
       PROVE  TypeOK'
  <2>1. mic' \in [Sessions -> Route]
    BY <1>11 DEF Final, TypeOK, Route
  <2>2. utterances' \subseteq Utterance /\ utterances \subseteq utterances'
    BY <1>11, SaidShape DEF Final
  <2> QED
    BY <1>11, <2>1, <2>2, TouchShape DEF Final, TypeOK
<1>12. ASSUME NEW c \in Commands, NEW succeeded \in BOOLEAN, AnswerDeck(c, p, succeeded)
       PROVE  TypeOK'
  <2>1. commands' \in [Commands -> CommandOrNone]
    BY <1>12, CommandsShape DEF AnswerDeck
  <2> DEFINE s == peer[p].at
  <2>2. s \in Sessions => runtime[s] \in RuntimeOrNone
    BY DEF TypeOK
  <2>3. runtime[s] # NoRuntime
    BY <1>12 DEF AnswerDeck, Correlated, Has
  <2>4. runtime' \in [Sessions -> RuntimeOrNone]
    <3>1. CASE s \in Sessions
      <4>1. Touched(runtime[s], p) \in Runtime /\ runtime[s].page \in Commands \cup {NoCommand}
        BY <2>2, <2>3, <3>1, RuntimeFields DEF Runtime
      <4>2. Shown(c, s, succeeded) \in Commands \cup {NoCommand}
        BY <4>1 DEF Shown
      <4>3. [Touched(runtime[s], p) EXCEPT !.page = Shown(c, s, succeeded)] \in Runtime
        BY <4>1, <4>2, RuntimeFields
      <4> QED
        BY <1>12, <4>3 DEF AnswerDeck, TypeOK
    <3>2. CASE s \notin Sessions
      BY <1>12, <3>2 DEF AnswerDeck, TypeOK
    <3> QED
      BY <3>1, <3>2
  <2> QED
    BY <1>12, <2>1, <2>4 DEF AnswerDeck, TypeOK
<1>13. ASSUME NEW c \in Commands, AnswerCue(c, p)
       PROVE  TypeOK'
  <2>1. commands' \in [Commands -> CommandOrNone]
    BY <1>13, CommandsShape DEF AnswerCue
  <2>2. peer[p].at \in Sessions
    <3>1. commands[c] \in Command
      BY <1>13 DEF AnswerCue, Asked, Pending, Open, TypeOK
    <3> QED
      BY <1>13, <3>1 DEF AnswerCue, Asked, Command
  <2>3. runtime' \in [Sessions -> RuntimeOrNone]
    BY <1>13, <2>2, TouchShape DEF AnswerCue
  <2> QED
    BY <1>13, <2>1, <2>3 DEF AnswerCue, TypeOK
<1> QED
  BY <1>1, <1>2, <1>3, <1>4, <1>5, <1>6, <1>7, <1>8, <1>9, <1>10, <1>11, <1>12, <1>13
     DEF FromPeer

\* The shape of everything after the session s was torn down.
LEMMA TeardownShape ==
  ASSUME TypeOK, NEW s \in Sessions, Teardown(s), captioning' \subseteq Sessions
  PROVE  TypeOK'
<1>1. commands' \in [Commands -> CommandOrNone]
  BY CommandsShape DEF Teardown
<1> QED
  BY <1>1 DEF Teardown, TypeOK, CommandOrNone

\* A command as it is asked has the shape of one.
LEMMA AskedOfIsCommand ==
  ASSUME TypeOK, NEW s \in Sessions, Has(s), front[s] # NoPeer, NEW deck \in BOOLEAN
  PROVE  AskedOf(s, deck) \in Command
<1>1. runtime[s].id \in 1..MaxRuntimes /\ front[s] \in Peers
  BY DEF TypeOK, Has, Runtime
<1> QED
  BY <1>1 DEF AskedOf, Command

\* The shape of everything after a step of a session.
LEMMA TypeFromSession ==
  ASSUME TypeOK, NEW s \in Sessions, FromSession(s)
  PROVE  TypeOK'
<1> USE DEF RuntimeOrNone, CommandOrNone, routes
<1>0. Has(s) => runtime[s] \in Runtime
  BY DEF TypeOK, Has
<1>1. CASE Sweep(s)
  BY <1>1, TeardownShape DEF Sweep, TypeOK
<1>2. CASE End(s)
  <2>1. commands' \in [Commands -> CommandOrNone]
    BY <1>2, CommandsShape DEF End
  <2>2. runtime' \in [Sessions -> RuntimeOrNone]
    BY <1>0, <1>2, RuntimeFields DEF End, Alive, TypeOK
  <2> QED
    BY <1>2, <2>1, <2>2 DEF End, TypeOK
<1>3. CASE Finish(s)
  BY <1>3, TeardownShape DEF Finish, TypeOK
<1>4. CASE Abandon(s)
  BY <1>4 DEF Abandon, TypeOK
<1>5. CASE Quiet(s)
  BY <1>0, <1>5, RuntimeFields DEF Quiet, TypeOK
<1>6. Current(s) => Using(s) \in [Sessions -> RuntimeOrNone] /\ Has(s)
  BY <1>0, RuntimeFields DEF Current, Alive, Using, TypeOK
<1>7. CASE AskNobody(s)
  BY <1>6, <1>7 DEF AskNobody, TypeOK
<1>8. ASSUME NEW c \in Commands, AskAvatar(c, s)
      PROVE  TypeOK'
  <2>1. AskedOf(s, FALSE) \in Command
    BY <1>6, <1>8, AskedOfIsCommand DEF AskAvatar
  <2> QED
    BY <1>6, <1>8, <2>1 DEF AskAvatar, TypeOK
<1>9. ASSUME NEW c \in Commands, NEW kind, AskDeck(c, s, kind)
      PROVE  TypeOK'
  <2>1. AskedOf(s, TRUE) \in Command
    BY <1>6, <1>9, AskedOfIsCommand DEF AskDeck
  <2> QED
    BY <1>6, <1>9, <2>1 DEF AskDeck, TypeOK
<1> QED
  BY <1>1, <1>2, <1>3, <1>4, <1>5, <1>7, <1>8, <1>9 DEF FromSession

\* The shape of everything after a decision.
LEMMA TypeFromDecision ==
  ASSUME TypeOK, NEW u \in utterances, Admit(u) \/ Drop(u)
  PROVE  TypeOK'
<1>1. CASE Admit(u)
  <2>1. u.session \in Sessions
    BY DEF TypeOK, Utterance
  <2>2. commands' \in [Commands -> CommandOrNone]
    BY <1>1, CommandsShape DEF Admit
  <2>3. runtime[u.session] \in Runtime
    BY <1>1, <2>1 DEF Admit, Valid, OwnerValid, Has, TypeOK
  <2>4. runtime' \in [Sessions -> RuntimeOrNone]
    BY <1>1, <2>1, <2>3, RuntimeFields DEF Admit, TypeOK, RuntimeOrNone
  <2> QED
    BY <1>1, <2>2, <2>4 DEF Admit, TypeOK, RuntimeOrNone, CommandOrNone, routes
<1>2. CASE Drop(u)
  BY <1>2 DEF Drop, TypeOK, routes
<1> QED
  BY <1>1, <1>2

\* The shape of everything after a step of a command.
LEMMA TypeFromCommand ==
  ASSUME TypeOK, NEW c \in Commands, Sent(c) \/ Consume(c) \/ GiveUp(c) \/ Escape(c)
  PROVE  TypeOK'
<1> USE DEF RuntimeOrNone, CommandOrNone, routes
<1>1. Open(c) => commands[c] \in Command
  BY DEF Open, TypeOK
<1>2. CASE Sent(c)
  BY <1>1, <1>2, CommandFields DEF Sent, TypeOK
<1>3. CASE Consume(c) \/ GiveUp(c)
  BY <1>3 DEF Consume, GiveUp, Closed, TypeOK
<1>4. CASE Escape(c)
  BY <1>1, <1>4, CommandFields DEF Escape, TypeOK
<1> QED
  BY <1>2, <1>3, <1>4

\* Every step keeps the shape of every variable.
LEMMA TypeStep ==
  ASSUME TypeOK, [Next]_vars
  PROVE  TypeOK'
<1>1. CASE UNCHANGED vars
  BY <1>1 DEF vars, routes, TypeOK
<1> QED
  BY <1>1, TypeFromPeer, TypeFromSession, TypeFromDecision, TypeFromCommand DEF Next

\* Every variable has its shape initially.
LEMMA TypeInit == Init => TypeOK
<1>1. 0 \in 0..MaxRuntimes /\ 0 \in 0..MaxEpoch /\ 0 \in 0..MaxSeq
  BY ControlPeersAssumption
<1>2. [owner |-> NoPeer, epoch |-> 0, seq |-> 0] \in Route
  BY <1>1 DEF Route
<1> QED
  BY <1>1, <1>2, AbsentIsPeer DEF Init, TypeOK

-----------------------------------------------------------------------------
(* What a step does to the commands and to the runtimes.                   *)

\* A command that nobody has asked now stays asked, is not awaited anew, and is
\* sent no more once it was broken off.
Kept(c) ==
  /\ commands[c] = NoCommand <=> commands'[c] = NoCommand
  /\ Pending(c)' =>
       /\ Pending(c)
       /\ commands'[c].session = commands[c].session /\ commands'[c].owner = commands[c].owner
       /\ commands[c].stage = "interrupted" => commands'[c].stage = "interrupted"

\* A runtime is the one there was, with another owner perhaps, or a new one.
Follows(new, old, p) ==
  new # NoRuntime =>
    \/ /\ old # NoRuntime /\ new.id = old.id /\ new.page = old.page
       /\ new.turn = "asking" => old.turn = "asking"
       /\ new.owners \subseteq old.owners \cup {p}
    \/ /\ old = NoRuntime /\ new.page = NoCommand /\ new.turn # "asking"
       /\ new.owners \subseteq {p}

\* The record of an open command.
LEMMA OpenIsCommand ==
  ASSUME TypeOK
  PROVE  /\ \A c \in Commands : Open(c) => commands[c] \in Command
         /\ \A r \in Command : r # NoCommand
         /\ \A r \in Command : [r EXCEPT !.resolved = TRUE] # NoCommand /\ [r EXCEPT !.stage = "interrupted"] # NoCommand
         /\ Done # NoCommand
BY CommandAssumption, CommandFields DEF Open, TypeOK

\* A future that is resolved keeps every command, and is not awaited.
LEMMA SettledKeeps ==
  ASSUME TypeOK, NEW c \in Commands, commands'[c] = Settled(c)
  PROVE  Kept(c) /\ ~Pending(c)'
<1>1. CASE Pending(c)
  <2>1. commands[c] \in Command /\ commands'[c] = [commands[c] EXCEPT !.resolved = TRUE]
    BY <1>1, OpenIsCommand DEF Pending, Settled
  <2>2. commands'[c].resolved = TRUE /\ commands'[c] # NoCommand
    BY <2>1, OpenIsCommand DEF Command
  <2> QED
    BY <1>1, <2>1, <2>2 DEF Kept, Pending, Open
<1>2. CASE ~Pending(c)
  BY <1>2 DEF Kept, Settled, Pending, Open
<1> QED
  BY <1>1, <1>2

\* So do the futures of all the commands of a set.
LEMMA ResolvedKeeps ==
  ASSUME TypeOK, NEW cs, commands' = Resolved(cs)
  PROVE  /\ \A c \in Commands : Kept(c)
         /\ \A c \in Commands \cap cs : ~Pending(c)'
<1> SUFFICES ASSUME NEW c \in Commands
             PROVE  Kept(c) /\ (c \in cs => ~Pending(c)')
  OBVIOUS
<1>1. CASE c \in cs
  BY <1>1, SettledKeeps DEF Resolved
<1>2. CASE c \notin cs
  BY <1>2 DEF Resolved, Kept, Pending, Open
<1> QED
  BY <1>1, <1>2

\* The work of a turn that is stopped: what is awaited still was broken off.
LEMMA StopWorkKeeps ==
  ASSUME TypeOK, NEW s, StopWork(s)
  PROVE  \A c \in Commands :
           /\ Kept(c)
           /\ Pending(c)' /\ commands'[c].session = s => commands'[c].stage = "interrupted"
<1> SUFFICES ASSUME NEW c \in Commands
             PROVE  /\ Kept(c)
                    /\ Pending(c)' /\ commands'[c].session = s
                         => commands'[c].stage = "interrupted"
  OBVIOUS
<1>1. CASE ~(Open(c) /\ commands[c].session = s)
  BY <1>1 DEF StopWork, Kept, Pending, Open
<1>2. CASE Open(c) /\ commands[c].session = s
  <2>1. commands'[c] = Stopped(c) /\ commands[c] \in Command
    BY <1>2, OpenIsCommand DEF StopWork
  <2>2. commands[c].stage \in {"sending", "interrupted", "waiting", "escaped"}
    BY <2>1 DEF Command
  <2>3. CASE commands[c].stage = "sending"
    <3>1. commands'[c] = [commands[c] EXCEPT !.stage = "interrupted"]
      BY <2>1, <2>3 DEF Stopped
    <3>2. commands'[c].stage = "interrupted" /\ commands'[c].resolved = commands[c].resolved
          /\ commands'[c].session = commands[c].session /\ commands'[c].owner = commands[c].owner
      BY <3>1, <2>1 DEF Command
    <3> QED
      BY <1>2, <2>1, <3>1, <3>2, OpenIsCommand DEF Kept, Pending, Open
  <2>4. CASE commands[c].stage = "waiting"
    BY <2>1, <2>4, SettledKeeps DEF Stopped
  <2>5. CASE commands[c].stage = "interrupted"
    BY <2>1, <2>5 DEF Stopped, Kept, Pending, Open
  <2>6. CASE commands[c].stage = "escaped"
    BY <1>2, <2>1, <2>6, OpenIsCommand DEF Stopped, Kept, Pending, Open
  <2> QED
    BY <2>2, <2>3, <2>4, <2>5, <2>6
<1> QED
  BY <1>1, <1>2

\* Those who are told that a session has ended await nothing any more.
LEMMA TellWaitingKeeps ==
  ASSUME TypeOK, NEW s, TellWaiting(s)
  PROVE  \A c \in Commands : Kept(c)
<1> SUFFICES ASSUME NEW c \in Commands
             PROVE  Kept(c)
  OBVIOUS
<1>1. CASE ~(Open(c) /\ commands[c].session = s)
  BY <1>1 DEF TellWaiting, Kept, Pending, Open
<1>2. CASE Open(c) /\ commands[c].session = s /\ commands[c].stage = "escaped"
  BY <1>2, OpenIsCommand DEF TellWaiting, Kept, Pending, Open
<1>3. CASE Open(c) /\ commands[c].session = s /\ commands[c].stage # "escaped"
  BY <1>3, SettledKeeps DEF TellWaiting
<1> QED
  BY <1>1, <1>2, <1>3

\* No step of a connection asks for anything.
LEMMA PeerKeepsCommands ==
  ASSUME TypeOK, NEW p \in Peers, FromPeer(p)
  PROVE  \A c \in Commands : Kept(c)
<1>1. CASE commands' = commands
  BY <1>1 DEF Kept, Pending, Open
<1>2. CASE \E cs : commands' = Resolved(cs)
  BY <1>2, ResolvedKeeps
<1>3. commands' = commands \/ \E cs : commands' = Resolved(cs)
  BY DEF FromPeer, Connect, Close, Release, LetGo, RegisterMic, RegisterSink, DuplicateSink,
         RegisterFrontend, Chatter, StreamEnds, Comment, Final, AnswerDeck, AnswerCue
<1> QED
  BY <1>1, <1>2, <1>3

Asks(c, s) == \/ AskAvatar(c, s)
              \/ \E kind \in {"load", "navigate"} : AskDeck(c, s, kind)

\* A session asks for one thing at a time.
LEMMA SessionKeepsCommands ==
  ASSUME TypeOK, NEW s \in Sessions, FromSession(s)
  PROVE  (\A c \in Commands : Kept(c)) \/ \E c \in Commands : Asks(c, s)
<1>1. CASE Sweep(s) \/ Finish(s)
  BY <1>1, TellWaitingKeeps DEF Sweep, Finish, Teardown
<1>2. CASE End(s)
  BY <1>2, StopWorkKeeps DEF End
<1>3. CASE Abandon(s) \/ Quiet(s) \/ AskNobody(s)
  BY <1>3 DEF Abandon, Quiet, AskNobody, Kept, Pending, Open
<1> QED
  BY <1>1, <1>2, <1>3 DEF FromSession, Asks

\* What is asked: the next command, of the renderer there is.
LEMMA AsksOne ==
  ASSUME TypeOK, NEW s \in Sessions, NEW c \in Commands, Asks(c, s)
  PROVE  /\ Has(s) /\ runtime[s].turn = "asking" /\ Undisturbed /\ NextCommand(c)
         /\ front[s] # NoPeer
         /\ commands'[c] \in Command /\ commands'[c].session = s
         /\ commands'[c].owner = front[s]
         /\ \A d \in Commands \ {c} : Kept(d)
         /\ runtime' = Using(s)
         /\ UNCHANGED <<peer, created, routes, utterances, captioning, overtaken>>
<1>1. PICK deck \in BOOLEAN : commands' = [commands EXCEPT ![c] = AskedOf(s, deck)]
  BY DEF Asks, AskAvatar, AskDeck
<1>2. /\ Has(s) /\ runtime[s].turn = "asking" /\ Undisturbed /\ NextCommand(c)
      /\ front[s] # NoPeer /\ runtime' = Using(s)
      /\ UNCHANGED <<peer, created, routes, utterances, captioning, overtaken>>
  BY DEF Asks, AskAvatar, AskDeck, Current, Alive, Proposable
<1>3. commands'[c] = AskedOf(s, deck) /\ commands'[c] \in Command
  BY <1>1, <1>2, AskedOfIsCommand DEF TypeOK
<1>4. commands'[c].session = s /\ commands'[c].owner = front[s]
  BY <1>3 DEF AskedOf
<1>5. \A d \in Commands \ {c} : Kept(d)
  BY <1>1 DEF TypeOK, Kept, Pending, Open
<1> QED
  BY <1>2, <1>3, <1>4, <1>5

\* A step of a command asks for nothing.
LEMMA CommandKeepsCommands ==
  ASSUME TypeOK, NEW c \in Commands, Sent(c) \/ Consume(c) \/ GiveUp(c) \/ Escape(c)
  PROVE  \A d \in Commands : Kept(d)
<1>1. \A d \in Commands \ {c} : Kept(d)
  BY DEF Sent, Consume, GiveUp, Escape, Closed, TypeOK, Kept, Pending, Open
<1>2. Open(c) /\ commands[c] \in Command
  BY OpenIsCommand DEF Sent, Consume, GiveUp, Escape
<1>3. CASE Sent(c)
  <2>1. commands'[c] = [commands[c] EXCEPT !.stage = "waiting"] /\ commands[c].stage = "sending"
    BY <1>3 DEF Sent, TypeOK
  <2>2. commands'[c] \in Command /\ commands'[c].session = commands[c].session
        /\ commands'[c].owner = commands[c].owner /\ commands'[c].resolved = commands[c].resolved
    BY <1>2, <2>1 DEF Command
  <2>3. Kept(c)
    BY <1>2, <2>1, <2>2, OpenIsCommand DEF Kept, Pending, Open
  <2> QED
    BY <1>1, <2>3
<1>4. CASE Consume(c) \/ GiveUp(c)
  <2>1. commands'[c] = Done
    BY <1>4 DEF Consume, GiveUp, Closed, TypeOK
  <2>2. Kept(c)
    BY <1>2, <2>1, OpenIsCommand DEF Kept, Pending, Open
  <2> QED
    BY <1>1, <2>2
<1>5. CASE Escape(c)
  <2>1. commands'[c] = [commands[c] EXCEPT !.stage = "escaped", !.resolved = TRUE]
    BY <1>5, <1>2 DEF Escape, TypeOK, Command
  <2>2. commands'[c] \in Command /\ commands'[c].resolved = TRUE
    BY <1>2, <2>1 DEF Command
  <2>3. Kept(c)
    BY <1>2, <2>1, <2>2, OpenIsCommand DEF Kept, Pending, Open
  <2> QED
    BY <1>1, <2>3
<1> QED
  BY <1>3, <1>4, <1>5

\* A runtime without another owner follows itself.
LEMMA SameFollows ==
  ASSUME NEW s, NEW p, runtime'[s] = runtime[s] \/ runtime'[s] = NoRuntime
  PROVE  Follows(runtime'[s], runtime[s], p)
BY DEF Follows

\* A runtime with another owner, or a new one, follows the one there was.
LEMMA RenewedFollows ==
  ASSUME TypeOK, NEW s \in Sessions, NEW p \in Peers
  PROVE  \A t \in Sessions : Follows(Renewed(s, p)[t], runtime[t], p)
<1>1. \A r \in Runtime : /\ Touched(r, p).id = r.id /\ Touched(r, p).page = r.page
                         /\ Touched(r, p).turn = r.turn
                         /\ Touched(r, p).owners = r.owners \cup {p}
  BY DEF Touched, Runtime
<1>2. /\ Touched(Fresh, p).page = NoCommand /\ Touched(Fresh, p).turn = "quiet"
      /\ Touched(Fresh, p).owners = {p}
  BY DEF Touched, Fresh
<1>3. CASE Has(s)
  <2>1. runtime[s] \in Runtime
    BY <1>3 DEF Has, TypeOK
  <2>2. Renewed(s, p) = [runtime EXCEPT ![s] = Touched(runtime[s], p)]
    BY <1>3 DEF Renewed
  <2> QED
    BY <1>1, <1>3, <2>1, <2>2 DEF TypeOK, Follows, Has
<1>4. CASE Creates(s)
  BY <1>2, <1>4 DEF Renewed, Creates, Has, TypeOK, Follows
<1>5. CASE ~Has(s) /\ ~Creates(s)
  BY <1>5 DEF Renewed, Follows
<1> QED
  BY <1>3, <1>4, <1>5

\* So does one whose lease a message renews.
LEMMA TouchFollows ==
  ASSUME TypeOK, NEW s \in Sessions, NEW p \in Peers, Touch(s, p)
  PROVE  \A t \in Sessions : Follows(runtime'[t], runtime[t], p)
BY RenewedFollows DEF Touch, Follows

\* The end of a handler leaves the runtimes, and the peer owns none of them.
LEMMA LetGoFollows ==
  ASSUME TypeOK, NEW p \in Peers, NEW leases \in [Sessions -> RuntimeOrNone],
         LetGo(p, leases), \A t \in Sessions : Follows(leases[t], runtime[t], p)
  PROVE  \A t \in Sessions :
           /\ Follows(runtime'[t], runtime[t], p)
           /\ Has(t)' => p \notin runtime'[t].owners
<1> SUFFICES ASSUME NEW t \in Sessions, runtime'[t] # NoRuntime
             PROVE  /\ Follows(runtime'[t], runtime[t], p)
                    /\ p \notin runtime'[t].owners
  BY DEF Has, Follows
<1>1. runtime'[t] = [leases[t] EXCEPT !.owners = @ \ {p}] /\ leases[t] # NoRuntime
  BY DEF LetGo
<1>2. leases[t] \in Runtime
  BY <1>1 DEF RuntimeOrNone
<1>3. /\ runtime'[t].id = leases[t].id /\ runtime'[t].page = leases[t].page
      /\ runtime'[t].turn = leases[t].turn /\ runtime'[t].owners = leases[t].owners \ {p}
  BY <1>1, <1>2 DEF Runtime
<1> QED
  BY <1>1, <1>3 DEF Follows

\* A step of a connection that answers nothing leaves the runtimes, and makes
\* nobody else an owner.
LEMMA PeerFollows ==
  ASSUME TypeOK, NEW p \in Peers, FromPeer(p),
         ~ \E c \in Commands, succeeded \in BOOLEAN : AnswerDeck(c, p, succeeded)
  PROVE  \A t \in Sessions : Follows(runtime'[t], runtime[t], p)
<1>1. CASE runtime' = runtime
  BY <1>1, SameFollows
<1>2. CASE \E s \in Sessions : Touch(s, p)
  BY <1>2, TouchFollows
<1>3. CASE \E s \in Sessions : TouchOrCreate(s, p)
  BY <1>3, RenewedFollows DEF TouchOrCreate
<1>4. CASE Release(p)
  BY <1>4, LetGoFollows DEF Release, TypeOK, Follows, RuntimeOrNone
<1>5. ASSUME NEW s \in Sessions, DuplicateSink(p, s)
      PROVE  \A t \in Sessions : Follows(runtime'[t], runtime[t], p)
  BY <1>5, RenewedShape, RenewedFollows, LetGoFollows DEF DuplicateSink
<1>6. ASSUME NEW c \in Commands, AnswerCue(c, p)
      PROVE  \E s \in Sessions : Touch(s, p)
  <2>1. commands[c] \in Command
    BY <1>6, OpenIsCommand DEF AnswerCue, Asked, Pending
  <2> QED
    BY <1>6, <2>1 DEF AnswerCue, Asked, Command
<1> QED
  BY <1>1, <1>2, <1>3, <1>4, <1>5, <1>6
     DEF FromPeer, Connect, Close, RegisterMic, RegisterSink, RegisterFrontend, Chatter,
         StreamEnds, Comment, Final

\* A step of a session leaves the runtimes, and makes nobody an owner.
LEMMA SessionFollows ==
  ASSUME TypeOK, NEW s \in Sessions, FromSession(s)
  PROVE  \A t \in Sessions : \A p : Follows(runtime'[t], runtime[t], p)
<1>1. Has(s) => runtime[s] \in Runtime
  BY DEF Has, TypeOK
<1>2. \A r \in Runtime :
        /\ \A x \in {"quiet", "active"} :
             /\ [r EXCEPT !.turn = x].id = r.id /\ [r EXCEPT !.turn = x].page = r.page
             /\ [r EXCEPT !.turn = x].turn = x /\ [r EXCEPT !.turn = x].owners = r.owners
        /\ LET e == [r EXCEPT !.ended = TRUE, !.turn = "quiet"]
           IN  e.id = r.id /\ e.page = r.page /\ e.turn = "quiet" /\ e.owners = r.owners
  BY DEF Runtime
<1>3. CASE Sweep(s) \/ Finish(s)
  BY <1>3, SameFollows DEF Sweep, Finish, Teardown, TypeOK
<1>4. CASE End(s)
  <2>1. runtime' = [runtime EXCEPT ![s] = [runtime[s] EXCEPT !.ended = TRUE, !.turn = "quiet"]]
    BY <1>1, <1>4 DEF End, Alive, TypeOK, Runtime
  <2> QED
    BY <1>1, <1>2, <1>4, <2>1 DEF End, Alive, Has, Follows, TypeOK
<1>5. CASE Abandon(s)
  BY <1>5, SameFollows DEF Abandon
<1>6. CASE Quiet(s)
  BY <1>1, <1>2, <1>6 DEF Quiet, Has, Follows, TypeOK
<1>7. CASE Has(s) /\ runtime' = Using(s)
  BY <1>1, <1>2, <1>7 DEF Using, Has, Follows, TypeOK
<1>8. AskNobody(s) \/ (\E c \in Commands : Asks(c, s)) => Has(s) /\ runtime' = Using(s)
  BY DEF AskNobody, Asks, AskAvatar, AskDeck, Current, Alive
<1> QED
  BY <1>3, <1>4, <1>5, <1>6, <1>7, <1>8 DEF FromSession, Asks

-----------------------------------------------------------------------------
(* Whoever has gone owns nothing.                                          *)

Nothing(q) ==
  /\ \A s \in Sessions : /\ Has(s) => q \notin runtime[s].owners
                        /\ q \notin {mic[s].owner, sink[s], front[s]}
  /\ \A c \in Commands : Pending(c) => commands[c].owner # q

NoRoute(q) == \A s \in Sessions : q \notin {mic[s].owner, sink[s], front[s]}

\* A runtime that follows one that is not owned by q is not owned by q.
LEMMA NotItsOwner ==
  ASSUME NEW q \in Peers, Nothing(q), NEW p, p # q,
         \A t \in Sessions : Follows(runtime'[t], runtime[t], p)
  PROVE  \A t \in Sessions : Has(t)' => q \notin runtime'[t].owners
BY DEF Nothing, Has, Follows

\* Nor does a command that was kept await an answer from it.
LEMMA NotAskedOfIt ==
  ASSUME NEW q \in Peers, Nothing(q), NEW c \in Commands, Kept(c)
  PROVE  Pending(c)' => commands'[c].owner # q
BY DEF Nothing, Kept

\* A step of another connection gives it nothing.
LEMMA OthersGiveNothing ==
  ASSUME TypeOK, NEW p \in Peers, NEW q \in Peers, p # q, FromPeer(p), Nothing(q)
  PROVE  Nothing(q)' /\ peer'[q] = peer[q]
<1>1. peer'[q] = peer[q]
  BY DEF FromPeer, Connect, Close, Release, LetGo, RegisterMic, RegisterSink, DuplicateSink,
         RegisterFrontend, Chatter, StreamEnds, Comment, Final, AnswerDeck, AnswerCue, TypeOK
<1>2. NoRoute(q)'
  <2>0. NoRoute(q) /\ q # NoPeer
    BY ControlPeersAssumption DEF Nothing, NoRoute
  <2>1. CASE UNCHANGED routes
    BY <2>0, <2>1 DEF NoRoute, routes
  <2>2. \A leases : LetGo(p, leases) => NoRoute(q)'
    BY <2>0 DEF LetGo, RemoveRoutes, NewEpoch, NoRoute, TypeOK
  <2>3. ASSUME NEW s \in Sessions, RegisterMic(p, s)
        PROVE  NoRoute(q)'
    BY <2>0, <2>3 DEF RegisterMic, NewEpoch, NoRoute, TypeOK
  <2>4. ASSUME NEW s \in Sessions,
               RegisterSink(p, s) \/ RegisterFrontend(p, s) \/ StreamEnds(p, s)
        PROVE  NoRoute(q)'
    BY <2>0, <2>4 DEF RegisterSink, RegisterFrontend, StreamEnds, NoRoute, TypeOK
  <2>5. ASSUME NEW s \in Sessions, NEW epoch, NEW seq, Final(p, s, epoch, seq)
        PROVE  NoRoute(q)'
    <3>1. \A t \in Sessions : mic'[t].owner = mic[t].owner
      BY <2>5 DEF Final, TypeOK, Route
    <3> QED
      BY <2>0, <2>5, <3>1 DEF Final, NoRoute
  <2> QED
    BY <2>1, <2>2, <2>3, <2>4, <2>5
       DEF FromPeer, Connect, Close, Release, DuplicateSink, Chatter, Comment, AnswerDeck, AnswerCue
<1>3. \A t \in Sessions : Has(t)' => q \notin runtime'[t].owners
  <2>1. ASSUME NEW c \in Commands, NEW succeeded \in BOOLEAN, AnswerDeck(c, p, succeeded)
        PROVE  \A t \in Sessions : Has(t)' => q \notin runtime'[t].owners
    <3> DEFINE s == peer[p].at
               r == [Touched(runtime[s], p) EXCEPT !.page = Shown(c, s, succeeded)]
    <3>1. Has(s) /\ runtime' = [runtime EXCEPT ![s] = r]
      BY <2>1 DEF AnswerDeck, Correlated
    <3>2. s \in Sessions => runtime[s] \in Runtime /\ r.owners = runtime[s].owners \cup {p}
      BY <3>1 DEF Has, TypeOK, Runtime, Touched
    <3> QED
      BY <3>1, <3>2 DEF Has, Nothing, TypeOK
  <2>2. CASE ~ \E c \in Commands, succeeded \in BOOLEAN : AnswerDeck(c, p, succeeded)
    BY <2>2, PeerFollows, NotItsOwner
  <2> QED
    BY <2>1, <2>2
<1>4. \A c \in Commands : Pending(c)' => commands'[c].owner # q
  BY PeerKeepsCommands, NotAskedOfIt
<1> QED
  BY <1>1, <1>2, <1>3, <1>4 DEF Nothing, NoRoute

\* A step of a connection itself leaves it there, or leaves it nothing.
LEMMA GoesWithNothing ==
  ASSUME TypeOK, NEW p \in Peers, FromPeer(p), peer'[p].conn = "away"
  PROVE  Nothing(p)'
<1>1. \A leases \in [Sessions -> RuntimeOrNone] :
        LetGo(p, leases) /\ (\A t \in Sessions : Follows(leases[t], runtime[t], p)) => Nothing(p)'
  <2> SUFFICES ASSUME NEW leases \in [Sessions -> RuntimeOrNone], LetGo(p, leases),
                      \A t \in Sessions : Follows(leases[t], runtime[t], p)
               PROVE  Nothing(p)'
    OBVIOUS
  <2>1. \A t \in Sessions : Has(t)' => p \notin runtime'[t].owners
    BY LetGoFollows
  <2>2. NoRoute(p)'
    BY ControlPeersAssumption DEF LetGo, RemoveRoutes, NewEpoch, NoRoute, TypeOK
  <2>3. \A c \in Commands : Pending(c)' => commands'[c].owner # p
    <3> DEFINE its == {c \in Commands : Open(c) /\ commands[c].owner = p}
    <3>1. /\ \A c \in Commands : Kept(c)
          /\ \A c \in Commands \cap its : ~Pending(c)'
      BY ResolvedKeeps DEF LetGo
    <3> QED
      BY <3>1 DEF Kept, Pending
  <2> QED
    BY <2>1, <2>2, <2>3 DEF Nothing, NoRoute
<1>2. CASE Release(p)
  BY <1>1, <1>2 DEF Release, TypeOK, RuntimeOrNone, Follows
<1>3. ASSUME NEW s \in Sessions, DuplicateSink(p, s)
      PROVE  Nothing(p)'
  BY <1>1, <1>3, RenewedShape, RenewedFollows DEF DuplicateSink
<1>4. CASE peer' = peer /\ peer[p].conn # "away"
  BY <1>4
<1>5. ASSUME NEW role, NEW s, Connect(p, role, s)
      PROVE  FALSE
  BY <1>5 DEF Connect, Absent, TypeOK
<1>6. CASE Close(p)
  BY <1>6, PeerFields DEF Close, TypeOK
<1>7. ASSUME NEW s, RegisterMic(p, s)
      PROVE  FALSE
  <2>1. peer'[p].conn \in {"leaving", "open"}
    BY <1>7, PeerFields DEF RegisterMic, Reading, TypeOK
  <2> QED
    BY <2>1
<1>8. ASSUME NEW s, NEW n, Comment(p, s, n)
      PROVE  FALSE
  <2>1. peer'[p].conn = peer[p].conn
    BY <1>8 DEF Comment, Heard, TypeOK, Peer
  <2> QED
    BY <1>8, <2>1 DEF Comment, Reading
<1> QED
  BY <1>2, <1>3, <1>4, <1>5, <1>6, <1>7, <1>8
     DEF FromPeer, RegisterSink, RegisterFrontend, Chatter, StreamEnds, Final, AnswerDeck,
         AnswerCue, Reading

\* No other step gives it anything.
LEMMA TheRestGivesNothing ==
  ASSUME TypeOK, NEW q \in Peers, Nothing(q),
         \/ \E s \in Sessions : FromSession(s)
         \/ \E u \in utterances : Admit(u) \/ Drop(u)
         \/ \E c \in Commands : Sent(c) \/ Consume(c) \/ GiveUp(c) \/ Escape(c)
  PROVE  Nothing(q)' /\ peer' = peer
<1> USE DEF routes
<1>1. ASSUME NEW s \in Sessions, FromSession(s)
      PROVE  Nothing(q)' /\ peer' = peer
  <2>1. peer' = peer /\ mic' = mic
    BY <1>1 DEF FromSession, Sweep, Finish, Teardown, End, Abandon, Quiet, AskNobody,
                AskAvatar, AskDeck
  <2>2. NoRoute(q)'
    <3>0. NoRoute(q) /\ q # NoPeer
      BY ControlPeersAssumption DEF Nothing, NoRoute
    <3>1. CASE Sweep(s) \/ Finish(s)
      BY <3>0, <3>1 DEF Sweep, Finish, Teardown, NoRoute, TypeOK
    <3>2. CASE UNCHANGED routes
      BY <3>0, <3>2 DEF NoRoute
    <3> QED
      BY <1>1, <3>1, <3>2 DEF FromSession, End, Abandon, Quiet, AskNobody, AskAvatar, AskDeck
  <2>3. \A t \in Sessions : Has(t)' => q \notin runtime'[t].owners
    BY <1>1, SessionFollows, NotItsOwner, ControlPeersAssumption
  <2>4. \A c \in Commands : Pending(c)' => commands'[c].owner # q
    <3>1. CASE \A c \in Commands : Kept(c)
      BY <3>1, NotAskedOfIt
    <3>2. ASSUME NEW c \in Commands, Asks(c, s)
          PROVE  \A d \in Commands : Pending(d)' => commands'[d].owner # q
      <4>1. commands'[c].owner = front[s] /\ \A d \in Commands \ {c} : Kept(d)
        BY <3>2, AsksOne
      <4> QED
        BY <4>1, NotAskedOfIt DEF Nothing
    <3> QED
      BY <1>1, <3>1, <3>2, SessionKeepsCommands
  <2> QED
    BY <2>1, <2>2, <2>3, <2>4 DEF Nothing, NoRoute
<1>2. ASSUME NEW u \in utterances, Admit(u)
      PROVE  Nothing(q)' /\ peer' = peer
  <2>1. UNCHANGED <<peer, mic, sink, front>>
    BY <1>2 DEF Admit
  <2>2. \A t \in Sessions : Has(t)' => q \notin runtime'[t].owners
    <3>1. u.session \in Sessions /\ runtime[u.session] \in Runtime
      BY <1>2 DEF Admit, Valid, OwnerValid, Has, TypeOK, Utterance
    <3>2. /\ runtime'[u.session].owners = runtime[u.session].owners
          /\ \A t \in Sessions \ {u.session} : runtime'[t] = runtime[t]
      BY <1>2, <3>1 DEF Admit, TypeOK, Runtime
    <3>3. Has(u.session)
      BY <1>2 DEF Admit, Valid, OwnerValid
    <3> QED
      BY <3>2, <3>3 DEF Nothing, Has
  <2>3. \A c \in Commands : Pending(c)' => commands'[c].owner # q
    BY <1>2, StopWorkKeeps, NotAskedOfIt DEF Admit
  <2> QED
    BY <2>1, <2>2, <2>3 DEF Nothing
<1>3. ASSUME NEW u \in utterances, Drop(u)
      PROVE  Nothing(q)' /\ peer' = peer
  BY <1>3 DEF Drop, Nothing, Has, Pending, Open
<1>4. ASSUME NEW c \in Commands, Sent(c) \/ Consume(c) \/ GiveUp(c) \/ Escape(c)
      PROVE  Nothing(q)' /\ peer' = peer
  <2>1. UNCHANGED <<peer, mic, sink, front, runtime>>
    BY <1>4 DEF Sent, Consume, GiveUp, Escape, Closed
  <2>2. \A d \in Commands : Pending(d)' => commands'[d].owner # q
    BY <1>4, CommandKeepsCommands, NotAskedOfIt
  <2> QED
    BY <2>1, <2>2 DEF Nothing, Has
<1> QED
  BY <1>1, <1>2, <1>3, <1>4

\* A step leaves those who have gone nothing.
LEMMA GoneStep ==
  ASSUME TypeOK, TheGoneOwnNothing, [Next]_vars
  PROVE  TheGoneOwnNothing'
<1>0. TheGoneOwnNothing = \A q \in Peers : peer[q].conn = "away" => Nothing(q)
  BY DEF TheGoneOwnNothing, Nothing
<1> SUFFICES ASSUME NEW q \in Peers, peer'[q].conn = "away"
             PROVE  Nothing(q)'
  BY DEF TheGoneOwnNothing, Nothing
<1>1. CASE UNCHANGED vars
  BY <1>0, <1>1 DEF vars, routes, Nothing, Has, Pending, Open
<1>2. ASSUME NEW p \in Peers, FromPeer(p)
      PROVE  Nothing(q)'
  <2>1. CASE p = q
    BY <1>2, <2>1, GoesWithNothing
  <2>2. CASE p # q
    <3>1. peer'[q] = peer[q]
      BY <1>2, <2>2 DEF FromPeer, Connect, Close, Release, LetGo, RegisterMic, RegisterSink, DuplicateSink,
         RegisterFrontend, Chatter, StreamEnds, Comment, Final, AnswerDeck, AnswerCue, TypeOK
    <3> QED
      BY <1>0, <1>2, <2>2, <3>1, OthersGiveNothing
  <2> QED
    BY <2>1, <2>2
<1>3. CASE \/ \E s \in Sessions : FromSession(s)
           \/ \E u \in utterances : Admit(u) \/ Drop(u)
           \/ \E c \in Commands : Sent(c) \/ Consume(c) \/ GiveUp(c) \/ Escape(c)
  <2>1. peer' = peer
    BY <1>3 DEF FromSession, Sweep, Finish, Teardown, End, Abandon, Quiet, AskNobody, AskAvatar,
                AskDeck, Admit, Drop, Sent, Consume, GiveUp, Closed, Escape
  <2> QED
    BY <1>0, <1>3, <2>1, TheRestGivesNothing
<1> QED
  BY <1>1, <1>2, <1>3 DEF Next

-----------------------------------------------------------------------------
(* A comment is taken once: the ingress remembers the newest number, and   *)
(* what it has forgotten the newest has left behind.                       *)

Remembered ==
  \A p \in Peers :
    /\ peer[p].seen # {} => \E h \in peer[p].seen : \A m \in peer[p].seen : m <= h
    /\ \A n \in peer[p].took :
         n \in peer[p].seen \/ \E m \in peer[p].seen : n + ReplayWindow < m

\* A comment that the ingress takes it has not taken yet.
LEMMA NotTakenBefore ==
  ASSUME TypeOK, Remembered, NEW p \in Peers, NEW n \in 1..MaxComment,
         ~Taken(n, peer[p].seen)
  PROVE  n \notin peer[p].took
<1>1. peer[p].seen \subseteq 1..MaxComment
  BY DEF TypeOK, Peer
<1> QED
  BY <1>1, ControlPeersAssumption DEF Remembered, Taken, InWindow

\* What is remembered after a comment was taken.
LEMMA HeardRemembers ==
  ASSUME NEW W \in Nat, W = ReplayWindow,
         NEW seen \in SUBSET Nat, NEW took \in SUBSET Nat, NEW n \in Nat,
         seen # {} => \E h \in seen : \A m \in seen : m <= h,
         \A k \in took : k \in seen \/ \E m \in seen : k + W < m,
         InWindow(n, seen)
  PROVE  /\ \E h \in Remember(n, seen) : \A m \in Remember(n, seen) : m <= h
         /\ \A k \in took \cup {n} :
              k \in Remember(n, seen) \/ \E m \in Remember(n, seen) : k + W < m
<1> DEFINE all == seen \cup {n}
<1>1. PICK h \in all : \A m \in all : m <= h
  <2>1. CASE seen = {}
    BY <2>1
  <2>2. CASE seen # {}
    <3>1. PICK g \in seen : \A m \in seen : m <= g
      BY <2>2
    <3> QED
      BY <3>1
  <2> QED
    BY <2>1, <2>2
<1>2. h \in Remember(n, seen) /\ n \in Remember(n, seen)
  <2>1. \A m \in all : h + W >= m
    BY <1>1
  <2>2. \A m \in all : n + W >= m
    BY DEF InWindow
  <2> QED
    BY <1>1, <2>1, <2>2 DEF Remember, InWindow
<1>3. \A m \in Remember(n, seen) : m \in all
  BY DEF Remember
<1>4. ASSUME NEW k \in took
      PROVE  k \in Remember(n, seen) \/ \E m \in Remember(n, seen) : k + W < m
  <2>1. CASE k \in seen /\ k \notin Remember(n, seen)
    <3>1. PICK m \in all : ~(k + W >= m)
      BY <2>1 DEF Remember, InWindow
    <3>2. k + W < h
      BY <1>1, <3>1
    <3> QED
      BY <1>2, <3>2
  <2>2. CASE k \notin seen
    <3>1. PICK m \in seen : k + W < m
      BY <2>2
    <3>2. k + W < h
      BY <1>1, <3>1
    <3> QED
      BY <1>2, <3>2
  <2> QED
    BY <2>1, <2>2
<1> QED
  BY <1>1, <1>2, <1>3, <1>4

\* A connection that is closed, or whose handler is, is otherwise as it was.
LEMMA ConnChanges ==
  ASSUME TypeOK, NEW p \in Peers,
         Close(p) \/ \E s \in Sessions : RegisterMic(p, s)
  PROVE  /\ \A q \in Peers : peer'[q].seen = peer[q].seen /\ peer'[q].took = peer[q].took
         /\ \A q \in Peers : peer'[q].conn = "open" => peer[q].conn = "open"
         /\ \A q \in Peers \ {p} : peer'[q] = peer[q]
<1>1. peer[p] \in Peer
  BY DEF TypeOK
<1>2. PICK x \in {"open", "closed", "leaving"} :
        /\ peer' = [peer EXCEPT ![p].conn = x]
        /\ x = "open" => peer[p].conn = "open"
  <2>1. CASE Close(p)
    BY <2>1 DEF Close
  <2>2. CASE \E s \in Sessions : RegisterMic(p, s)
    <3>1. peer' = [peer EXCEPT ![p].conn = IF @ = "closed" THEN "leaving" ELSE @]
          /\ peer[p].conn \in {"open", "closed"}
      BY <2>2 DEF RegisterMic, Reading
    <3> QED
      BY <3>1
  <2> QED
    BY <2>1, <2>2
<1>3. peer'[p] = [peer[p] EXCEPT !.conn = x] /\ \A q \in Peers \ {p} : peer'[q] = peer[q]
  BY <1>2 DEF TypeOK
<1>4. peer'[p].conn = x /\ peer'[p].seen = peer[p].seen /\ peer'[p].took = peer[p].took
  BY <1>1, <1>3 DEF Peer
<1> QED
  BY <1>2, <1>3, <1>4

\* What a step remembers.
LEMMA RememberedStep ==
  ASSUME TypeOK, Remembered, [Next]_vars
  PROVE  Remembered'
<1> DEFINE Same(q) == peer'[q].seen = peer[q].seen /\ peer'[q].took = peer[q].took
           None(q) == peer'[q].seen = {} /\ peer'[q].took = {}
<1>0. (\A q \in Peers : Same(q) \/ None(q)) => Remembered'
  BY DEF Remembered
<1>1. CASE peer' = peer
  BY <1>0, <1>1
<1>2. ASSUME NEW p \in Peers, NEW s \in Sessions, NEW n \in 1..MaxComment, Comment(p, s, n)
      PROVE  Remembered'
  <2> DEFINE seen == peer[p].seen
             took == peer[p].took
  <2>1. seen \in SUBSET Nat /\ took \in SUBSET Nat /\ n \in Nat /\ ReplayWindow \in Nat
    BY ControlPeersAssumption DEF TypeOK, Peer
  <2>2. peer'[p].seen = Remember(n, seen) /\ peer'[p].took = took \cup {n}
    BY <1>2 DEF Comment, Heard, TypeOK, Peer
  <2>3. InWindow(n, seen)
    BY <1>2 DEF Comment, Taken
  <2>4. /\ seen # {} => \E h \in seen : \A m \in seen : m <= h
        /\ \A k \in took : k \in seen \/ \E m \in seen : k + ReplayWindow < m
    BY DEF Remembered
  <2>5. /\ \E h \in Remember(n, seen) : \A m \in Remember(n, seen) : m <= h
        /\ \A k \in took \cup {n} :
             k \in Remember(n, seen) \/ \E m \in Remember(n, seen) : k + ReplayWindow < m
    <3> HIDE DEF seen, took
    <3> QED
      BY <2>1, <2>3, <2>4, HeardRemembers
  <2>6. \A q \in Peers \ {p} : Same(q)
    BY <1>2 DEF Comment, TypeOK
  <2> QED
    BY <2>2, <2>5, <2>6 DEF Remembered
<1>3. ASSUME NEW p \in Peers, NEW role, NEW s, Connect(p, role, s)
      PROVE  Remembered'
  <2>1. \A q \in Peers : Same(q) \/ None(q)
    BY <1>3 DEF Connect, Absent, TypeOK
  <2> QED
    BY <1>0, <2>1
<1>4. ASSUME NEW p \in Peers, \/ Close(p) \/ \E s \in Sessions : RegisterMic(p, s)
      PROVE  Remembered'
  <2>1. \A q \in Peers : Same(q)
    BY <1>4, ConnChanges
  <2> QED
    BY <1>0, <2>1
<1>5. ASSUME NEW p \in Peers, NEW leases, LetGo(p, leases)
      PROVE  Remembered'
  <2>1. \A q \in Peers : Same(q) \/ None(q)
    BY <1>5 DEF LetGo, Absent, TypeOK
  <2> QED
    BY <1>0, <2>1
<1>6. ASSUME NEW p \in Peers, FromPeer(p)
      PROVE  Remembered'
  BY <1>1, <1>2, <1>3, <1>4, <1>5, <1>6
     DEF FromPeer, Release, DuplicateSink, RegisterSink, RegisterFrontend, Chatter, StreamEnds,
         Final, AnswerDeck, AnswerCue
<1>7. CASE ~ \E p \in Peers : FromPeer(p)
  <2>1. peer' = peer
    BY <1>7 DEF Next, vars, FromSession, Sweep, Finish, Teardown, End, Abandon, Quiet, AskNobody,
         AskAvatar, AskDeck, Admit, Drop, Sent, Consume, GiveUp, Closed, Escape
  <2> QED
    BY <1>1, <2>1
<1> QED
  BY <1>6, <1>7

-----------------------------------------------------------------------------
(* The epochs of a Mic route grow, and what was overtaken is stale.        *)

OvertakenIsStale ==
  /\ \A s \in Sessions : mic[s].owner # NoPeer => mic[s].epoch # 0
  /\ \A u \in utterances : u.epoch <= mic[u.session].epoch
  /\ \A u \in overtaken :
       peer[u.peer].conn # "open" \/ (u.epoch # 0 /\ u.epoch < mic[u.session].epoch)

\* What a step does to a Mic route: nothing, a new epoch, or the next final.
RouteStep(s) ==
  \/ mic'[s] = mic[s]
  \/ mic'[s].epoch = mic[s].epoch + 1 /\ mic'[s].seq = 0
  \/ /\ mic'[s].epoch = mic[s].epoch /\ mic'[s].owner = mic[s].owner
     /\ mic'[s].seq > mic[s].seq

\* Who said something says it as a final of its live route, or as a comment.
Says(u) ==
  \/ /\ u.epoch = mic[u.session].epoch /\ mic[u.session].owner # NoPeer
     /\ u.seq > mic[u.session].seq /\ mic'[u.session].seq = u.seq
     /\ mic'[u.session].epoch = mic[u.session].epoch
  \/ /\ u.epoch = 0 /\ u.seq \in 1..MaxComment
     /\ ~Taken(u.seq, peer[u.peer].seen)

\* An utterance is added by somebody who speaks.
LEMMA SaidAdds ==
  ASSUME NEW p, NEW s, NEW epoch, NEW seq, Said(p, s, epoch, seq)
  PROVE  \A u \in utterances' \ utterances :
           u.peer = p /\ u.session = s /\ u.epoch = epoch /\ u.seq = seq
BY DEF Said

\* What a step does to the routes, to what was said and to the connections.
LEMMA SpeechStep ==
  ASSUME TypeOK, [Next]_vars
  PROVE  /\ \A s \in Sessions : RouteStep(s)
         /\ \A u \in utterances' \ utterances : Says(u)
         /\ \A u \in utterances \cap utterances' :
              peer'[u.peer].conn = "open" => peer[u.peer].conn = "open"
         /\ \A s \in Sessions :
              mic'[s].owner # NoPeer => mic'[s].owner = mic[s].owner \/ mic'[s].epoch = mic[s].epoch + 1
<1> DEFINE Owners == \A s \in Sessions : mic'[s].owner # NoPeer =>
                       mic'[s].owner = mic[s].owner \/ mic'[s].epoch = mic[s].epoch + 1
           Routes == (\A s \in Sessions : RouteStep(s)) /\ Owners
           Conns == \A u \in utterances \cap utterances' :
                      peer'[u.peer].conn = "open" => peer[u.peer].conn = "open"
           Talk == \A u \in utterances' \ utterances : Says(u)
<1>0. \A u \in utterances : u.peer \in Peers /\ u.session \in Sessions
  BY DEF TypeOK, Utterance
<1>1. mic' = mic => Routes
  BY DEF RouteStep
<1>2. peer' = peer => Conns
  OBVIOUS
<1>3. utterances' \subseteq utterances => Talk
  OBVIOUS
<1>4. ASSUME NEW p \in Peers, NEW leases, LetGo(p, leases)
      PROVE  Routes /\ Conns
  BY <1>0, <1>4 DEF LetGo, RemoveRoutes, NewEpoch, Absent, RouteStep, TypeOK
<1>5. ASSUME NEW p \in Peers, NEW s \in Sessions, RegisterMic(p, s)
      PROVE  Routes /\ Conns
  <2>1. Routes
    BY <1>5 DEF RegisterMic, NewEpoch, RouteStep, TypeOK
  <2>2. \A q \in Peers : peer'[q].conn = "open" => peer[q].conn = "open"
    BY <1>5, ConnChanges
  <2> QED
    BY <1>0, <2>1, <2>2
<1>6. ASSUME NEW p \in Peers, NEW s \in Sessions, NEW epoch \in 0..MaxEpoch,
             NEW seq \in 1..MaxSeq, Final(p, s, epoch, seq)
      PROVE  Routes /\ Talk
  <2>1. /\ mic'[s].seq = seq /\ mic'[s].epoch = mic[s].epoch /\ mic'[s].owner = mic[s].owner
        /\ \A t \in Sessions \ {s} : mic'[t] = mic[t]
        /\ mic[s].owner = p /\ epoch = mic[s].epoch /\ seq > mic[s].seq
    BY <1>6 DEF Final, IsLiveFinal, TypeOK, Route
  <2>2. Routes
    BY <2>1 DEF RouteStep
  <2>3. \A u \in utterances' \ utterances : u.session = s /\ u.epoch = epoch /\ u.seq = seq
    BY <1>6, SaidAdds DEF Final
  <2> QED
    BY <2>1, <2>2, <2>3, ControlPeersAssumption DEF Says
<1>7. ASSUME NEW p \in Peers, NEW s \in Sessions, NEW n \in 1..MaxComment, Comment(p, s, n)
      PROVE  Talk /\ Conns /\ mic' = mic
  <2>1. ~Taken(n, peer[p].seen) /\ Said(p, s, 0, n) /\ mic' = mic
    BY <1>7 DEF Comment, routes
  <2>2. Talk
    <3> SUFFICES ASSUME NEW u \in utterances' \ utterances
                 PROVE  Says(u)
      OBVIOUS
    <3>1. u.peer = p /\ u.epoch = 0 /\ u.seq = n
      BY <2>1, SaidAdds
    <3> QED
      BY <2>1, <3>1 DEF Says
  <2>3. \A q \in Peers : peer'[q].conn = peer[q].conn
    BY <1>7 DEF Comment, Heard, TypeOK, Peer
  <2> QED
    BY <1>0, <2>1, <2>2, <2>3
<1>8. ASSUME NEW p \in Peers, Close(p)
      PROVE  Conns
  BY <1>0, <1>8, ConnChanges
<1>9. ASSUME NEW p \in Peers, NEW role, NEW s, Connect(p, role, s)
      PROVE  Conns
  BY <1>0, <1>9 DEF Connect, TypeOK
<1>10. CASE \E p \in Peers : FromPeer(p)
  <2> PICK p \in Peers : FromPeer(p)
    BY <1>10
  <2>1. Routes
    BY <1>1, <1>4, <1>5, <1>6, <1>7
       DEF FromPeer, Connect, Close, Release, RegisterSink, DuplicateSink, RegisterFrontend, Chatter,
           StreamEnds, AnswerDeck, AnswerCue, routes
  <2>2. Talk
    BY <1>3, <1>6, <1>7
       DEF FromPeer, Connect, Close, Release, RegisterMic, RegisterSink, DuplicateSink,
           RegisterFrontend, Chatter, StreamEnds, AnswerDeck, AnswerCue
  <2>3. Conns
    BY <1>2, <1>4, <1>5, <1>7, <1>8, <1>9
       DEF FromPeer, Release, RegisterSink, DuplicateSink, RegisterFrontend, Chatter, StreamEnds,
           Final, AnswerDeck, AnswerCue
  <2> QED
    BY <2>1, <2>2, <2>3
<1>11. CASE ~ \E p \in Peers : FromPeer(p)
  <2>1. mic' = mic /\ peer' = peer
    BY <1>11 DEF Next, vars, routes, FromSession, Sweep, Finish, Teardown, End, Abandon, Quiet,
         AskNobody, AskAvatar, AskDeck, Admit, Drop, Sent, Consume, GiveUp, Closed, Escape
  <2>2. utterances' \subseteq utterances
    BY <1>11 DEF Next, vars, routes, FromSession, Sweep, Finish, Teardown, End, Abandon, Quiet,
         AskNobody, AskAvatar, AskDeck, Admit, Drop, Sent, Consume, GiveUp, Closed, Escape
  <2> QED
    BY <1>1, <1>2, <1>3, <2>1, <2>2
<1> QED
  BY <1>10, <1>11

\* What a step adds to those that were overtaken.
LEMMA OvertakenStep ==
  ASSUME TypeOK, OvertakenIsStale, [Next]_vars
  PROVE  \A u \in overtaken' \ overtaken :
           /\ u \in utterances
           /\ peer'[u.peer].conn # "open" \/ (u.epoch # 0 /\ u.epoch < mic'[u.session].epoch)
<1>0. \A u \in utterances : /\ u.peer \in Peers /\ u.session \in Sessions /\ u.epoch \in Nat
                            /\ mic[u.session].epoch \in Nat
  BY ControlPeersAssumption DEF TypeOK, Utterance, Route
<1> DEFINE Goal == \A u \in overtaken' \ overtaken :
                     /\ u \in utterances
                     /\ peer'[u.peer].conn # "open" \/ (u.epoch # 0 /\ u.epoch < mic'[u.session].epoch)
<1>1. ASSUME overtaken' \subseteq overtaken
      PROVE  Goal
  BY <1>1
<1>2. ASSUME NEW p \in Peers, Close(p)
      PROVE  Goal
  BY <1>2, PeerFields DEF Close, TypeOK
<1>3. ASSUME NEW p \in Peers, NEW leases, LetGo(p, leases)
      PROVE  Goal
  BY <1>3 DEF LetGo, Absent, TypeOK
<1>4. ASSUME NEW p \in Peers, NEW s \in Sessions, RegisterMic(p, s)
      PROVE  Goal
  <2>1. mic'[s].epoch = mic[s].epoch + 1
    BY <1>4 DEF RegisterMic, NewEpoch, TypeOK
  <2> QED
    BY <1>0, <1>4, <2>1 DEF RegisterMic, OvertakenIsStale
<1>5. ASSUME NEW p \in Peers, FromPeer(p)
      PROVE  Goal
  <2> HIDE DEF Goal
  <2> QED
    BY <1>1, <1>2, <1>3, <1>4, <1>5
     DEF FromPeer, Connect, Release, RegisterSink, DuplicateSink, RegisterFrontend, Chatter,
         StreamEnds, Comment, Final, AnswerDeck, AnswerCue
<1>6. CASE ~ \E p \in Peers : FromPeer(p)
  BY <1>1, <1>6 DEF Next, vars, FromSession, Sweep, Finish, Teardown, End, Abandon, Quiet,
         AskNobody, AskAvatar, AskDeck, Admit, Drop, Sent, Consume, GiveUp, Closed, Escape
<1> QED
  BY <1>5, <1>6

\* What was overtaken stays stale.
LEMMA StaleStep ==
  ASSUME TypeOK, OvertakenIsStale, [Next]_vars
  PROVE  OvertakenIsStale'
<1>0. TypeOK'
  BY TypeStep
<1>1. /\ \A s \in Sessions : mic[s].epoch \in Nat /\ mic'[s].epoch \in Nat
      /\ \A u \in utterances \cup utterances' : u.session \in Sessions /\ u.epoch \in Nat
      /\ overtaken \subseteq utterances /\ overtaken' \subseteq utterances'
  BY <1>0, ControlPeersAssumption DEF TypeOK, Utterance, Route
<1>2. \A s \in Sessions : mic'[s].epoch >= mic[s].epoch
  BY <1>1, SpeechStep DEF RouteStep
<1>3. \A s \in Sessions : mic'[s].owner # NoPeer => mic'[s].epoch # 0
  BY <1>1, <1>2, SpeechStep DEF OvertakenIsStale
<1>4. ASSUME NEW u \in utterances'
      PROVE  u.epoch <= mic'[u.session].epoch
  <2>1. CASE u \in utterances
    BY <1>1, <1>2, <2>1 DEF OvertakenIsStale
  <2>2. CASE u \notin utterances
    BY <1>1, <1>2, <2>2, SpeechStep DEF Says
  <2> QED
    BY <2>1, <2>2
<1>5. ASSUME NEW u \in overtaken'
      PROVE  peer'[u.peer].conn # "open" \/ (u.epoch # 0 /\ u.epoch < mic'[u.session].epoch)
  <2>1. CASE u \in overtaken
    BY <1>1, <1>2, <1>5, <2>1, SpeechStep DEF OvertakenIsStale
  <2>2. CASE u \notin overtaken
    BY <1>5, <2>2, OvertakenStep
  <2> QED
    BY <2>1, <2>2
<1> QED
  BY <1>3, <1>4, <1>5 DEF OvertakenIsStale

-----------------------------------------------------------------------------
(* A session awaits one answer at a time, and its page is older than what  *)
(* it awaits.                                                              *)

OnePending ==
  /\ \A c, d \in Commands :
       Pending(c) /\ Pending(d) /\ commands[c].session = commands[d].session => c = d
  /\ \A c \in Commands :
       Pending(c) /\ Has(commands[c].session) /\ runtime[commands[c].session].turn = "asking"
         => commands[c].stage = "interrupted"

PagesAreOld ==
  /\ \A c, d \in Commands : d < c /\ commands[c] # NoCommand => commands[d] # NoCommand
  /\ \A s \in Sessions : Has(s) /\ runtime[s].page # NoCommand =>
       /\ commands[runtime[s].page] # NoCommand
       /\ \A c \in Commands : Pending(c) /\ commands[c].session = s => runtime[s].page < c

\* A turn that may still ask could do so before.
Turns(t) == runtime'[t] # NoRuntime /\ runtime'[t].turn = "asking" => Has(t) /\ runtime[t].turn = "asking"

\* A session is on the page it was on, or on none if it is new.
SamePage(t) ==
  runtime'[t] # NoRuntime =>
    \/ Has(t) /\ runtime'[t].id = runtime[t].id /\ runtime'[t].page = runtime[t].page
    \/ ~Has(t) /\ runtime'[t].page = NoCommand

\* What an answer does to the runtime of its session.
LEMMA AnswerTurns ==
  ASSUME TypeOK, NEW p \in Peers, NEW c \in Commands, NEW succeeded \in BOOLEAN,
         AnswerDeck(c, p, succeeded)
  PROVE  /\ \A t \in Sessions : Turns(t)
         /\ \A t \in Sessions \ {peer[p].at} : SamePage(t)
         /\ peer[p].at \in Sessions /\ Has(peer[p].at)
         /\ runtime'[peer[p].at].page = Shown(c, peer[p].at, succeeded)
         /\ runtime'[peer[p].at].id = runtime[peer[p].at].id
<1> DEFINE s == peer[p].at
           r == [Touched(runtime[s], p) EXCEPT !.page = Shown(c, s, succeeded)]
<1>1. Has(s) /\ runtime' = [runtime EXCEPT ![s] = r]
  BY DEF AnswerDeck, Correlated
<1>2. s \in Sessions
  <2>1. commands[c] \in Command /\ commands[c].session = s
    BY OpenIsCommand DEF AnswerDeck, Asked, Pending
  <2> QED
    BY <2>1 DEF Command
<1>3. runtime[s] \in Runtime
  BY <1>1, <1>2 DEF Has, TypeOK
<1>4. r.id = runtime[s].id /\ r.turn = runtime[s].turn /\ r.page = Shown(c, s, succeeded)
  BY <1>3 DEF Touched, Runtime
<1>5. runtime'[s] = r /\ \A t \in Sessions \ {s} : runtime'[t] = runtime[t]
  BY <1>1, <1>2 DEF TypeOK
<1> QED
  BY <1>1, <1>2, <1>4, <1>5 DEF Turns, SamePage, Has

\* What the admission of an utterance does to the runtime of its session.
LEMMA AdmitTurns ==
  ASSUME TypeOK, NEW u \in utterances, Admit(u)
  PROVE  /\ \A t \in Sessions : SamePage(t)
         /\ \A t \in Sessions \ {u.session} : Turns(t)
<1>1. u.session \in Sessions /\ Has(u.session)
  BY DEF Admit, Valid, OwnerValid, TypeOK, Utterance
<1>2. runtime[u.session] \in Runtime
  BY <1>1 DEF Has, TypeOK
<1>3. /\ runtime'[u.session].id = runtime[u.session].id
      /\ runtime'[u.session].page = runtime[u.session].page
      /\ \A t \in Sessions \ {u.session} : runtime'[t] = runtime[t]
  BY <1>1, <1>2 DEF Admit, TypeOK, Runtime
<1> QED
  BY <1>1, <1>3 DEF SamePage, Turns, Has

\* Only an admission lets a turn ask, and only an answer moves the page.
LEMMA RuntimeStep ==
  ASSUME TypeOK, [Next]_vars, NEW t \in Sessions
  PROVE  /\ Turns(t) \/ \E u \in utterances : Admit(u) /\ u.session = t
         /\ \/ SamePage(t)
            \/ \E p \in Peers, c \in Commands, succeeded \in BOOLEAN :
                 AnswerDeck(c, p, succeeded) /\ peer[p].at = t
<1>0. (\E p : Follows(runtime'[t], runtime[t], p)) => Turns(t) /\ SamePage(t)
  BY DEF Follows, Turns, SamePage, Has
<1>1. CASE runtime' = runtime
  BY <1>1 DEF Turns, SamePage, Has
<1>2. ASSUME NEW p \in Peers, FromPeer(p)
      PROVE  /\ Turns(t)
             /\ \/ SamePage(t)
                \/ \E c \in Commands, succeeded \in BOOLEAN :
                     AnswerDeck(c, p, succeeded) /\ peer[p].at = t
  <2>1. CASE \E c \in Commands, succeeded \in BOOLEAN : AnswerDeck(c, p, succeeded)
    BY <2>1, AnswerTurns
  <2>2. CASE ~ \E c \in Commands, succeeded \in BOOLEAN : AnswerDeck(c, p, succeeded)
    BY <1>0, <1>2, <2>2, PeerFollows
  <2> QED
    BY <2>1, <2>2
<1>3. ASSUME NEW s \in Sessions, FromSession(s)
      PROVE  Turns(t) /\ SamePage(t)
  BY <1>0, <1>3, SessionFollows
<1>4. ASSUME NEW u \in utterances, Admit(u)
      PROVE  SamePage(t) /\ (Turns(t) \/ u.session = t)
  BY <1>4, AdmitTurns
<1>5. ASSUME NEW u \in utterances, Drop(u)
      PROVE  runtime' = runtime
  BY <1>5 DEF Drop
<1>6. ASSUME NEW c \in Commands, Sent(c) \/ Consume(c) \/ GiveUp(c) \/ Escape(c)
      PROVE  runtime' = runtime
  BY <1>6 DEF Sent, Consume, GiveUp, Escape, Closed
<1> QED
  BY <1>1, <1>2, <1>3, <1>4, <1>5, <1>6 DEF Next, vars

\* Every step keeps all commands, or one is asked.
LEMMA CommandsStep ==
  ASSUME TypeOK, [Next]_vars
  PROVE  \/ \A c \in Commands : Kept(c)
         \/ \E s \in Sessions, c \in Commands : Asks(c, s)
<1>1. CASE commands' = commands
  BY <1>1 DEF Kept, Pending, Open
<1>2. ASSUME NEW u \in utterances, Admit(u)
      PROVE  \A c \in Commands : Kept(c)
  BY <1>2, StopWorkKeeps DEF Admit
<1>3. ASSUME NEW u \in utterances, Drop(u)
      PROVE  commands' = commands
  BY <1>3 DEF Drop
<1> QED
  BY <1>1, <1>2, <1>3, PeerKeepsCommands, SessionKeepsCommands, CommandKeepsCommands
     DEF Next, vars

\* When something is asked, the session awaits nothing and asks no more.
LEMMA AskedAlone ==
  ASSUME TypeOK, OnePending, NEW s \in Sessions, NEW c \in Commands, Asks(c, s)
  PROVE  /\ \A d \in Commands \ {c} : ~(Pending(d)' /\ commands'[d].session = s)
         /\ runtime'[s].turn = "active" /\ SamePage(s)
         /\ \A t \in Sessions \ {s} : runtime'[t] = runtime[t]
<1>1. /\ Has(s) /\ runtime[s].turn = "asking" /\ Undisturbed
      /\ \A d \in Commands \ {c} : Kept(d)
      /\ runtime' = Using(s)
  BY AsksOne
<1>2. ASSUME NEW d \in Commands \ {c}, Pending(d)', commands'[d].session = s
      PROVE  FALSE
  <2>1. Pending(d) /\ commands[d].session = s
    BY <1>1, <1>2 DEF Kept
  <2>2. commands[d].stage = "interrupted"
    BY <1>1, <2>1 DEF OnePending
  <2> QED
    BY <1>1, <2>1, <2>2 DEF Undisturbed, Pending
<1>3. runtime[s] \in Runtime
  BY <1>1 DEF Has, TypeOK
<1>4. /\ runtime'[s].turn = "active" /\ runtime'[s].id = runtime[s].id
      /\ runtime'[s].page = runtime[s].page
      /\ \A t \in Sessions \ {s} : runtime'[t] = runtime[t]
  BY <1>1, <1>3 DEF Using, TypeOK, Runtime
<1> QED
  BY <1>1, <1>2, <1>4 DEF SamePage

\* One answer at a time is awaited after every step.
LEMMA OnePendingStep ==
  ASSUME TypeOK, OnePending, [Next]_vars
  PROVE  OnePending'
<1>1. CASE \A c \in Commands : Kept(c)
  <2>1. \A c, d \in Commands :
          Pending(c)' /\ Pending(d)' /\ commands'[c].session = commands'[d].session => c = d
    BY <1>1 DEF OnePending, Kept
  <2>2. ASSUME NEW c \in Commands, Pending(c)', runtime'[commands'[c].session] # NoRuntime,
               runtime'[commands'[c].session].turn = "asking"
        PROVE  commands'[c].stage = "interrupted"
    <3> DEFINE t == commands[c].session
    <3>1. Pending(c) /\ commands'[c].session = t
          /\ (commands[c].stage = "interrupted" => commands'[c].stage = "interrupted")
      BY <1>1, <2>2 DEF Kept
    <3>2. t \in Sessions
      BY <3>1, OpenIsCommand DEF Pending, Command
    <3>3. CASE Turns(t)
      BY <2>2, <3>1, <3>3 DEF Turns, OnePending
    <3>4. ASSUME NEW u \in utterances, Admit(u), u.session = t
          PROVE  commands'[c].stage = "interrupted"
      BY <2>2, <3>1, <3>4, StopWorkKeeps DEF Admit
    <3> QED
      BY <3>2, <3>3, <3>4, RuntimeStep
  <2> QED
    BY <2>1, <2>2 DEF OnePending, Has
<1>2. ASSUME NEW s \in Sessions, NEW c \in Commands, Asks(c, s)
      PROVE  OnePending'
  <2>1. /\ \A d \in Commands \ {c} : ~(Pending(d)' /\ commands'[d].session = s)
        /\ runtime'[s].turn = "active"
        /\ \A t \in Sessions \ {s} : runtime'[t] = runtime[t]
    BY <1>2, AskedAlone
  <2>2. commands'[c].session = s /\ \A d \in Commands \ {c} : Kept(d)
    BY <1>2, AsksOne
  <2>3. \A d, e \in Commands :
          Pending(d)' /\ Pending(e)' /\ commands'[d].session = commands'[e].session => d = e
    BY <2>1, <2>2 DEF OnePending, Kept
  <2>4. ASSUME NEW d \in Commands, Pending(d)', runtime'[commands'[d].session] # NoRuntime,
               runtime'[commands'[d].session].turn = "asking"
        PROVE  commands'[d].stage = "interrupted"
    <3>1. d # c /\ commands'[d].session # s
      BY <2>1, <2>2, <2>4
    <3>2. Pending(d) /\ commands'[d].session = commands[d].session
          /\ (commands[d].stage = "interrupted" => commands'[d].stage = "interrupted")
      BY <2>2, <2>4, <3>1 DEF Kept
    <3>3. commands[d].session \in Sessions
      BY <3>2, OpenIsCommand DEF Pending, Command
    <3>4. runtime'[commands[d].session] = runtime[commands[d].session]
      BY <2>1, <3>1, <3>2, <3>3
    <3> QED
      BY <2>4, <3>2, <3>4 DEF OnePending, Has
  <2> QED
    BY <2>3, <2>4 DEF OnePending, Has
<1> QED
  BY <1>1, <1>2, CommandsStep

\* The page is older than what is awaited after every step.
LEMMA PagesStep ==
  ASSUME TypeOK, OnePending, PagesAreOld, [Next]_vars
  PROVE  PagesAreOld'
<1>0. Commands \subseteq Nat
  BY ControlPeersAssumption
<1>1. \A c \in Commands : commands[c] # NoCommand => commands'[c] # NoCommand
  <2>1. ASSUME NEW s \in Sessions, NEW c \in Commands, Asks(c, s)
        PROVE  \A d \in Commands : commands[d] # NoCommand => commands'[d] # NoCommand
    BY <2>1, AsksOne, OpenIsCommand DEF Kept
  <2> QED
    BY <2>1, CommandsStep DEF Kept
<1>2. \A c, d \in Commands : d < c /\ commands'[c] # NoCommand => commands'[d] # NoCommand
  <2>1. CASE \A c \in Commands : Kept(c)
    BY <2>1 DEF Kept, PagesAreOld
  <2>2. ASSUME NEW s \in Sessions, NEW c \in Commands, Asks(c, s)
        PROVE  \A d, e \in Commands : e < d /\ commands'[d] # NoCommand => commands'[e] # NoCommand
    <3>1. NextCommand(c) /\ \A d \in Commands \ {c} : Kept(d)
      BY <2>2, AsksOne
    <3> QED
      BY <1>1, <3>1 DEF NextCommand, Kept, PagesAreOld
  <2> QED
    BY <2>1, <2>2, CommandsStep
<1>3. ASSUME NEW s \in Sessions, Has(s)', runtime'[s].page # NoCommand
      PROVE  /\ commands'[runtime'[s].page] # NoCommand
             /\ \A c \in Commands : Pending(c)' /\ commands'[c].session = s => runtime'[s].page < c
  <2>1. CASE SamePage(s)
    <3>1. Has(s) /\ runtime'[s].page = runtime[s].page
      BY <1>3, <2>1 DEF SamePage, Has
    <3>2. runtime[s].page \in Commands /\ commands[runtime[s].page] # NoCommand
          /\ \A c \in Commands : Pending(c) /\ commands[c].session = s => runtime[s].page < c
      BY <1>3, <3>1 DEF PagesAreOld, Has, TypeOK, Runtime
    <3>3. CASE \A c \in Commands : Kept(c)
      BY <1>1, <3>1, <3>2, <3>3 DEF Kept
    <3>4. ASSUME NEW t \in Sessions, NEW c \in Commands, Asks(c, t)
          PROVE  \A d \in Commands : Pending(d)' /\ commands'[d].session = s => runtime[s].page < d
      <4>1. NextCommand(c) /\ \A d \in Commands \ {c} : Kept(d)
        BY <3>4, AsksOne
      <4>2. runtime[s].page < c
        <5>1. commands[c] = NoCommand /\ ~(c < runtime[s].page)
          BY <3>2, <4>1 DEF NextCommand, PagesAreOld
        <5>2. runtime[s].page # c
          BY <3>2, <5>1
        <5>3. runtime[s].page \in Nat /\ c \in Nat
          BY <1>0, <3>2
        <5>4. \A m, n \in Nat : ~(n < m) /\ m # n => m < n
          OBVIOUS
        <5> QED
          BY <5>1, <5>2, <5>3, <5>4
      <4>3. ASSUME NEW d \in Commands \ {c}, Pending(d)', commands'[d].session = s
            PROVE  runtime[s].page < d
        <5>1. Pending(d) /\ commands[d].session = s
          BY <4>1, <4>3 DEF Kept
        <5> QED
          BY <3>2, <5>1
      <4> QED
        BY <4>2, <4>3
    <3> QED
      BY <1>1, <3>1, <3>2, <3>3, <3>4, CommandsStep
  <2>2. ASSUME NEW p \in Peers, NEW c \in Commands, NEW succeeded \in BOOLEAN,
               AnswerDeck(c, p, succeeded), peer[p].at = s
        PROVE  /\ commands'[runtime'[s].page] # NoCommand
               /\ \A d \in Commands : Pending(d)' /\ commands'[d].session = s => runtime'[s].page < d
    <3>1. Has(s) /\ runtime'[s].page = Shown(c, s, succeeded)
      BY <2>2, AnswerTurns
    <3>2. Pending(c) /\ commands[c].session = s /\ commands' = Resolved({c})
      BY <2>2 DEF AnswerDeck, Asked
    <3>3. /\ \A d \in Commands : Kept(d)
          /\ ~Pending(c)'
      BY <3>2, ResolvedKeeps
    <3>4. \A d \in Commands : ~(Pending(d)' /\ commands'[d].session = s)
      BY <3>2, <3>3 DEF Kept, OnePending
    <3>5. commands'[c] # NoCommand
      BY <1>1, <3>2 DEF Pending, Open
    <3>6. runtime'[s].page = c \/ runtime'[s].page = runtime[s].page
      BY <3>1 DEF Shown
    <3>7. runtime[s].page # NoCommand =>
            runtime[s].page \in Commands /\ commands[runtime[s].page] # NoCommand
      BY <3>1 DEF Has, TypeOK, Runtime, PagesAreOld
    <3> QED
      BY <1>1, <1>3, <3>4, <3>5, <3>6, <3>7
  <2> QED
    BY <2>1, <2>2, RuntimeStep
<1> QED
  BY <1>2, <1>3 DEF PagesAreOld

-----------------------------------------------------------------------------
(* The theorems.                                                           *)

Inv ==
  /\ TypeOK
  /\ TheGoneOwnNothing
  /\ Remembered
  /\ OvertakenIsStale
  /\ OnePending
  /\ PagesAreOld

\* The invariants hold initially.
LEMMA InvInit == Init => Inv
<1> SUFFICES ASSUME Init
             PROVE  Inv
  OBVIOUS
<1>1. TypeOK
  BY TypeInit
<1>2. TheGoneOwnNothing
  BY ControlPeersAssumption DEF Init, TheGoneOwnNothing, Has, Pending, Open
<1>3. Remembered
  BY DEF Init, Remembered, Absent
<1>4. OvertakenIsStale
  BY DEF Init, OvertakenIsStale
<1>5. OnePending /\ PagesAreOld
  BY DEF Init, OnePending, PagesAreOld, Pending, Open, Has
<1> QED
  BY <1>1, <1>2, <1>3, <1>4, <1>5 DEF Inv

\* Every step keeps the invariants.
LEMMA InvStep == Inv /\ [Next]_vars => Inv'
BY TypeStep, GoneStep, RememberedStep, StaleStep, OnePendingStep, PagesStep DEF Inv

\* They hold in every state.
THEOREM Invariants == Spec => []Inv
<1>1. Init => Inv
  BY InvInit
<1>2. Inv /\ [Next]_vars => Inv'
  BY InvStep
<1> QED
  BY <1>1, <1>2, PTL DEF Spec

\* Every variable keeps to its shape.
THEOREM TypeCorrect == Spec => []TypeOK
<1>1. Inv => TypeOK
  BY DEF Inv
<1> QED
  BY <1>1, Invariants, PTL

\* A connection that has gone keeps no session alive, no route, and no answer
\* waiting (the finally of handle_control).
THEOREM GoneOwnNothing == Spec => []TheGoneOwnNothing
<1>1. Inv => TheGoneOwnNothing
  BY DEF Inv
<1> QED
  BY <1>1, Invariants, PTL

\* No final transcript and no comment of a connection is taken twice
\* (accept_asr_final, CommentIngress._preflight).
THEOREM SaidOnce == Spec => TakenOnce
<1> DEFINE A == /\ \A s \in Sessions : Position(s)' = Position(s) \/ Before(Position(s), Position(s)')
                /\ \A u \in utterances' \ utterances :
                     IF u.epoch = 0 THEN u.seq \notin peer[u.peer].took
                     ELSE /\ Before(Position(u.session), <<u.epoch, u.seq>>)
                          /\ Position(u.session)' = <<u.epoch, u.seq>>
<1>1. Inv /\ [Next]_vars => [A]_vars
  <2> SUFFICES ASSUME TypeOK, Remembered, OvertakenIsStale, [Next]_vars
               PROVE  A
    BY DEF Inv
  <2>0. TypeOK'
    BY TypeStep
  <2>1. \A s \in Sessions : /\ mic[s].epoch \in Nat /\ mic'[s].epoch \in Nat
                           /\ mic[s].seq \in Nat /\ mic'[s].seq \in Nat
    BY <2>0, ControlPeersAssumption DEF TypeOK, Route
  <2>2. ASSUME NEW s \in Sessions
        PROVE  Position(s)' = Position(s) \/ Before(Position(s), Position(s)')
    BY <2>1, SpeechStep DEF RouteStep, Position, Before
  <2>3. ASSUME NEW u \in utterances' \ utterances
        PROVE  IF u.epoch = 0 THEN u.seq \notin peer[u.peer].took
               ELSE /\ Before(Position(u.session), <<u.epoch, u.seq>>)
                    /\ Position(u.session)' = <<u.epoch, u.seq>>
    <3>1. u.peer \in Peers /\ u.session \in Sessions
      BY <2>0 DEF TypeOK, Utterance
    <3>2. CASE u.epoch = 0
      <4>1. u.seq \in 1..MaxComment /\ ~Taken(u.seq, peer[u.peer].seen)
        BY <3>1, <3>2, SpeechStep DEF Says, OvertakenIsStale
      <4> QED
        BY <3>1, <3>2, <4>1, NotTakenBefore
    <3>3. CASE u.epoch # 0
      BY <2>1, <3>1, <3>3, SpeechStep DEF Says, Position, Before
    <3> QED
      BY <3>2, <3>3
  <2> QED
    BY <2>2, <2>3
<1> QED
  BY <1>1, Invariants, PTL DEF Spec, TakenOnce

\* Nothing is answered that its speaker, or the Mic's route, has left behind
\* (_mic_admission_guard, _comment_admission_guard).
THEOREM OnlyTheLiveIsAnswered == Spec => UtteranceOfTheLiveRoute
<1>1. Inv /\ [Next]_vars => [\A u \in overtaken : ~ Admit(u)]_vars
  <2> SUFFICES ASSUME TypeOK, OvertakenIsStale, NEW u \in overtaken, Admit(u)
               PROVE  FALSE
    BY DEF Inv
  <2>1. u \in utterances /\ u.session \in Sessions /\ mic[u.session].epoch \in Nat
    BY ControlPeersAssumption DEF TypeOK, Utterance, Route
  <2>2. /\ peer[u.peer].conn = "open"
        /\ u.epoch # 0 => mic[u.session].epoch = u.epoch
    BY DEF Admit, Valid, OwnerValid
  <2> QED
    BY <2>1, <2>2 DEF OvertakenIsStale
<1> QED
  BY <1>1, Invariants, PTL DEF Spec, UtteranceOfTheLiveRoute

\* The answer to an older command replaces no newer page
\* (accept_presentation_result).
THEOREM PagesGoForward == Spec => PagesMoveForward
<1> DEFINE A == \A s \in Sessions :
                  Has(s) /\ Has(s)' /\ runtime[s].page # NoCommand =>
                    \/ runtime'[s].id # runtime[s].id
                    \/ runtime'[s].page >= runtime[s].page
<1>1. Inv /\ [Next]_vars => [A]_vars
  <2> SUFFICES ASSUME TypeOK, PagesAreOld, [Next]_vars,
                      NEW s \in Sessions, Has(s), Has(s)', runtime[s].page # NoCommand
               PROVE  runtime'[s].page >= runtime[s].page
    BY DEF Inv
  <2>1. runtime[s].page \in Nat
    BY ControlPeersAssumption DEF Has, TypeOK, Runtime
  <2>2. CASE SamePage(s)
    BY <2>1, <2>2 DEF SamePage, Has
  <2>3. ASSUME NEW p \in Peers, NEW c \in Commands, NEW succeeded \in BOOLEAN,
               AnswerDeck(c, p, succeeded), peer[p].at = s
        PROVE  runtime'[s].page >= runtime[s].page
    <3>1. runtime'[s].page = c \/ runtime'[s].page = runtime[s].page
      BY <2>3, AnswerTurns DEF Shown
    <3>2. Pending(c) /\ commands[c].session = s
      BY <2>3 DEF AnswerDeck, Asked
    <3>3. runtime[s].page < c /\ c \in Nat
      BY <3>2, ControlPeersAssumption DEF PagesAreOld
    <3> QED
      BY <2>1, <3>1, <3>3
  <2> QED
    BY <2>2, <2>3, RuntimeStep
<1> QED
  BY <1>1, Invariants, PTL DEF Spec, PagesMoveForward

=============================================================================
