---------------------------- MODULE SoundControl ----------------------------
(***************************************************************************)
(* The control connection to Sound for one output stream: what             *)
(* TransportControlDispatch (transport_dispatch.py) and FlushAdmission     *)
(* (streaming_contracts.py) remember of it, the two directions of the      *)
(* WebSocket, and Sound itself, an external program of which only the      *)
(* answers the dispatcher reacts to are modelled.                          *)
(*                                                                         *)
(* The connection is ordered and loses nothing while it lasts; Sound may   *)
(* be arbitrarily slow.                                                    *)
(***************************************************************************)
EXTENDS Integers, Sequences

VARIABLES
  sink,        \* is Sound registered for the stream?
  toSound,     \* commands on their way
  fromSound,   \* answers on their way
  admission,   \* FlushAdmission._pending: the request waiting for its answer
  admitted,    \* FlushAdmission._admitted: the request last acknowledged
  readyWaiter, \* _ready_waiters: the future a sent command waits on
  reportable,  \* _leases: the epoch whose end and finish are accepted
  applied,     \* Sound: the flush requests it has carried out
  draining     \* Sound: epochs that ended and are not yet reported finished

dispatchVars == <<admission, admitted, readyWaiter, reportable>>
soundVars    == <<applied, draining>>
controlVars  == <<sink, toSound, fromSound, dispatchVars, soundVars>>

NoRequest   == 0
NoFlush     == [request |-> NoRequest, retried |-> FALSE]
Unregistered == -1

Command(e) == [kind |-> "command", epoch |-> e, request |-> NoRequest]
End(e)     == [kind |-> "end", epoch |-> e, request |-> NoRequest]
Flush(r)   == [kind |-> "flush", epoch |-> 0, request |-> r]

Ready       == [kind |-> "ready", epoch |-> 0, request |-> NoRequest]
Finished(e) == [kind |-> "finished", epoch |-> e, request |-> NoRequest]
Ack(kind, r) == [kind |-> kind, epoch |-> 0, request |-> r]

Messages ==
  [kind : {"command", "end", "flush", "ready", "finished", "applied", "replayed"},
   epoch : Nat, request : Nat]

Send(messages) == toSound' = IF sink THEN toSound \o messages ELSE toSound

\* A waiter whose task is cancelled is done, and a later answer finds none.
DropWaiter(cancelled) == readyWaiter' = IF cancelled THEN "none" ELSE readyWaiter

ControlInit ==
  /\ sink = TRUE
  /\ toSound = <<Command(0)>>
  /\ fromSound = << >>
  /\ admission = NoFlush
  /\ admitted = NoRequest
  /\ readyWaiter = "none"
  /\ reportable = 0
  /\ applied = {}
  /\ draining = {}

-----------------------------------------------------------------------------
(* FlushAdmission                                                          *)

\* begin
BeginFlush(r) == admission' = [request |-> r, retried |-> FALSE] /\ admitted' = NoRequest

\* advance: one repetition, then the request is given up.
RetryFlush ==
  /\ admission # NoFlush
  /\ ~ admission.retried
  /\ admission' = [admission EXCEPT !.retried = TRUE]
  /\ Send(<<Flush(admission.request)>>)
  /\ UNCHANGED <<sink, fromSound, admitted, readyWaiter, reportable, soundVars>>

GiveUpFlush ==
  /\ admission # NoFlush
  /\ admission' = NoFlush
  /\ UNCHANGED <<sink, toSound, fromSound, admitted, readyWaiter, reportable, soundVars>>

Answers(m) == m.kind \in {"applied", "replayed"} /\ m.request = admission.request

-----------------------------------------------------------------------------
(* Sound                                                                   *)

Reply(messages) ==
  /\ toSound' = Tail(toSound)
  /\ fromSound' = fromSound \o messages
  /\ UNCHANGED <<sink, dispatchVars>>

SoundTakes(kind) == toSound # << >> /\ Head(toSound).kind = kind

SoundIsReady == SoundTakes("command") /\ Reply(<<Ready>>) /\ UNCHANGED soundVars

SoundFlushes ==
  LET r == Head(toSound).request IN
  /\ SoundTakes("flush")
  /\ Reply(<<Ack(IF r \in applied THEN "replayed" ELSE "applied", r)>>)
  /\ applied' = applied \cup {r}
  /\ UNCHANGED draining

\* Sound refuses a flush by not acknowledging it.
SoundRefuses == SoundTakes("flush") /\ Reply(<< >>) /\ UNCHANGED soundVars

SoundDrains ==
  /\ SoundTakes("end")
  /\ Reply(<< >>)
  /\ draining' = draining \cup {Head(toSound).epoch}
  /\ UNCHANGED applied

SoundFinishes(e) ==
  /\ e \in draining
  /\ draining' = draining \ {e}
  /\ fromSound' = Append(fromSound, Finished(e))
  /\ UNCHANGED <<sink, toSound, dispatchVars, applied>>

-----------------------------------------------------------------------------
\* SinkRegistration and _dispatch_start
RegisterSink ==
  /\ ~ sink
  /\ sink' = TRUE
  /\ toSound' = <<Command(0)>>
  /\ reportable' = 0
  /\ UNCHANGED <<fromSound, admission, admitted, readyWaiter, soundVars>>

\* _discard, and with the connection everything that was on its way
Discard ==
  /\ sink
  /\ sink' = FALSE
  /\ toSound' = << >> /\ fromSound' = << >>
  /\ admission' = NoFlush /\ admitted' = NoRequest
  /\ readyWaiter' = "none"
  /\ reportable' = Unregistered
  /\ draining' = {}
  /\ UNCHANGED applied
=============================================================================
