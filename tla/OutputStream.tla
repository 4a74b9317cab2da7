---------------------------- MODULE OutputStream ----------------------------
(***************************************************************************)
(* What a listener is promised of one output stream, without turns, tasks, *)
(* leases, replacements or Sound: speeches begin in their order, each as a *)
(* generation newer than all that have begun, and take the stream at once; *)
(* only the latest may fall silent and be taken up again; one that is over *)
(* is never heard again.  Cutover implements it.                           *)
(***************************************************************************)
EXTENDS Integers

CONSTANTS
  Speeches,
  Before    \* the speeches that come before a speech

NotBegun == -1

VARIABLES
  generation, \* of a speech that has begun
  over,       \* the speeches that have begun and ended
  heard       \* the speeches whose audio the stream lets out now

streamVars == <<generation, over, heard>>

Begun     == {s \in Speeches : generation[s] # NotBegun}
Latest(s) == s \in Begun /\ \A u \in Begun : generation[u] <= generation[s]

StreamInit ==
  /\ generation = [s \in Speeches |-> NotBegun]
  /\ over = {}
  /\ heard = {}

Begin(s) ==
  /\ s \notin Begun
  /\ Begun \subseteq Before[s]
  /\ generation'[s] \in Nat
  /\ \A u \in Begun : generation[u] < generation'[s]
  /\ generation' = [generation EXCEPT ![s] = generation'[s]]
  /\ heard' = {s}
  /\ UNCHANGED over

End(s) ==
  /\ s \in Begun \ over
  /\ over' = over \cup {s}
  /\ heard' = heard \ {s}
  /\ UNCHANGED generation

FallSilent ==
  /\ heard' = {}
  /\ UNCHANGED <<generation, over>>

TakeUp(s) ==
  /\ Latest(s)
  /\ s \notin over
  /\ heard' = {s}
  /\ UNCHANGED <<generation, over>>

StreamNext ==
  \/ \E s \in Speeches : Begin(s) \/ End(s) \/ TakeUp(s)
  \/ FallSilent

StreamSpec == StreamInit /\ [][StreamNext]_streamVars
=============================================================================
