---------------------------- MODULE AudienceDesk ----------------------------
(***************************************************************************)
(* What the audience is promised: whoever sends an utterance or a comment  *)
(* gets one answer, an input opens at most one turn however often it is    *)
(* sent, and a session that is over opens none.                            *)
(***************************************************************************)
CONSTANTS
  Requests,   \* the inputs received, repetitions included
  Correlation \* what identifies the input of each request

VARIABLES
  answer,  \* what each caller has been told so far
  opened,  \* the inputs that opened a turn
  closed   \* is the session over?

deskVars == <<answer, opened, closed>>

Wait(r) ==
  /\ answer[r] = "unsent"
  /\ ~ closed
  /\ answer' = [answer EXCEPT ![r] = "waiting"]

\* Some of those who wait, or have just come, are rejected.
Turned(S) ==
  /\ \A r \in S : answer[r] \in {"unsent", "waiting"}
  /\ answer' = [r \in Requests |-> IF r \in S THEN "rejected" ELSE answer[r]]

\* A voice takes the place of a comment.
Displaced(r, s) ==
  /\ answer[r] = "unsent" /\ answer[s] = "waiting"
  /\ ~ closed
  /\ answer' = [answer EXCEPT ![r] = "waiting", ![s] = "rejected"]

\* One input opens its turn, and others are rejected in the same step.  Its
\* caller is rejected as well when the turn broke off as it was opened.
Open(r, told, S) ==
  /\ answer[r] = "waiting"
  /\ \A s \in S : answer[s] = "waiting"
  /\ r \notin S
  /\ Correlation[r] \notin opened
  /\ ~ closed
  /\ opened' = opened \cup {Correlation[r]}
  /\ answer' = [s \in Requests |-> IF s = r THEN told ELSE IF s \in S THEN "rejected" ELSE answer[s]]

DeskInit ==
  /\ answer = [r \in Requests |-> "unsent"]
  /\ opened = {}
  /\ closed = FALSE

Told ==
  \/ \E r \in Requests : Wait(r)
  \/ \E S \in SUBSET Requests : Turned(S)
  \/ \E r, s \in Requests : Displaced(r, s)

DeskNext ==
  \/ Told /\ UNCHANGED <<opened, closed>>
  \/ /\ \E r \in Requests, told \in {"accepted", "rejected"}, S \in SUBSET Requests : Open(r, told, S)
     /\ UNCHANGED closed
  \/ /\ closed' = TRUE /\ UNCHANGED opened
     /\ \E S \in SUBSET Requests : Turned(S)

DeskSpec == DeskInit /\ [][DeskNext]_deskVars
=============================================================================
