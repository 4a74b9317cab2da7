---------------------------- MODULE OutputFence ----------------------------
(***************************************************************************)
(* SchedulerOutputFence (src/orchestrator/scheduler_reflex.py) for one     *)
(* output stream: which generation of generated audio owns the stream, and *)
(* how a replacement takes it over once Sound has flushed the old audio.   *)
(*                                                                         *)
(* The fence is a passive object whose methods never await; each is an     *)
(* operator from a fence to a fence, so that a handler that calls several  *)
(* of them in one step composes them.                                      *)
(*                                                                         *)
(* A generation, its cancellation epoch and its SSRC are one number here:  *)
(* the code derives the other two from the first.                          *)
(***************************************************************************)
EXTENDS Integers

NoEpoch == -1
NoLease == [turn |-> 0, epoch |-> NoEpoch]
Lease   == [turn : Nat, epoch : Nat] \cup {NoLease}

\* _PendingReplacement; its flush is known by its request number.
NoReplacement == [previous |-> NoLease, lease |-> NoLease, request |-> 0]
Replacement   == [previous : Lease, lease : Lease, request : Nat]

Fence ==
  [lease : Lease,                \* _leases
   pending : Replacement,        \* _pending
   acknowledged : Replacement,   \* _acknowledged
   retained : Lease,             \* _retained
   last : Nat \cup {NoEpoch},    \* _last_generation
   requests : Nat]               \* _flush_sequence

FenceInit ==
  [lease |-> NoLease, pending |-> NoReplacement, acknowledged |-> NoReplacement,
   retained |-> NoLease, last |-> NoEpoch, requests |-> 0]

HasLease(f)    == f.lease # NoLease
HasPlayback(f) == HasLease(f) \/ f.pending # NoReplacement \/ f.acknowledged # NoReplacement

\* Broken: a stream without a lease starts again from the first generation.
NewLeaseFromActive(f, t) ==
  [turn |-> t, epoch |-> (IF HasLease(f) THEN f.lease.epoch ELSE NoEpoch) + 1]

\* Broken: the next generation is the last one.
NewLeaseNotNext(f, t) ==
  [turn |-> t, epoch |-> IF HasLease(f) THEN f.lease.epoch ELSE f.last]

\* The generation a new lease gets: the one after the active lease, and after
\* the highest one ever given only when no lease is active.
NewLease(f, t) ==
  [turn |-> t, epoch |-> (IF HasLease(f) THEN f.lease.epoch ELSE f.last) + 1]

\* activate_for_turn
Activate(f, t) ==
  [f EXCEPT !.lease = NewLease(f, t), !.last = NewLease(f, t).epoch,
            !.pending = NoReplacement, !.acknowledged = NoReplacement,
            !.retained = NoLease]

\* interrupt_for_turn
Interrupt(f, t) ==
  [f EXCEPT !.last = NewLease(f, t).epoch,
            !.requests = @ + 1,
            !.pending = [previous |-> f.lease, lease |-> NewLease(f, t),
                         request |-> f.requests + 1],
            !.retained = NoLease]

Acknowledge(f, request) ==
  IF f.pending # NoReplacement /\ f.pending.request = request
  THEN [f EXCEPT !.lease = f.pending.lease, !.acknowledged = f.pending,
                 !.pending = NoReplacement]
  ELSE f

\* abandon_replacement
Abandon(f) ==
  IF f.pending # NoReplacement THEN [f EXCEPT !.pending = NoReplacement]
  ELSE IF f.acknowledged # NoReplacement /\ f.lease = f.acknowledged.lease
  THEN [f EXCEPT !.lease = f.acknowledged.previous,
                 !.retained = f.acknowledged.previous,
                 !.acknowledged = NoReplacement]
  ELSE [f EXCEPT !.acknowledged = NoReplacement]

\* commit_replacement
Committable(f, epoch) ==
  /\ f.acknowledged # NoReplacement
  /\ f.acknowledged.lease.epoch = epoch
  /\ f.lease = f.acknowledged.lease

Commit(f) == [f EXCEPT !.acknowledged = NoReplacement, !.retained = NoLease]

\* retain_playback
Retain(f) == IF HasLease(f) THEN [f EXCEPT !.retained = f.lease] ELSE f

\* Broken: who leases the stream is checked, the epoch is not.
CanEmitAnyEpoch(f, epoch, turn) ==
  HasLease(f) /\ (f.pending # NoReplacement \/ f.retained = f.lease \/ f.lease.turn = turn)

\* can_emit, asked while `turn` is the scheduler's active turn
CanEmit(f, epoch, turn) ==
  /\ HasLease(f)
  /\ IF f.pending # NoReplacement
     THEN epoch = f.pending.previous.epoch
     ELSE /\ epoch = f.lease.epoch
          /\ f.retained = f.lease \/ f.lease.turn = turn

Finishable(f, epoch) ==
  /\ HasLease(f)
  /\ f.pending = NoReplacement
  /\ epoch = f.lease.epoch

\* finish
Release(f) == [f EXCEPT !.lease = NoLease, !.retained = NoLease]

\* revoke_stream: everything but the high water mark goes.
Revoke(f) ==
  [f EXCEPT !.lease = NoLease, !.pending = NoReplacement,
            !.acknowledged = NoReplacement, !.retained = NoLease]
=============================================================================
