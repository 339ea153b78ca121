----------------------------- MODULE Subscription -----------------------------
(****************************************************************************)
(* The per-connection pipe of server/scene.py: a bounded queue a scene      *)
(* fills with put_nowait and the session's writer drains, and three flags.  *)
(* None of these operations suspends, so each is one atomic change of the   *)
(* pipe.                                                                    *)
(****************************************************************************)
EXTENDS Naturals, Sequences

CONSTANT QueueMax       \* maxsize of the asyncio.Queue, 256 in the code

ASSUME QueueMaxAssumption == QueueMax \in Nat \ {0}

Sentinel == [type |-> "none"]     \* the None that ends a writer

NewSubscription(live) ==
  [queue |-> <<>>, live |-> live, closed |-> FALSE, stale |-> FALSE]

IsFull(sub) == Len(sub.queue) >= QueueMax

PutNowait(sub, msg) == [sub EXCEPT !.queue = Append(@, msg)]

(* Mistakes to be caught: a dropped frame leaves no trace; a full queue     *)
(* gives up its oldest frame and lets the snapshot overtake the rest.       *)
ForgetfulSendOrDrop(sub, msg) == IF IsFull(sub) THEN sub ELSE PutNowait(sub, msg)

OvertakingSendOrDrop(sub, msg) ==
  IF IsFull(sub) THEN [sub EXCEPT !.queue = <<msg>> \o Tail(@)] ELSE PutNowait(sub, msg)

SendOrDrop(sub, msg) ==
  IF IsFull(sub) THEN [sub EXCEPT !.stale = TRUE] ELSE PutNowait(sub, msg)

(* On QueueFull the delta is replaced by a snapshot offered to the same     *)
(* queue; nothing has run in between.                                       *)
SendDelta(sub, delta, snap) ==
  IF IsFull(sub) THEN SendOrDrop(sub, snap) ELSE PutNowait(sub, delta)

LossyClose(sub) ==          \* a mistake to be caught: no second try
  IF sub.closed THEN sub
  ELSE [sub EXCEPT !.closed = TRUE,
                   !.queue = IF IsFull(sub) THEN @ ELSE Append(@, Sentinel)]

(* Idempotent; a full queue gives up its oldest frame to the sentinel.      *)
Close(sub) ==
  IF sub.closed THEN sub
  ELSE [sub EXCEPT !.closed = TRUE,
                   !.queue = Append(IF IsFull(sub) THEN Tail(@) ELSE @, Sentinel)]

==============================================================================
