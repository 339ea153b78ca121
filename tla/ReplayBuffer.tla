----------------------------- MODULE ReplayBuffer -----------------------------
(****************************************************************************)
(* The bounded ring of recent emissions a scene keeps so that a receiver    *)
(* can resume (server/replay_buffer.py).  A buffer is a sequence of records *)
(* with a field seq, oldest first, pushed in increasing order of seq.       *)
(****************************************************************************)
EXTENDS Naturals, Sequences

CONSTANT ReplayMax      \* the ring's capacity, 256 in the code

ASSUME ReplayMaxAssumption == ReplayMax \in Nat \ {0}

(* deque(maxlen=cap).append: a full ring forgets its oldest record.         *)
Push(buffer, record) ==
  IF Len(buffer) = ReplayMax THEN Append(Tail(buffer), record)
                             ELSE Append(buffer, record)

(* A request is covered when the oldest record is not past the first        *)
(* missing one; an empty ring covers every request.                         *)
NearlyCovered(buffer, since) ==     \* a mistake to be caught: off by one
  buffer = <<>> \/ since + 2 >= buffer[1].seq

Covered(buffer, since) == buffer = <<>> \/ since + 1 >= buffer[1].seq

(* The number of records the filter `r.seq > since_seq` leaves out: the     *)
(* records are in increasing order, so they are a prefix.                   *)
SkippedExclusive(buffer, since) ==  \* a mistake to be caught: >= for >
  CHOOSE n \in 0..Len(buffer) :
    \A i \in 1..Len(buffer) : (buffer[i].seq >= since) <=> (i > n)

Skipped(buffer, since) ==
  CHOOSE n \in 0..Len(buffer) :
    \A i \in 1..Len(buffer) : (buffer[i].seq > since) <=> (i > n)

RecordsAfter(buffer, since) ==
  SubSeq(buffer, Skipped(buffer, since) + 1, Len(buffer))

==============================================================================
