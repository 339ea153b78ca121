--------------------------- MODULE SequenceTracker ---------------------------
(****************************************************************************)
(* The per-scene counter of the server and the per-subscription tracker of  *)
(* a receiver (protocol/sequence.py).  A tracker is its one field, the last *)
(* sequence number allocated or accepted; 0 is a fresh tracker.             *)
(****************************************************************************)
EXTENDS Naturals

Fresh == 0

NextServer(cur) == cur + 1

(* observe_server returns "caller drops the frame" or raises; only an       *)
(* accepted frame moves the tracker.                                        *)
Verdicts == {"accept", "replay", "gap", "invalid"}

(* A mistake to be caught: a gap is taken for the next frame.               *)
GapBlindObserve(cur, seq) == IF cur # Fresh /\ seq <= cur THEN "replay" ELSE "accept"

ObserveServer(cur, seq) ==
  IF cur = Fresh   THEN IF seq < 1 THEN "invalid" ELSE "accept"
  ELSE IF seq = cur + 1 THEN "accept"
  ELSE IF seq <= cur    THEN "replay"
  ELSE "gap"

ObserveSnapshot(cur, seq) == IF seq >= 1 THEN seq ELSE cur

==============================================================================
