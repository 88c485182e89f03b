------------------------------- MODULE Filter -------------------------------
(* Chunk.filter, which the unsafeRemove of queue.ts and pubsub.ts apply to   *)
(* all that a queue holds.                                                  *)
EXTENDS Naturals, Sequences

(* The elements of s that belong to P, in their order.                      *)
Keep(s, P) ==
  LET kept[n \in 0..Len(s)] ==
        IF n = 0 THEN <<>>
        ELSE IF s[n] \in P THEN Append(kept[n - 1], s[n]) ELSE kept[n - 1]
  IN kept[Len(s)]
=============================================================================
