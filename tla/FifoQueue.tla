------------------------------ MODULE FifoQueue ------------------------------
(***************************************************************************)
(* What the fifo promises a caller who does not interleave: a bounded      *)
(* queue.  A write is all or nothing, a read returns the oldest elements   *)
(* (or, from the tail, the newest) and removes them when asked to.         *)
(***************************************************************************)
EXTENDS Naturals, Sequences

CONSTANTS Capacity, Data, Lengths

VARIABLES queue,  \* the elements, oldest first
          state,  \* what the last call returned
          dat     \* the elements it wrote or read

queueVars == <<queue, state, dat>>

Fewest(m, n) == IF m <= n THEN m ELSE n

First(n) == SubSeq(queue, 1, Fewest(n, Len(queue)))
Rest(n) == SubSeq(queue, Fewest(n, Len(queue)) + 1, Len(queue))
Last(n) == SubSeq(queue, Len(queue) - Fewest(n, Len(queue)) + 1, Len(queue))

Init == queue = <<>> /\ state = "FIFO_SUCCESS" /\ dat = <<>>

Write(elements) ==
  /\ dat' = elements
  /\ IF Len(queue) + Len(elements) <= Capacity
       THEN queue' = queue \o elements /\ state' = "FIFO_SUCCESS"
       ELSE UNCHANGED queue /\ state' = "FIFO_SPACE_NO_ENOUGH"

Enough(n) ==
  state' = IF n > Len(queue) THEN "FIFO_DATA_NO_ENOUGH" ELSE "FIFO_SUCCESS"

Read(n) == Enough(n) /\ dat' = First(n) /\ queue' \in {queue, Rest(n)}

ReadTail(n) == Enough(n) /\ dat' = Last(n) /\ queue' \in {queue, <<>>}

Discard(n) ==
  /\ n <= Len(queue)
  /\ queue' = Rest(n)
  /\ dat' = <<>>
  /\ state' = "FIFO_BUFFER_NULL"

Clear == queue' = <<>> /\ dat' = <<>> /\ state' = "FIFO_SUCCESS"

Next ==
  \/ \E n \in Lengths :
       \/ \E elements \in [1 .. n -> Data] : Write(elements)
       \/ Read(n)
       \/ ReadTail(n)
       \/ Discard(n)
  \/ Read(1)      \* one element, whatever the lengths a caller asks for
  \/ Clear

Spec == Init /\ [][Next]_queueVars
=============================================================================
