------------------------------ MODULE FifoCalls ------------------------------
(***************************************************************************)
(* One context calling the fifo of zf_common_fifo.c, one call at a time.   *)
(* CheckedSpec is the caller who never reads one element from an empty     *)
(* fifo, removes no more than there is, and takes the tail only while it   *)
(* does not wrap; TailSpec adds the callers that take the tail at any time.*)
(***************************************************************************)
EXTENDS FifoStruct

CONSTANT Lengths  \* the lengths the caller asks for
ASSUME LengthsAssumption == Lengths \subseteq 0 .. Max + 1

VARIABLES fifo,   \* the fifo_struct
          state,  \* what the last call returned
          dat     \* the caller's buffer: the elements it wrote or it read

vars == <<fifo, state, dat>>

Init ==
  /\ fifo = EmptyFifo
  /\ state = "FIFO_SUCCESS"
  /\ dat = <<>>

fifo_clear ==
  /\ fifo' = Clear(fifo)
  /\ state' = ClearState(fifo)
  /\ dat' = <<>>

fifo_write_buffer(elements) ==
  /\ fifo' = Write(fifo, elements)
  /\ state' = WriteState(fifo, elements)
  /\ dat' = elements

fifo_read_element(flag) ==
  /\ fifo' = ReadElement(fifo, flag)
  /\ state' = CleanState(fifo, flag, EnoughState(fifo, 1))
  /\ dat' = <<fifo.buffer[fifo.end]>>

fifo_read_buffer(n, flag) ==
  /\ fifo' = ReadBuffer(fifo, n, flag)
  /\ state' = CleanState(fifo, flag, EnoughState(fifo, n))
  /\ dat' = Elements(fifo, fifo.end, ReadLength(fifo, n))

fifo_discard(n) ==
  /\ fifo' = Discard(fifo, n)
  /\ state' = CleanState(fifo, "FIFO_READ_AND_CLEAN", "FIFO_BUFFER_NULL")
  /\ dat' = <<>>

fifo_read_tail_buffer(n, flag) ==
  /\ fifo' = ReadTailBuffer(fifo, flag)
  /\ state' = CleanState(fifo, flag, EnoughState(fifo, n))
  /\ dat' = TailElements(fifo, ReadLength(fifo, n))

CheckedNext ==
  \/ fifo_clear
  \/ \E flag \in Operation : Used(fifo) >= 1 /\ fifo_read_element(flag)
  \/ \E n \in Lengths :
       \/ \E elements \in [1 .. n -> Data] : fifo_write_buffer(elements)
       \/ n <= Used(fifo) /\ fifo_discard(n)
       \/ \E flag \in Operation :
            \/ fifo_read_buffer(n, flag)
            \/ ~TailWraps(fifo, ReadLength(fifo, n))
                 /\ fifo_read_tail_buffer(n, flag)

\* The wireless modules read the tail without regard to where head is.
TailNext ==
  \/ CheckedNext
  \/ \E n \in Lengths, flag \in Operation : fifo_read_tail_buffer(n, flag)

CheckedSpec == Init /\ [][CheckedNext]_vars
TailSpec == Init /\ [][TailNext]_vars

-----------------------------------------------------------------------------
(* Properties. *)

TypeOK ==
  /\ fifo \in Fifo
  /\ state \in State
  /\ dat \in Seq(Data)

\* The three fields agree after every call, wrapped or not: head is the slot
\* reached from end by walking over the elements that size says are there.
IndicesAgree == fifo.head = Offset(fifo.end, Max - fifo.size)

\* For a careful caller the ring buffer is a bounded first-in first-out queue:
\* no element is lost, repeated or reordered by any sequence of calls, and a
\* refused call leaves it as it was.
Queue == INSTANCE FifoQueue WITH queue <- Contents(fifo), Capacity <- Max
QueueSpec == Queue!Spec

\* fifo_read_tail_buffer "reads a buffer of the given length from the fifo's
\* tail": after such a call the caller has the newest elements.
TailReadReturnsNewest ==
  [][\A n \in Lengths, flag \in Operation :
       fifo_read_tail_buffer(n, flag) => Queue!ReadTail(n)]_vars
=============================================================================
