----------------------------- MODULE FifoPreempt -----------------------------
(***************************************************************************)
(* A fifo shared by a receive interrupt and the main loop, as every serial *)
(* device of the library uses it: the handler writes each byte it receives *)
(* and the main loop calls fifo_read_buffer(..., FIFO_READ_AND_CLEAN).     *)
(* The handler runs to its end between any two memory accesses of the main *)
(* loop; in particular `fifo->size += *length' is a load and a store.      *)
(***************************************************************************)
EXTENDS FifoStruct

CONSTANTS Lengths,     \* the lengths the main loop asks for
          MaxBytes     \* bound: bytes received

ASSUME PreemptAssumption ==
  /\ Lengths \subseteq Nat
  /\ MaxBytes \in Nat

VARIABLES
  fifo,
  pc,        \* where fifo_read_buffer is
  length,    \* its *length, cut down to what there was
  room,      \* the size it has loaded
  received,  \* bytes the handler has received
  unread     \* bytes written and not yet removed by a completed read

vars == <<fifo, pc, length, room, received, unread>>

Init ==
  /\ fifo = EmptyFifo
  /\ pc = "idle"
  /\ length = 0
  /\ room = 0
  /\ received = 0
  /\ unread = 0

-----------------------------------------------------------------------------
(* The receive interrupt: fifo_write_element, or fifo_write_buffer of one. *)

Receive(dat) ==
  /\ received < MaxBytes
  /\ received' = received + 1
  /\ fifo' = Write(fifo, <<dat>>)
  /\ unread' = IF WriteState(fifo, <<dat>>) = "FIFO_SUCCESS"
                 THEN unread + 1 ELSE unread
  /\ UNCHANGED <<pc, length, room>>

-----------------------------------------------------------------------------
(* fifo_read_buffer. *)

ReadCall(n) ==
  /\ pc = "idle"
  /\ fifo' = [fifo EXCEPT !.execution = @ \cup {"FIFO_READ"}]
  /\ length' = ReadLength(fifo, n)
  /\ pc' = "clean"
  /\ UNCHANGED <<room, received, unread>>

\* The copy to the caller's buffer is done.  The handler never leaves FIFO_CLEAR
\* set, so the early exit with FIFO_CLEAR_UNDO is never taken here.
CleanEnd ==
  /\ pc = "clean"
  /\ fifo' = [fifo EXCEPT !.execution = @ \cup {"FIFO_CLEAR"},
                          !.end = Offset(@, length)]
  /\ pc' = "load"
  /\ UNCHANGED <<length, room, received, unread>>

SizeLoad ==
  /\ pc = "load"
  /\ room' = fifo.size
  /\ pc' = "store"
  /\ UNCHANGED <<fifo, length, received, unread>>

\* Mutant: the length is not given back.
SizeStoreForgets ==
  /\ pc = "store"
  /\ fifo' = [fifo EXCEPT !.size = room]
  /\ unread' = unread - length
  /\ pc' = "end"
  /\ UNCHANGED <<length, room, received>>

SizeStore ==
  /\ pc = "store"
  /\ fifo' = [fifo EXCEPT !.size = room + length]
  /\ unread' = unread - length
  /\ pc' = "end"
  /\ UNCHANGED <<length, room, received>>

ReadEnd ==
  /\ pc = "end"
  /\ fifo' = EndRead(fifo, fifo.execution)
  /\ pc' = "idle"
  /\ UNCHANGED <<length, room, received, unread>>

-----------------------------------------------------------------------------
Next ==
  \/ \E dat \in Data : Receive(dat)
  \/ \E n \in Lengths : ReadCall(n)
  \/ CleanEnd
  \/ SizeLoad
  \/ SizeStore
  \/ ReadEnd

Spec == Init /\ [][Next]_vars

-----------------------------------------------------------------------------
(* Properties. *)

\* The room stays within the fifo, whatever preempts the read: a lost update
\* of size never makes it wrap below 0 or pass max.
TypeOK ==
  /\ fifo \in Fifo
  /\ pc \in {"idle", "clean", "load", "store", "end"}
  /\ length \in 0 .. Max
  /\ room \in 0 .. Max
  /\ received \in 0 .. MaxBytes
  /\ unread \in 0 .. MaxBytes

\* The fifo never announces a byte that was not received: fifo_used errs on
\* the low side only, so a reader that waits for n bytes gets n bytes.
NeverInventsData == Used(fifo) <= unread

\* The header says that size is the room left in the buffer.  Between two
\* reads it should count every byte received and not yet removed.
SizeIsRemainingRoom == pc = "idle" => fifo.size = Max - unread
=============================================================================
