----------------------------- MODULE FifoStruct -----------------------------
(***************************************************************************)
(* The ring buffer of zf_common_fifo.c: fifo_struct as a record, and what  *)
(* one uninterrupted call of each function does to it.  `size' is the room *)
(* that is left, as in the source; `execution' is the set of its flags.    *)
(* The width of an element (type) does not matter here.                    *)
(***************************************************************************)
EXTENDS Integers, Sequences

CONSTANTS Max,      \* fifo->max, the size given to fifo_init
          Data,     \* the values of an element
          Blank,    \* the element memset leaves
          Outside,  \* what a read before the first element returns
          Word      \* 2 to the width of the unsigned lengths

ASSUME FifoAssumption ==
  /\ Max \in Nat \ {0}
  /\ Word \in Nat /\ Word > 2 * Max
  /\ Blank \in Data
  /\ Outside \notin Data

Slot == 0 .. Max - 1
Execution == {"FIFO_CLEAR", "FIFO_WRITE", "FIFO_READ"}
State == {"FIFO_SUCCESS", "FIFO_WRITE_UNDO", "FIFO_CLEAR_UNDO",
          "FIFO_BUFFER_NULL", "FIFO_SPACE_NO_ENOUGH", "FIFO_DATA_NO_ENOUGH"}
Operation == {"FIFO_READ_AND_CLEAN", "FIFO_READ_ONLY"}

Fifo ==
  [execution : SUBSET Execution,
   buffer    : [Slot -> Data],
   head      : Slot,
   end       : Slot,
   size      : 0 .. Max]

\* fifo_init with a zeroed array.
EmptyFifo ==
  [execution |-> {},
   buffer    |-> [s \in Slot |-> Blank],
   head      |-> 0,
   end       |-> 0,
   size      |-> Max]

\* Mutant: the index may reach max.
OffsetReachesMax(idx, n) == IF idx + n > Max THEN idx + n - Max ELSE idx + n

\* fifo_head_offset and fifo_end_offset.  No caller moves an index by more
\* than Max, so their loop subtracts Max at most once.
Offset(idx, n) == IF idx + n >= Max THEN idx + n - Max ELSE idx + n

\* How far slot s lies behind slot idx, walking forward.
Distance(idx, s) == IF s >= idx THEN s - idx ELSE s + Max - idx

\* fifo_used, an unsigned subtraction.
Used(f) == IF f.size <= Max THEN Max - f.size ELSE Max - f.size + Word

Least(m, n) == IF m <= n THEN m ELSE n

\* n elements from slot idx on, wrapping at the end of the array.
Elements(f, idx, n) == [k \in 1 .. n |-> f.buffer[Offset(idx, k - 1)]]

\* What the buffer holds, oldest first.
Contents(f) == Elements(f, f.end, Used(f))

-----------------------------------------------------------------------------
ClearState(f) ==
  IF "FIFO_CLEAR" \in f.execution THEN "FIFO_CLEAR_UNDO" ELSE "FIFO_SUCCESS"

Clear(f) ==
  IF "FIFO_CLEAR" \in f.execution THEN f
  ELSE [EmptyFifo EXCEPT !.execution = f.execution]

\* fifo_write_buffer, and fifo_write_element for one element.
WriteState(f, dat) ==
  IF "FIFO_WRITE" \in f.execution THEN "FIFO_WRITE_UNDO"
  ELSE IF Len(dat) > f.size THEN "FIFO_SPACE_NO_ENOUGH"
  ELSE "FIFO_SUCCESS"

\* Mutant: the second memcpy of a write that wraps starts at dat again.
WriteRestarts(f, dat) ==
  IF WriteState(f, dat) # "FIFO_SUCCESS" THEN f
  ELSE [f EXCEPT
          !.buffer = [s \in Slot |->
                        IF Distance(f.head, s) >= Len(dat) THEN f.buffer[s]
                        ELSE IF s >= f.head THEN dat[s - f.head + 1]
                        ELSE dat[s + 1]],
          !.head = Offset(f.head, Len(dat)),
          !.size = @ - Len(dat)]

Write(f, dat) ==
  IF WriteState(f, dat) # "FIFO_SUCCESS" THEN f
  ELSE [f EXCEPT
          !.buffer = [s \in Slot |-> IF Distance(f.head, s) < Len(dat)
                                       THEN dat[Distance(f.head, s) + 1]
                                       ELSE f.buffer[s]],
          !.head = Offset(f.head, Len(dat)),
          !.size = @ - Len(dat)]

\* The flags every read ends with: `execution &= FIFO_READ'.
EndRead(f, flags) == [f EXCEPT !.execution = flags \cap {"FIFO_READ"}]

\* The clean of a read, unless a clear is under way: n elements leave.
Clean(f, n) ==
  IF "FIFO_CLEAR" \in f.execution THEN f
  ELSE [f EXCEPT !.end = Offset(f.end, n), !.size = @ + n]

CleanState(f, flag, state) ==
  IF flag = "FIFO_READ_AND_CLEAN" /\ "FIFO_CLEAR" \in f.execution
    THEN "FIFO_CLEAR_UNDO" ELSE state

EnoughState(f, n) ==
  IF n > Used(f) THEN "FIFO_DATA_NO_ENOUGH" ELSE "FIFO_SUCCESS"

\* fifo_read_element cleans one element even when there was none.
ReadElement(f, flag) ==
  EndRead(IF flag = "FIFO_READ_AND_CLEAN" THEN Clean(f, 1) ELSE f,
          f.execution \cup {"FIFO_READ"})

\* Mutant: the length is not cut down.
ReadLengthUncut(f, n) == n

\* fifo_read_buffer: the length is first cut down to what there is.
ReadLength(f, n) == Least(n, Used(f))

\* Mutant: the clean uses the length asked for.
ReadBufferCleansAll(f, n, flag) ==
  EndRead(IF flag = "FIFO_READ_AND_CLEAN" THEN Clean(f, n) ELSE f,
          f.execution \cup {"FIFO_READ"})

ReadBuffer(f, n, flag) ==
  EndRead(IF flag = "FIFO_READ_AND_CLEAN" THEN Clean(f, ReadLength(f, n))
                                          ELSE f,
          f.execution \cup {"FIFO_READ"})

\* fifo_read_buffer(fifo, NULL, &n, FIFO_READ_AND_CLEAN): n is not cut down.
Discard(f, n) == EndRead(Clean(f, n), f.execution)

\* fifo_read_tail_buffer.  When the newest elements wrap around the end of the
\* array, the second memcpy starts at buffer[head - n], before the array.
TailWraps(f, n) == ~(f.head > f.end \/ f.head >= n)

TailElements(f, n) ==
  [k \in 1 .. n |->
     IF ~TailWraps(f, n) THEN f.buffer[f.head - n + k - 1]
     ELSE IF k <= n - f.head THEN f.buffer[Max - (n - f.head) + k - 1]
     ELSE IF k > 2 * (n - f.head) THEN f.buffer[k - 2 * (n - f.head) - 1]
     ELSE Outside]

ReadTailBuffer(f, flag) ==
  EndRead(IF flag = "FIFO_READ_AND_CLEAN" THEN Clean(f, Used(f)) ELSE f,
          f.execution \cup {"FIFO_READ"})
=============================================================================
