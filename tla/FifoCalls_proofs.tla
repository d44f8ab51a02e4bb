-------------------------- MODULE FifoCalls_proofs --------------------------
(***************************************************************************)
(* The careful caller's fifo, for a buffer of any size: its invariants, and *)
(* that it is the bounded queue of FifoQueue.  The strengthening is that    *)
(* no call leaves FIFO_CLEAR or FIFO_WRITE set: a flag left behind would    *)
(* refuse every later call.                                                 *)
(***************************************************************************)
EXTENDS FifoCalls, SequenceTheorems, TLAPS

-----------------------------------------------------------------------------
(* What the calls do to the fields of a fifo_struct. *)

\* Moving an index by at most max leaves it in the buffer: one subtraction in
\* fifo_head_offset or fifo_end_offset is enough.
LEMMA OffsetInSlot ==
  ASSUME NEW idx \in Slot, NEW n \in 0 .. Max
  PROVE  Offset(idx, n) \in Slot
  BY FifoAssumption DEF Slot, Offset

\* Moving twice is moving by the sum, as the two memcpy of a call that wraps do.
LEMMA OffsetSum ==
  ASSUME NEW idx \in Slot, NEW m \in Nat, NEW n \in Nat, m + n <= Max
  PROVE  Offset(Offset(idx, m), n) = Offset(idx, m + n)
  BY FifoAssumption DEF Slot, Offset

\* What a reader may take is what is there.
LEMMA UsedFacts ==
  ASSUME NEW f \in Fifo
  PROVE  /\ Used(f) = Max - f.size /\ Used(f) \in 0 .. Max
         /\ f.size \in 0 .. Max /\ Max \in Nat
         /\ \A n \in Nat : ReadLength(f, n) \in 0 .. Used(f)
  BY FifoAssumption DEF Fifo, Used, ReadLength, Least

\* The elements a read copies out are data.
LEMMA ElementsAreData ==
  ASSUME NEW f \in Fifo, NEW idx \in Slot, NEW n \in 0 .. Max
  PROVE  Elements(f, idx, n) \in Seq(Data)
<1>1. ASSUME NEW k \in 1 .. n
      PROVE  f.buffer[Offset(idx, k - 1)] \in Data
  <2>1. k - 1 \in 0 .. Max
    BY FifoAssumption
  <2> QED BY <2>1, OffsetInSlot DEF Fifo
<1>2. n \in Nat
  BY FifoAssumption
<1> QED BY <1>1, <1>2 DEF Elements

\* fifo_clear.
LEMMA ClearFields ==
  ASSUME NEW f \in Fifo
  PROVE  /\ Clear(f) \in Fifo
         /\ Clear(f).execution = f.execution
         /\ "FIFO_CLEAR" \notin f.execution =>
              Clear(f).size = Max /\ Clear(f).head = 0 /\ Clear(f).end = 0
  BY FifoAssumption DEF Clear, EmptyFifo, Fifo, Slot

\* A successful write moves head and takes its length from size.
LEMMA WriteFields ==
  ASSUME NEW f \in Fifo, NEW elements \in Seq(Data),
         WriteState(f, elements) = "FIFO_SUCCESS"
  PROVE  /\ Write(f, elements) \in Fifo
         /\ Write(f, elements).execution = f.execution
         /\ Write(f, elements).head = Offset(f.head, Len(elements))
         /\ Write(f, elements).end = f.end
         /\ Write(f, elements).size = f.size - Len(elements)
         /\ Write(f, elements).buffer =
              [s \in Slot |-> IF Distance(f.head, s) < Len(elements)
                                THEN elements[Distance(f.head, s) + 1]
                                ELSE f.buffer[s]]
         /\ Len(elements) \in 0 .. f.size
<1> DEFINE b == [s \in Slot |-> IF Distance(f.head, s) < Len(elements)
                                  THEN elements[Distance(f.head, s) + 1]
                                  ELSE f.buffer[s]]
<1>1. /\ f.head \in Slot /\ f.end \in Slot /\ f.size \in 0 .. Max
      /\ f.buffer \in [Slot -> Data]
      /\ Len(elements) \in Nat /\ Max \in Nat
  BY FifoAssumption DEF Fifo
<1>2. Len(elements) <= f.size
  BY <1>1 DEF WriteState
<1>3. b \in [Slot -> Data]
  <2> SUFFICES ASSUME NEW s \in Slot
               PROVE  (IF Distance(f.head, s) < Len(elements)
                         THEN elements[Distance(f.head, s) + 1]
                         ELSE f.buffer[s]) \in Data
    OBVIOUS
  <2>1. Distance(f.head, s) \in Nat
    BY <1>1, FifoAssumption DEF Distance, Slot
  <2>2. CASE Distance(f.head, s) < Len(elements)
    <3>1. Distance(f.head, s) + 1 \in 1 .. Len(elements)
      BY <1>1, <2>1, <2>2
    <3> QED BY <2>2, <3>1
  <2>3. CASE ~(Distance(f.head, s) < Len(elements))
    BY <1>1, <2>3
  <2> QED BY <2>2, <2>3
<1>4. /\ Offset(f.head, Len(elements)) \in Slot
      /\ f.size - Len(elements) \in 0 .. Max
  BY <1>1, <1>2, OffsetInSlot
<1>5. Write(f, elements) = [f EXCEPT !.buffer = b,
                                !.head = Offset(f.head, Len(elements)),
                                !.size = f.size - Len(elements)]
  BY DEF Write
<1> HIDE DEF b
<1>6. Write(f, elements) \in Fifo
  BY <1>3, <1>4, <1>5 DEF Fifo
<1>7. /\ Write(f, elements).execution = f.execution
      /\ Write(f, elements).head = Offset(f.head, Len(elements))
      /\ Write(f, elements).end = f.end
      /\ Write(f, elements).size = f.size - Len(elements)
      /\ Write(f, elements).buffer = b
  BY <1>5 DEF Fifo
<1> QED
  BY <1>1, <1>2, <1>6, <1>7 DEF b

\* The clean of a read moves end and gives its length back to size.
LEMMA CleanFields ==
  ASSUME NEW f \in Fifo, NEW n \in 0 .. Used(f),
         "FIFO_CLEAR" \notin f.execution
  PROVE  /\ Clean(f, n) \in Fifo
         /\ Clean(f, n).execution = f.execution
         /\ Clean(f, n).head = f.head
         /\ Clean(f, n).end = Offset(f.end, n)
         /\ Clean(f, n).size = f.size + n
         /\ Clean(f, n).buffer = f.buffer
<1>1. n \in 0 .. Max /\ f.size + n \in 0 .. Max /\ f.end \in Slot
  BY UsedFacts DEF Fifo
<1>2. Offset(f.end, n) \in Slot
  BY <1>1, OffsetInSlot
<1> QED
  BY <1>1, <1>2 DEF Clean, Fifo

\* The flags a read leaves.
LEMMA EndReadFields ==
  ASSUME NEW f \in Fifo, NEW flags
  PROVE  LET e == EndRead(f, flags)
         IN  /\ e \in Fifo
             /\ e.execution \subseteq {"FIFO_READ"}
             /\ e.head = f.head /\ e.end = f.end /\ e.size = f.size
             /\ e.buffer = f.buffer
  BY DEF EndRead, Fifo, Execution

-----------------------------------------------------------------------------
(* The invariant. *)

CallsInv ==
  /\ TypeOK
  /\ IndicesAgree
  /\ fifo.execution \subseteq {"FIFO_READ"}

LEMMA InitCalls == Init => CallsInv
<1> SUFFICES ASSUME Init PROVE CallsInv
  OBVIOUS
<1>1. /\ fifo \in Fifo
      /\ fifo.head = 0 /\ fifo.end = 0 /\ fifo.size = Max
      /\ fifo.execution = {}
  BY FifoAssumption DEF Init, EmptyFifo, Fifo, Slot, Execution
<1>2. state \in State /\ dat \in Seq(Data)
  BY DEF Init, State
<1>3. IndicesAgree
  BY <1>1, FifoAssumption DEF IndicesAgree, Offset
<1> QED BY <1>1, <1>2, <1>3 DEF CallsInv, TypeOK

\* What every action lemma below starts from.
LEMMA CallsFacts ==
  ASSUME CallsInv
  PROVE  /\ fifo \in Fifo /\ fifo.end \in Slot /\ fifo.head \in Slot
         /\ fifo.size \in 0 .. Max /\ Max \in Nat
         /\ Used(fifo) = Max - fifo.size /\ Used(fifo) \in 0 .. Max
         /\ fifo.head = Offset(fifo.end, Max - fifo.size)
         /\ "FIFO_CLEAR" \notin fifo.execution
         /\ "FIFO_WRITE" \notin fifo.execution
  BY UsedFacts DEF CallsInv, TypeOK, IndicesAgree, Fifo

\* Cleaning n of the elements that are there, as a read ends, keeps the indices
\* in step; so does a read that cleans nothing.
LEMMA CleanKeeps ==
  ASSUME CallsInv, NEW n \in 0 .. Used(fifo), NEW flag \in Operation, NEW flags,
         fifo' = EndRead(IF flag = "FIFO_READ_AND_CLEAN"
                           THEN Clean(fifo, n) ELSE fifo, flags)
  PROVE  /\ fifo' \in Fifo
         /\ fifo'.execution \subseteq {"FIFO_READ"}
         /\ IndicesAgree'
<1>1. CASE flag = "FIFO_READ_AND_CLEAN"
  <2> DEFINE c == Clean(fifo, n)
  <2>1. /\ c \in Fifo
        /\ c.head = fifo.head
        /\ c.end = Offset(fifo.end, n)
        /\ c.size = fifo.size + n
    BY CallsFacts, CleanFields
  <2>2. fifo' = EndRead(c, flags)
    BY <1>1
  <2> HIDE DEF c
  <2>3. /\ fifo' \in Fifo
        /\ fifo'.execution \subseteq {"FIFO_READ"}
        /\ fifo'.head = c.head /\ fifo'.end = c.end /\ fifo'.size = c.size
    BY <2>1, <2>2, EndReadFields
  <2>4. /\ Max - (fifo.size + n) \in Nat /\ n \in Nat
        /\ n + (Max - (fifo.size + n)) = Max - fifo.size
        /\ n + (Max - (fifo.size + n)) <= Max
    BY CallsFacts
  <2>5. Offset(Offset(fifo.end, n), Max - (fifo.size + n))
          = Offset(fifo.end, Max - fifo.size)
    BY <2>4, CallsFacts, OffsetSum
  <2> QED BY <2>1, <2>3, <2>5, CallsFacts DEF IndicesAgree
<1>2. CASE flag # "FIFO_READ_AND_CLEAN"
  <2>1. fifo' = EndRead(fifo, flags)
    BY <1>2
  <2> QED BY <2>1, CallsFacts, EndReadFields DEF IndicesAgree
<1> QED BY <1>1, <1>2

\* The states a call returns.
LEMMA StatesAreStates ==
  ASSUME NEW f, NEW flag, NEW n, NEW elements
  PROVE  /\ ClearState(f) \in State /\ WriteState(f, elements) \in State
         /\ EnoughState(f, n) \in State
         /\ \A s \in State : CleanState(f, flag, s) \in State
  BY DEF ClearState, WriteState, EnoughState, CleanState, State

LEMMA ClearCalls == CallsInv /\ fifo_clear => CallsInv'
<1> SUFFICES ASSUME CallsInv, fifo_clear PROVE CallsInv'
  OBVIOUS
<1>1. /\ fifo' = Clear(fifo) /\ state' = ClearState(fifo) /\ dat' = <<>>
  BY DEF fifo_clear
<1>2. /\ fifo' \in Fifo /\ fifo'.execution = fifo.execution
      /\ fifo'.size = Max /\ fifo'.head = 0 /\ fifo'.end = 0
  BY <1>1, CallsFacts, ClearFields
<1>3. IndicesAgree'
  BY <1>2, FifoAssumption DEF IndicesAgree, Offset
<1> QED
  BY <1>1, <1>2, <1>3, StatesAreStates DEF CallsInv, TypeOK

LEMMA WriteCalls ==
  ASSUME CallsInv, NEW n \in Lengths, NEW elements \in [1 .. n -> Data],
         fifo_write_buffer(elements)
  PROVE  CallsInv'
<1>1. /\ fifo' = Write(fifo, elements)
      /\ state' = WriteState(fifo, elements)
      /\ dat' = elements
  BY DEF fifo_write_buffer
<1>2. elements \in Seq(Data)
  BY LengthsAssumption, FifoAssumption
<1>3. CASE WriteState(fifo, elements) = "FIFO_SUCCESS"
  <2>1. /\ fifo' \in Fifo
        /\ fifo'.execution = fifo.execution
        /\ fifo'.head = Offset(fifo.head, Len(elements))
        /\ fifo'.end = fifo.end
        /\ fifo'.size = fifo.size - Len(elements)
        /\ Len(elements) \in 0 .. fifo.size
    BY <1>1, <1>2, <1>3, CallsFacts, WriteFields
  <2>2. /\ Max - fifo.size \in Nat /\ Len(elements) \in Nat
        /\ (Max - fifo.size) + Len(elements)
             = Max - (fifo.size - Len(elements))
        /\ (Max - fifo.size) + Len(elements) <= Max
    BY <2>1, CallsFacts
  <2>3. Offset(Offset(fifo.end, Max - fifo.size), Len(elements))
          = Offset(fifo.end, Max - (fifo.size - Len(elements)))
    BY <2>2, CallsFacts, OffsetSum
  <2>4. IndicesAgree'
    BY <2>1, <2>3, CallsFacts DEF IndicesAgree
  <2> QED
    BY <1>1, <1>2, <2>1, <2>4, StatesAreStates DEF CallsInv, TypeOK
<1>4. CASE WriteState(fifo, elements) # "FIFO_SUCCESS"
  <2>1. fifo' = fifo
    BY <1>1, <1>4 DEF Write
  <2> QED
    BY <1>1, <1>2, <2>1, StatesAreStates
       DEF CallsInv, TypeOK, IndicesAgree
<1> QED BY <1>3, <1>4

LEMMA ReadElementCalls ==
  ASSUME CallsInv, NEW flag \in Operation, Used(fifo) >= 1,
         fifo_read_element(flag)
  PROVE  CallsInv'
<1>1. /\ fifo' = EndRead(IF flag = "FIFO_READ_AND_CLEAN"
                           THEN Clean(fifo, 1) ELSE fifo,
                         fifo.execution \cup {"FIFO_READ"})
      /\ state' = CleanState(fifo, flag, EnoughState(fifo, 1))
      /\ dat' = <<fifo.buffer[fifo.end]>>
  BY DEF fifo_read_element, ReadElement
<1>2. 1 \in 0 .. Used(fifo) /\ fifo.buffer[fifo.end] \in Data
  BY CallsFacts DEF Fifo
<1>3. /\ fifo' \in Fifo
      /\ fifo'.execution \subseteq {"FIFO_READ"}
      /\ IndicesAgree'
  BY <1>1, <1>2, CleanKeeps
<1>4. dat' \in Seq(Data)
  BY <1>1, <1>2
<1> QED
  BY <1>1, <1>3, <1>4, StatesAreStates DEF CallsInv, TypeOK

LEMMA ReadBufferCalls ==
  ASSUME CallsInv, NEW n \in Lengths, NEW flag \in Operation,
         fifo_read_buffer(n, flag)
  PROVE  CallsInv'
<1>1. /\ fifo' = EndRead(IF flag = "FIFO_READ_AND_CLEAN"
                           THEN Clean(fifo, ReadLength(fifo, n)) ELSE fifo,
                         fifo.execution \cup {"FIFO_READ"})
      /\ state' = CleanState(fifo, flag, EnoughState(fifo, n))
      /\ dat' = Elements(fifo, fifo.end, ReadLength(fifo, n))
  BY DEF fifo_read_buffer, ReadBuffer
<1>2. ReadLength(fifo, n) \in 0 .. Used(fifo)
  <2>1. n \in Nat
    BY LengthsAssumption, FifoAssumption
  <2> QED BY <2>1, CallsFacts, UsedFacts
<1>3. /\ fifo' \in Fifo
      /\ fifo'.execution \subseteq {"FIFO_READ"}
      /\ IndicesAgree'
  BY <1>1, <1>2, CleanKeeps
<1>4. dat' \in Seq(Data)
  <2>1. ReadLength(fifo, n) \in 0 .. Max
    BY <1>2, CallsFacts
  <2> QED BY <1>1, <2>1, CallsFacts, ElementsAreData
<1> QED
  BY <1>1, <1>3, <1>4, StatesAreStates DEF CallsInv, TypeOK

LEMMA DiscardCalls ==
  ASSUME CallsInv, NEW n \in Lengths, n <= Used(fifo), fifo_discard(n)
  PROVE  CallsInv'
<1>1. /\ fifo' = EndRead(Clean(fifo, n), fifo.execution)
      /\ state' = CleanState(fifo, "FIFO_READ_AND_CLEAN", "FIFO_BUFFER_NULL")
      /\ dat' = <<>>
  BY DEF fifo_discard, Discard
<1>2. n \in 0 .. Used(fifo)
  BY LengthsAssumption, CallsFacts
<1>3. "FIFO_READ_AND_CLEAN" \in Operation /\ "FIFO_BUFFER_NULL" \in State
  BY DEF Operation, State
<1>4. /\ fifo' \in Fifo
      /\ fifo'.execution \subseteq {"FIFO_READ"}
      /\ IndicesAgree'
  BY <1>1, <1>2, <1>3, CleanKeeps
<1> QED
  BY <1>1, <1>3, <1>4, StatesAreStates DEF CallsInv, TypeOK

LEMMA ReadTailCalls ==
  ASSUME CallsInv, NEW n \in Lengths, NEW flag \in Operation,
         ~TailWraps(fifo, ReadLength(fifo, n)),
         fifo_read_tail_buffer(n, flag)
  PROVE  CallsInv'
<1>1. /\ fifo' = EndRead(IF flag = "FIFO_READ_AND_CLEAN"
                           THEN Clean(fifo, Used(fifo)) ELSE fifo,
                         fifo.execution \cup {"FIFO_READ"})
      /\ state' = CleanState(fifo, flag, EnoughState(fifo, n))
      /\ dat' = TailElements(fifo, ReadLength(fifo, n))
  BY DEF fifo_read_tail_buffer, ReadTailBuffer
<1>2. /\ fifo' \in Fifo
      /\ fifo'.execution \subseteq {"FIFO_READ"}
      /\ IndicesAgree'
  <2>1. Used(fifo) \in 0 .. Used(fifo)
    BY CallsFacts
  <2> QED BY <1>1, <2>1, CleanKeeps
<1>3. dat' \in Seq(Data)
  <2> DEFINE m == ReadLength(fifo, n)
  <2>1. m \in 0 .. Used(fifo)
    <3>1. n \in Nat
      BY LengthsAssumption, FifoAssumption
    <3> QED BY <3>1, CallsFacts, UsedFacts
  <2>2. ~TailWraps(fifo, m) /\ dat' = TailElements(fifo, m)
    BY <1>1
  <2> HIDE DEF m
  <2>3. fifo.head >= m
    <3>1. CASE fifo.head > fifo.end
      BY <2>1, <3>1, CallsFacts, FifoAssumption DEF Offset, Slot
    <3>2. CASE ~(fifo.head > fifo.end)
      BY <2>2, <3>2 DEF TailWraps
    <3> QED BY <3>1, <3>2
  <2>4. ASSUME NEW k \in 1 .. m
        PROVE  fifo.buffer[fifo.head - m + k - 1] \in Data
    <3>1. fifo.head - m + k - 1 \in Slot
      BY <2>1, <2>3, CallsFacts, FifoAssumption DEF Slot
    <3> QED BY <3>1, CallsFacts DEF Fifo
  <2>5. dat' = [k \in 1 .. m |-> fifo.buffer[fifo.head - m + k - 1]]
    BY <2>2 DEF TailElements
  <2>6. m \in Nat
    BY <2>1, CallsFacts
  <2> QED BY <2>4, <2>5, <2>6
<1> QED
  BY <1>1, <1>2, <1>3, StatesAreStates DEF CallsInv, TypeOK

LEMMA CallsInvariance == CheckedSpec => []CallsInv
<1>1. CallsInv /\ UNCHANGED vars => CallsInv'
  BY DEF CallsInv, TypeOK, IndicesAgree, vars
<1>2. CallsInv /\ [CheckedNext]_vars => CallsInv'
  BY <1>1, ClearCalls, WriteCalls, ReadElementCalls, ReadBufferCalls,
     DiscardCalls, ReadTailCalls DEF CheckedNext
<1> QED BY <1>2, InitCalls, PTL DEF CheckedSpec

\* The fields of the fifo keep their ranges and a call returns data only: no
\* careful caller is ever given memory outside the buffer.
THEOREM CallsTypeCorrect == CheckedSpec => []TypeOK
<1>1. CallsInv => TypeOK
  BY DEF CallsInv
<1> QED BY <1>1, CallsInvariance, PTL

\* head, end and size agree after every call, wherever the ring has wrapped.
THEOREM IndicesAlwaysAgree == CheckedSpec => []IndicesAgree
<1>1. CallsInv => IndicesAgree
  BY DEF CallsInv
<1> QED BY <1>1, CallsInvariance, PTL
-----------------------------------------------------------------------------
(* The refinement.  The queue of a fifo is what lies between end and head.  *)

\* The contents as a sequence, and that they depend on three fields only.
LEMMA ContentsFacts ==
  ASSUME NEW f \in Fifo
  PROVE  /\ Contents(f) \in Seq(Data)
         /\ Len(Contents(f)) = Used(f)
         /\ \A k \in 1 .. Used(f) :
              Contents(f)[k] = f.buffer[Offset(f.end, k - 1)]
<1>1. f.end \in Slot /\ Used(f) \in 0 .. Max /\ Used(f) \in Nat
  BY UsedFacts DEF Fifo
<1>2. Contents(f) \in Seq(Data)
  BY <1>1, ElementsAreData DEF Contents
<1> QED BY <1>1, <1>2 DEF Contents, Elements

LEMMA SameContents ==
  ASSUME NEW f \in Fifo, NEW g \in Fifo,
         g.buffer = f.buffer, g.end = f.end, g.size = f.size
  PROVE  Contents(g) = Contents(f)
  BY DEF Contents, Elements, Used

\* A function on 1 .. n is the sequence it agrees with.
LEMMA SameSequence ==
  ASSUME NEW s \in Seq(Data), NEW n \in Nat, Len(s) = n, NEW t \in Seq(Data),
         Len(t) = n, \A k \in 1 .. n : s[k] = t[k]
  PROVE  s = t
  OBVIOUS

\* Part of the contents, as a read copies it.
LEMMA PartOfContents ==
  ASSUME NEW f \in Fifo, NEW m \in 0 .. Used(f), NEW n \in 0 .. Used(f), m <= n
  PROVE  /\ SubSeq(Contents(f), m + 1, n) \in Seq(Data)
         /\ Len(SubSeq(Contents(f), m + 1, n)) = n - m
         /\ \A k \in 1 .. n - m : SubSeq(Contents(f), m + 1, n)[k]
                                    = f.buffer[Offset(f.end, m + k - 1)]
<1> DEFINE s == Contents(f)
<1>1. Used(f) \in Nat
  BY UsedFacts
<1>2. s \in Seq(Data) /\ Len(s) = Used(f)
  BY ContentsFacts
<1>3. \A i \in m + 1 .. n : s[i] \in Data
  BY <1>1, <1>2
<1>4. m + 1 \in Int /\ n \in Int /\ m \in Int
  BY <1>1
<1>5. /\ SubSeq(s, m + 1, n) \in Seq(Data)
      /\ Len(SubSeq(s, m + 1, n)) = IF m + 1 <= n THEN n - (m + 1) + 1 ELSE 0
      /\ \A k \in 1 .. n - (m + 1) + 1 :
           SubSeq(s, m + 1, n)[k] = s[(m + 1) + k - 1]
  <2> HIDE DEF s
  <2> QED BY <1>3, <1>4, SubSeqProperties
<1>6. Len(SubSeq(s, m + 1, n)) = n - m
  BY <1>1, <1>4, <1>5
<1>7. ASSUME NEW k \in 1 .. n - m
      PROVE  SubSeq(s, m + 1, n)[k] = f.buffer[Offset(f.end, m + k - 1)]
  <2>1. k \in 1 .. n - (m + 1) + 1 /\ (m + 1) + k - 1 = m + k
        /\ m + k \in 1 .. Used(f) /\ (m + k) - 1 = m + k - 1
    BY <1>1, <1>4
  <2>2. SubSeq(s, m + 1, n)[k] = s[m + k]
    BY <1>5, <2>1
  <2>3. s[m + k] = f.buffer[Offset(f.end, (m + k) - 1)]
    BY <2>1, ContentsFacts
  <2> QED BY <2>1, <2>2, <2>3
<1> QED BY <1>5, <1>6, <1>7

\* A read from the front copies the oldest elements.
LEMMA FrontIsOldest ==
  ASSUME NEW f \in Fifo, NEW n \in 0 .. Used(f)
  PROVE  Elements(f, f.end, n) = SubSeq(Contents(f), 1, n)
<1> DEFINE t == SubSeq(Contents(f), 1, n)
           s == Elements(f, f.end, n)
<1>1. Used(f) \in 0 .. Max /\ Max \in Nat /\ f.end \in Slot
  BY UsedFacts DEF Fifo
<1>2. 0 \in 0 .. Used(f) /\ 0 <= n /\ n \in Nat /\ n - 0 = n /\ 0 + 1 = 1
      /\ n \in 0 .. Max
  BY <1>1
<1>3. /\ t \in Seq(Data) /\ Len(t) = n
      /\ \A k \in 1 .. n : t[k] = f.buffer[Offset(f.end, 0 + k - 1)]
  BY <1>2, PartOfContents
<1>4. s \in Seq(Data)
  BY <1>1, <1>2, ElementsAreData
<1>5. Len(s) = n
  BY <1>2 DEF Elements
<1>6. ASSUME NEW k \in 1 .. n PROVE s[k] = t[k]
  <2>1. 0 + k - 1 = k - 1
    BY <1>2
  <2>2. s[k] = f.buffer[Offset(f.end, k - 1)]
    BY DEF Elements
  <2> QED BY <1>3, <2>1, <2>2
<1> HIDE DEF s, t
<1>7. s = t
  BY <1>2, <1>3, <1>4, <1>5, <1>6, SameSequence
<1> QED BY <1>7 DEF s, t

\* The clean that ends a read removes the oldest elements.
LEMMA CleanRemovesOldest ==
  ASSUME NEW f \in Fifo, NEW n \in 0 .. Used(f), NEW flags,
         "FIFO_CLEAR" \notin f.execution
  PROVE  Contents(EndRead(Clean(f, n), flags))
           = SubSeq(Contents(f), n + 1, Used(f))
<1> DEFINE c == Clean(f, n)
           g == EndRead(c, flags)
           t == SubSeq(Contents(f), n + 1, Used(f))
<1>1. /\ c \in Fifo /\ c.end = Offset(f.end, n) /\ c.size = f.size + n
      /\ c.buffer = f.buffer
  BY CleanFields
<1>2. /\ g \in Fifo /\ g.end = c.end /\ g.size = c.size
      /\ g.buffer = c.buffer
  <2> HIDE DEF c
  <2> QED BY <1>1, EndReadFields
<1>3. /\ Used(f) = Max - f.size /\ f.size \in 0 .. Max /\ Max \in Nat
      /\ Used(g) = Max - g.size /\ f.end \in Slot
  BY <1>2, UsedFacts DEF Fifo
<1>4. Used(g) = Used(f) - n /\ Used(g) \in Nat /\ n \in Nat
  BY <1>1, <1>2, <1>3
<1>5. /\ t \in Seq(Data) /\ Len(t) = Used(g)
      /\ \A k \in 1 .. Used(g) : t[k] = f.buffer[Offset(f.end, n + k - 1)]
  <2>1. n <= Used(f) /\ Used(f) \in 0 .. Used(f)
    BY <1>3
  <2>2. /\ t \in Seq(Data) /\ Len(t) = Used(f) - n
        /\ \A k \in 1 .. Used(f) - n :
             t[k] = f.buffer[Offset(f.end, n + k - 1)]
    BY <2>1, PartOfContents
  <2> HIDE DEF g, t
  <2> QED BY <1>4, <2>2
<1> HIDE DEF c, g, t
<1>6. /\ Contents(g) \in Seq(Data) /\ Len(Contents(g)) = Used(g)
      /\ \A k \in 1 .. Used(g) :
           Contents(g)[k] = g.buffer[Offset(g.end, k - 1)]
  BY <1>2, ContentsFacts
<1>7. ASSUME NEW k \in 1 .. Used(g) PROVE Contents(g)[k] = t[k]
  <2>1. /\ k - 1 \in Nat /\ n + (k - 1) <= Max
        /\ n + (k - 1) = n + k - 1
    BY <1>3, <1>4
  <2>2. Offset(Offset(f.end, n), k - 1) = Offset(f.end, n + (k - 1))
    BY <1>3, <1>4, <2>1, OffsetSum
  <2> QED BY <1>1, <1>2, <1>5, <1>6, <2>1, <2>2
<1>8. Contents(g) = t
  BY <1>4, <1>5, <1>6, <1>7, SameSequence
<1> QED BY <1>8 DEF g, c, t

\* Two walks from one slot: how far the second ends behind the first.
LEMMA DistanceWalked ==
  ASSUME NEW idx \in Slot, NEW m \in 0 .. Max, NEW n \in 0 .. Max - 1
  PROVE  Distance(Offset(idx, m), Offset(idx, n))
           = IF m <= n THEN n - m ELSE n + Max - m
  BY FifoAssumption DEF Distance, Offset, Slot

\* A write appends its elements, although it puts them wherever the array goes
\* on after its end.
LEMMA WriteAppends ==
  ASSUME NEW f \in Fifo, NEW elements \in Seq(Data),
         f.head = Offset(f.end, Max - f.size),
         WriteState(f, elements) = "FIFO_SUCCESS"
  PROVE  Contents(Write(f, elements)) = Contents(f) \o elements
<1> DEFINE g == Write(f, elements)
           u == Used(f)
           l == Len(elements)
           t == Contents(f) \o elements
<1>1. /\ g \in Fifo /\ g.end = f.end /\ g.size = f.size - l
      /\ g.buffer = [s \in Slot |-> IF Distance(f.head, s) < l
                                      THEN elements[Distance(f.head, s) + 1]
                                      ELSE f.buffer[s]]
      /\ l \in 0 .. f.size
  BY WriteFields
<1>2. /\ u = Max - f.size /\ f.size \in 0 .. Max /\ Max \in Nat
      /\ Used(g) = Max - g.size /\ f.end \in Slot /\ f.head \in Slot
  <2> HIDE DEF g
  <2> QED BY <1>1, UsedFacts DEF Fifo
<1>3. Used(g) = u + l /\ u \in Nat /\ l \in Nat /\ u + l <= Max
  BY <1>1, <1>2
<1>4. /\ Contents(f) \in Seq(Data) /\ Len(Contents(f)) = u
      /\ \A k \in 1 .. u : Contents(f)[k] = f.buffer[Offset(f.end, k - 1)]
  BY ContentsFacts
<1> HIDE DEF g
<1>5. /\ Contents(g) \in Seq(Data) /\ Len(Contents(g)) = u + l
      /\ \A k \in 1 .. u + l :
           Contents(g)[k] = g.buffer[Offset(f.end, k - 1)]
  <2>1. /\ Contents(g) \in Seq(Data) /\ Len(Contents(g)) = Used(g)
        /\ \A k \in 1 .. Used(g) :
             Contents(g)[k] = g.buffer[Offset(g.end, k - 1)]
    BY <1>1, ContentsFacts
  <2> QED BY <1>1, <1>3, <2>1
<1>6. t \in Seq(Data) /\ Len(t) = u + l
  BY SMTT(20), <1>3, <1>4
<1>7. ASSUME NEW k \in 1 .. u + l PROVE Contents(g)[k] = t[k]
  <2> DEFINE s == Offset(f.end, k - 1)
  <2>1. k - 1 \in 0 .. Max - 1 /\ k - 1 \in 0 .. Max
    BY <1>2, <1>3
  <2>2. s \in Slot
    BY <1>2, <2>1, OffsetInSlot
  <2>3. Distance(f.head, s) = IF u <= k - 1 THEN (k - 1) - u
                                            ELSE (k - 1) + Max - u
    <3>1. f.head = Offset(f.end, u) /\ u \in 0 .. Max
      BY <1>2, <1>3
    <3> HIDE DEF u, l
    <3>2. k - 1 \in 0 .. Max - 1 /\ f.end \in Slot
      BY <1>2, <2>1
    <3>3. \A i \in 0 .. Max - 1 :
            Distance(f.head, Offset(f.end, i)) =
              IF u <= i THEN i - u ELSE i + Max - u
      BY <3>1, <3>2, DistanceWalked
    <3> QED BY <3>2, <3>3
  <2>4. CASE k <= u
    <3>1. Distance(f.head, s) >= l
      BY <1>2, <1>3, <2>3, <2>4
    <3>2. g.buffer[s] = f.buffer[s]
      <4>1. Distance(f.head, s) \in Int
        BY <1>2, <2>2 DEF Distance, Slot
      <4> QED BY <1>1, <1>3, <2>2, <3>1, <4>1
    <3>3. k \in 1 .. u
      BY <1>3, <2>4
    <3>4. t[k] = Contents(f)[k]
      BY <1>3, <1>4, <3>3
    <3> QED BY <1>4, <1>5, <3>2, <3>3, <3>4
  <2>5. CASE ~(k <= u)
    <3>1. Distance(f.head, s) = k - 1 - u
      BY <1>3, <2>3, <2>5
    <3>2. k - 1 - u < l /\ (k - 1 - u) + 1 = k - u
      BY <1>3, <2>5
    <3>3. g.buffer[s] = elements[k - u]
      BY <1>1, <2>2, <3>1, <3>2
    <3>4. t[k] = elements[k - u]
      BY <1>3, <1>4, <2>5
    <3> QED BY <1>5, <3>3, <3>4
  <2> QED BY <2>4, <2>5
<1> HIDE DEF t
<1>8. Contents(g) = t
  BY <1>3, <1>5, <1>6, <1>7, SameSequence
<1> QED BY <1>8 DEF g, t
\* While they do not wrap, the tail read copies the newest elements.
LEMMA TailIsNewest ==
  ASSUME NEW f \in Fifo, NEW n \in 0 .. Used(f),
         f.head = Offset(f.end, Max - f.size), ~TailWraps(f, n)
  PROVE  TailElements(f, n)
           = SubSeq(Contents(f), Used(f) - n + 1, Used(f))
<1> DEFINE u == Used(f)
           s == TailElements(f, n)
           t == SubSeq(Contents(f), u - n + 1, u)
<1>1. /\ u = Max - f.size /\ u \in 0 .. Max /\ Max \in Nat
      /\ f.end \in 0 .. Max - 1 /\ f.head \in 0 .. Max - 1
      /\ f.head = Offset(f.end, u) /\ f.buffer \in [Slot -> Data]
  BY UsedFacts DEF Fifo, Slot
<1>2. n \in Nat /\ u - n \in 0 .. u /\ u \in 0 .. u /\ u - n <= u
      /\ u - (u - n) = n
  BY <1>1
<1>3. /\ t \in Seq(Data) /\ Len(t) = n
      /\ \A k \in 1 .. n : t[k] = f.buffer[Offset(f.end, (u - n) + k - 1)]
  <2>1. /\ t \in Seq(Data) /\ Len(t) = u - (u - n)
        /\ \A k \in 1 .. u - (u - n) :
             t[k] = f.buffer[Offset(f.end, (u - n) + k - 1)]
    BY <1>2, PartOfContents
  <2> HIDE DEF t, u
  <2> QED BY <1>2, <2>1
<1> HIDE DEF u, t
<1>4. f.head >= n
  <2>1. CASE f.head > f.end
    BY <1>1, <1>2, <2>1 DEF Offset
  <2>2. CASE ~(f.head > f.end)
    BY <2>2 DEF TailWraps
  <2> QED BY <2>1, <2>2
<1>5. s = [k \in 1 .. n |-> f.buffer[f.head - n + k - 1]]
  BY DEF TailElements
<1>6. ASSUME NEW k \in 1 .. n
      PROVE  /\ f.head - n + k - 1 = Offset(f.end, (u - n) + k - 1)
             /\ f.buffer[f.head - n + k - 1] \in Data
  <2>1. f.head - n + k - 1 = Offset(f.end, (u - n) + k - 1)
    BY <1>1, <1>2, <1>4 DEF Offset
  <2>2. f.head - n + k - 1 \in Slot
    BY <1>1, <1>2, <1>4 DEF Slot
  <2> QED BY <1>1, <2>1, <2>2
<1>7. s \in Seq(Data) /\ Len(s) = n
  BY <1>2, <1>5, <1>6
<1>8. ASSUME NEW k \in 1 .. n PROVE s[k] = t[k]
  BY <1>3, <1>5, <1>6
<1> HIDE DEF s
<1>9. s = t
  BY <1>2, <1>3, <1>7, <1>8, SameSequence
<1> QED BY <1>9 DEF s, t, u

\* The queue a state is mapped to.
LEMMA QueueFacts ==
  ASSUME CallsInv
  PROVE  /\ Contents(fifo) \in Seq(Data) /\ Len(Contents(fifo)) = Used(fifo)
         /\ \A n \in Nat :
              /\ Queue!Fewest(n, Used(fifo)) = ReadLength(fifo, n)
              /\ ReadLength(fifo, n) \in 0 .. Used(fifo)
         /\ \A flag, s : CleanState(fifo, flag, s) = s
<1>1. /\ Contents(fifo) \in Seq(Data) /\ Len(Contents(fifo)) = Used(fifo)
  BY CallsFacts, ContentsFacts
<1>2. \A n \in Nat : ReadLength(fifo, n) \in 0 .. Used(fifo)
  BY CallsFacts, UsedFacts
<1>3. \A n \in Nat : Queue!Fewest(n, Used(fifo)) = ReadLength(fifo, n)
  BY DEF Queue!Fewest, ReadLength, Least
<1>4. \A flag, s : CleanState(fifo, flag, s) = s
  BY CallsFacts DEF CleanState
<1> QED BY <1>1, <1>2, <1>3, <1>4

\* What ends every read: the oldest elements are gone or all are still there.
LEMMA CleanOrKeep ==
  ASSUME CallsInv, NEW n \in 0 .. Used(fifo), NEW flag, NEW flags,
         fifo' = EndRead(IF flag = "FIFO_READ_AND_CLEAN"
                           THEN Clean(fifo, n) ELSE fifo, flags)
  PROVE  Contents(fifo') \in
           {Contents(fifo), SubSeq(Contents(fifo), n + 1, Used(fifo))}
<1>1. CASE flag = "FIFO_READ_AND_CLEAN"
  BY <1>1, CallsFacts, CleanRemovesOldest
<1>2. CASE flag # "FIFO_READ_AND_CLEAN"
  <2>1. fifo' = EndRead(fifo, flags)
    BY <1>2
  <2>2. /\ fifo' \in Fifo /\ fifo'.buffer = fifo.buffer
        /\ fifo'.end = fifo.end /\ fifo'.size = fifo.size
    BY <2>1, CallsFacts, EndReadFields
  <2> QED BY <2>2, CallsFacts, SameContents
<1> QED BY <1>1, <1>2

LEMMA InitIsQueue == Init => Queue!Init
<1> SUFFICES ASSUME Init PROVE Queue!Init
  OBVIOUS
<1>1. CallsInv
  BY InitCalls
<1>2. Used(fifo) = 0
  BY <1>1, CallsFacts, FifoAssumption DEF Init, EmptyFifo
<1>3. Contents(fifo) = <<>>
  BY <1>1, <1>2, QueueFacts
<1> QED BY <1>3 DEF Init, Queue!Init

LEMMA ClearIsQueue == CallsInv /\ fifo_clear => Queue!Clear
<1> SUFFICES ASSUME CallsInv, fifo_clear PROVE Queue!Clear
  OBVIOUS
<1>1. CallsInv'
  BY ClearCalls
<1>2. state' = "FIFO_SUCCESS" /\ dat' = <<>> /\ fifo' = Clear(fifo)
  BY CallsFacts DEF fifo_clear, ClearState
<1>3. fifo' \in Fifo /\ fifo'.size = Max
  BY <1>2, CallsFacts, ClearFields
<1>4. Used(fifo') = 0
  BY <1>3, UsedFacts
<1>5. Contents(fifo') = <<>>
  BY <1>3, <1>4, ContentsFacts
<1> QED BY <1>2, <1>5 DEF Queue!Clear

LEMMA WriteIsQueue ==
  ASSUME CallsInv, NEW n \in Lengths, NEW elements \in [1 .. n -> Data],
         fifo_write_buffer(elements)
  PROVE  Queue!Write(elements)
<1>1. /\ fifo' = Write(fifo, elements)
      /\ state' = WriteState(fifo, elements)
      /\ dat' = elements
  BY DEF fifo_write_buffer
<1>2. elements \in Seq(Data) /\ Len(elements) \in Nat
  BY LengthsAssumption, FifoAssumption
<1>3. Len(Contents(fifo)) = Max - fifo.size /\ fifo.size \in 0 .. Max
      /\ Max \in Nat
  BY CallsFacts, QueueFacts
<1>4. CASE Len(elements) <= fifo.size
  <2>1. WriteState(fifo, elements) = "FIFO_SUCCESS"
    BY <1>2, <1>3, <1>4, CallsFacts DEF WriteState
  <2>2. Contents(fifo') = Contents(fifo) \o elements
    BY <1>1, <1>2, <2>1, CallsFacts, WriteAppends
  <2>3. Len(Contents(fifo)) + Len(elements) <= Max
    BY <1>2, <1>3, <1>4
  <2> QED BY <1>1, <2>1, <2>2, <2>3 DEF Queue!Write
<1>5. CASE ~(Len(elements) <= fifo.size)
  <2>1. WriteState(fifo, elements) = "FIFO_SPACE_NO_ENOUGH"
    BY <1>2, <1>3, <1>5, CallsFacts DEF WriteState
  <2>2. fifo' = fifo
    BY <1>1, <2>1 DEF Write
  <2>3. ~(Len(Contents(fifo)) + Len(elements) <= Max)
    BY <1>2, <1>3, <1>5
  <2> QED BY <1>1, <2>1, <2>2, <2>3 DEF Queue!Write
<1> QED BY <1>4, <1>5

\* Both reads from the front, of n elements at most.
LEMMA FrontReadIsQueue ==
  ASSUME CallsInv, NEW n \in Nat, NEW flag, NEW flags,
         fifo' = EndRead(IF flag = "FIFO_READ_AND_CLEAN"
                           THEN Clean(fifo, ReadLength(fifo, n)) ELSE fifo,
                         flags),
         state' = CleanState(fifo, flag, EnoughState(fifo, n)),
         dat' = Elements(fifo, fifo.end, ReadLength(fifo, n))
  PROVE  Queue!Read(n)
<1> DEFINE m == ReadLength(fifo, n)
<1>1. /\ m \in 0 .. Used(fifo) /\ Queue!Fewest(n, Used(fifo)) = m
      /\ Len(Contents(fifo)) = Used(fifo)
  BY QueueFacts
<1>2. dat' = Queue!First(n)
  <2>1. dat' = SubSeq(Contents(fifo), 1, m)
    BY <1>1, CallsFacts, FrontIsOldest
  <2> HIDE DEF m
  <2> QED BY <1>1, <2>1 DEF Queue!First
<1>3. Contents(fifo') \in {Contents(fifo), Queue!Rest(n)}
  <2>1. Contents(fifo') \in
          {Contents(fifo), SubSeq(Contents(fifo), m + 1, Used(fifo))}
    BY <1>1, CleanOrKeep
  <2> HIDE DEF m
  <2> QED BY <1>1, <2>1 DEF Queue!Rest
<1>4. Queue!Enough(n)
  BY <1>1, QueueFacts DEF Queue!Enough, EnoughState
<1> QED BY <1>2, <1>3, <1>4 DEF Queue!Read

LEMMA ReadElementIsQueue ==
  ASSUME CallsInv, NEW flag \in Operation, Used(fifo) >= 1,
         fifo_read_element(flag)
  PROVE  Queue!Read(1)
<1>1. ReadLength(fifo, 1) = 1
  BY CallsFacts DEF ReadLength, Least
<1>2. /\ fifo' = EndRead(IF flag = "FIFO_READ_AND_CLEAN"
                           THEN Clean(fifo, ReadLength(fifo, 1)) ELSE fifo,
                         fifo.execution \cup {"FIFO_READ"})
      /\ state' = CleanState(fifo, flag, EnoughState(fifo, 1))
      /\ dat' = <<fifo.buffer[fifo.end]>>
  BY <1>1 DEF fifo_read_element, ReadElement
<1>3. dat' = Elements(fifo, fifo.end, ReadLength(fifo, 1))
  <2>1. fifo.buffer[fifo.end] = fifo.buffer[Offset(fifo.end, 1 - 1)]
    BY CallsFacts DEF Offset, Slot
  <2>2. <<fifo.buffer[fifo.end]>> = [k \in 1 .. 1 |-> fifo.buffer[fifo.end]]
    OBVIOUS
  <2>3. [k \in 1 .. 1 |-> fifo.buffer[fifo.end]]
          = [k \in 1 .. 1 |-> fifo.buffer[Offset(fifo.end, k - 1)]]
    BY <2>1
  <2> QED BY <1>1, <1>2, <2>2, <2>3 DEF Elements
<1> QED BY <1>2, <1>3, FrontReadIsQueue

LEMMA ReadBufferIsQueue ==
  ASSUME CallsInv, NEW n \in Lengths, NEW flag \in Operation,
         fifo_read_buffer(n, flag)
  PROVE  Queue!Read(n)
<1>1. n \in Nat
  BY LengthsAssumption, FifoAssumption
<1> QED BY <1>1, FrontReadIsQueue DEF fifo_read_buffer, ReadBuffer

LEMMA ReadTailIsQueue ==
  ASSUME CallsInv, NEW n \in Lengths, NEW flag \in Operation,
         ~TailWraps(fifo, ReadLength(fifo, n)),
         fifo_read_tail_buffer(n, flag)
  PROVE  Queue!ReadTail(n)
<1> DEFINE m == ReadLength(fifo, n)
<1>1. n \in Nat
  BY LengthsAssumption, FifoAssumption
<1>2. /\ m \in 0 .. Used(fifo) /\ Queue!Fewest(n, Used(fifo)) = m
      /\ Len(Contents(fifo)) = Used(fifo) /\ Used(fifo) \in Nat
      /\ Contents(fifo) \in Seq(Data)
  BY <1>1, QueueFacts, CallsFacts
<1>3. dat' = Queue!Last(n)
  <2>1. dat' = SubSeq(Contents(fifo), Used(fifo) - m + 1, Used(fifo))
    BY <1>2, CallsFacts, TailIsNewest DEF fifo_read_tail_buffer
  <2> HIDE DEF m
  <2> QED BY <1>2, <2>1 DEF Queue!Last
<1>4. Contents(fifo') \in {Contents(fifo), <<>>}
  <2>1. Used(fifo) \in 0 .. Used(fifo)
    BY <1>2
  <2>2. Contents(fifo') \in
          {Contents(fifo), SubSeq(Contents(fifo), Used(fifo) + 1, Used(fifo))}
    BY <2>1, CleanOrKeep DEF fifo_read_tail_buffer, ReadTailBuffer
  <2>3. SubSeq(Contents(fifo), Used(fifo) + 1, Used(fifo)) = <<>>
    BY <1>2, SubSeqEmpty
  <2> QED BY <2>2, <2>3
<1>5. Queue!Enough(n)
  BY <1>2, QueueFacts
     DEF fifo_read_tail_buffer, Queue!Enough, EnoughState
<1> QED BY <1>3, <1>4, <1>5 DEF Queue!ReadTail

LEMMA DiscardIsQueue ==
  ASSUME CallsInv, NEW n \in Lengths, n <= Used(fifo), fifo_discard(n)
  PROVE  Queue!Discard(n)
<1>1. n \in Nat /\ n \in 0 .. Used(fifo)
  BY LengthsAssumption, FifoAssumption, CallsFacts
<1>2. /\ fifo' = EndRead(Clean(fifo, n), fifo.execution)
      /\ state' = "FIFO_BUFFER_NULL" /\ dat' = <<>>
  BY QueueFacts DEF fifo_discard, Discard
<1>3. Contents(fifo') = SubSeq(Contents(fifo), n + 1, Used(fifo))
  BY <1>1, <1>2, CallsFacts, CleanRemovesOldest
<1>4. /\ Len(Contents(fifo)) = Used(fifo)
      /\ Queue!Fewest(n, Used(fifo)) = n
  BY <1>1, QueueFacts DEF Queue!Fewest
<1> QED BY <1>1, <1>2, <1>3, <1>4 DEF Queue!Discard, Queue!Rest

\* The ring buffer is a bounded first-in first-out queue for a careful caller:
\* each call is a step of FifoQueue on the elements from end to head, whatever
\* the capacity, the data and the lengths asked for.
THEOREM ImplementsQueue == CheckedSpec => QueueSpec
<1>1. CallsInv /\ [CheckedNext]_vars => [Queue!Next]_(Queue!queueVars)
  <2> SUFFICES ASSUME CallsInv, [CheckedNext]_vars
               PROVE  Queue!Next \/ UNCHANGED Queue!queueVars
    OBVIOUS
  <2>1. CASE fifo_clear
    BY <2>1, ClearIsQueue DEF Queue!Next
  <2>2. ASSUME NEW flag \in Operation, Used(fifo) >= 1,
               fifo_read_element(flag)
        PROVE  Queue!Next
    BY <2>2, ReadElementIsQueue DEF Queue!Next
  <2>3. ASSUME NEW n \in Lengths, NEW elements \in [1 .. n -> Data],
               fifo_write_buffer(elements)
        PROVE  Queue!Next
    BY <2>3, WriteIsQueue DEF Queue!Next
  <2>4. ASSUME NEW n \in Lengths, n <= Used(fifo), fifo_discard(n)
        PROVE  Queue!Next
    BY <2>4, DiscardIsQueue DEF Queue!Next
  <2>5. ASSUME NEW n \in Lengths, NEW flag \in Operation,
               fifo_read_buffer(n, flag)
        PROVE  Queue!Next
    BY <2>5, ReadBufferIsQueue DEF Queue!Next
  <2>6. ASSUME NEW n \in Lengths, NEW flag \in Operation,
               ~TailWraps(fifo, ReadLength(fifo, n)),
               fifo_read_tail_buffer(n, flag)
        PROVE  Queue!Next
    BY <2>6, ReadTailIsQueue DEF Queue!Next
  <2>7. CASE UNCHANGED vars
    BY <2>7 DEF vars, Queue!queueVars
  <2> QED
    BY <2>1, <2>2, <2>3, <2>4, <2>5, <2>6, <2>7 DEF CheckedNext
<1> QED
  BY <1>1, InitIsQueue, CallsInvariance, PTL
     DEF CheckedSpec, QueueSpec, Queue!Spec
=============================================================================
