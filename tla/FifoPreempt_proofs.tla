------------------------- MODULE FifoPreempt_proofs -------------------------
(***************************************************************************)
(* What the lost update of size can and cannot do, for a fifo of any size, *)
(* any lengths and any number of bytes: the room stays within the fifo and *)
(* the fifo never announces more bytes than there are.                     *)
(***************************************************************************)
EXTENDS FifoPreempt, TLAPS

\* Moving an index by at most max leaves it in the buffer.
LEMMA OffsetInSlot ==
  ASSUME NEW idx \in Slot, NEW n \in 0 .. Max
  PROVE  Offset(idx, n) \in Slot
  BY FifoAssumption DEF Slot, Offset

\* What a reader may take is what is there.
LEMMA UsedFacts ==
  ASSUME NEW f \in Fifo
  PROVE  /\ Used(f) = Max - f.size /\ Used(f) \in 0 .. Max
         /\ f.size \in 0 .. Max /\ Max \in Nat
         /\ \A n \in Nat : ReadLength(f, n) \in 0 .. Used(f)
  BY FifoAssumption DEF Fifo, Used, ReadLength, Least

\* The handler only lowers size and raises unread, so what a read has seen of
\* either stays true on the safe side until it stores.
PreemptInv ==
  /\ TypeOK
  /\ NeverInventsData
  /\ unread <= received
  /\ pc \in {"clean", "load"} => length <= Max - fifo.size
  /\ pc = "store" => room + length <= Max /\ Max - room <= unread

\* A write of one byte keeps the fifo well formed and takes one from size.
LEMMA WriteOne ==
  ASSUME NEW f \in Fifo, NEW d \in Data
  PROVE  /\ Write(f, <<d>>) \in Fifo
         /\ WriteState(f, <<d>>) # "FIFO_SUCCESS" => Write(f, <<d>>) = f
         /\ WriteState(f, <<d>>) = "FIFO_SUCCESS" =>
              Write(f, <<d>>).size = f.size - 1
<1>1. CASE WriteState(f, <<d>>) # "FIFO_SUCCESS"
  BY <1>1 DEF Write
<1>2. CASE WriteState(f, <<d>>) = "FIFO_SUCCESS"
  <2> DEFINE b == [s \in Slot |-> IF Distance(f.head, s) < Len(<<d>>)
                                    THEN <<d>>[Distance(f.head, s) + 1]
                                    ELSE f.buffer[s]]
  <2>1. Write(f, <<d>>) = [f EXCEPT !.buffer = b,
                                    !.head = Offset(f.head, 1),
                                    !.size = f.size - 1]
    BY <1>2 DEF Write
  <2>2. /\ f.head \in Slot /\ f.size \in 0 .. Max /\ Max \in Nat \ {0}
        /\ f.buffer \in [Slot -> Data]
    BY FifoAssumption DEF Fifo
  <2>3. b \in [Slot -> Data]
    <3> SUFFICES ASSUME NEW s \in Slot, Distance(f.head, s) < 1
                 PROVE  <<d>>[Distance(f.head, s) + 1] \in Data
      BY <2>2
    <3>1. Distance(f.head, s) = 0
      BY <2>2 DEF Distance, Slot
    <3> QED BY <3>1
  <2>4. Offset(f.head, 1) \in Slot /\ f.size - 1 \in 0 .. Max
    BY <1>2, <2>2, OffsetInSlot DEF WriteState
  <2> HIDE DEF b
  <2> QED BY <1>2, <2>1, <2>3, <2>4 DEF Fifo
<1> QED BY <1>1, <1>2

LEMMA InitPreempt == Init => PreemptInv
<1> SUFFICES ASSUME Init PROVE PreemptInv
  OBVIOUS
<1>1. fifo \in Fifo /\ fifo.size = Max
  BY FifoAssumption DEF Init, EmptyFifo, Fifo, Slot, Execution
<1>2. Used(fifo) = 0
  BY <1>1, UsedFacts, FifoAssumption
<1> QED
  BY <1>1, <1>2, FifoAssumption, PreemptAssumption
     DEF Init, PreemptInv, TypeOK, NeverInventsData

\* The numbers of the model, for the arithmetic.
LEMMA PreemptFacts ==
  ASSUME PreemptInv
  PROVE  /\ fifo \in Fifo /\ fifo.size \in 0 .. Max /\ Max \in Nat
         /\ Used(fifo) = Max - fifo.size
         /\ Max - fifo.size <= unread /\ unread <= received
         /\ length \in 0 .. Max /\ room \in 0 .. Max
         /\ unread \in Nat /\ received \in Nat
         /\ received \in 0 .. MaxBytes /\ MaxBytes \in Nat
  BY UsedFacts, FifoAssumption, PreemptAssumption
     DEF PreemptInv, TypeOK, NeverInventsData, Fifo

LEMMA ReceivePreempt ==
  ASSUME PreemptInv, NEW dat \in Data, Receive(dat)
  PROVE  PreemptInv'
<1>1. /\ received < MaxBytes /\ received' = received + 1
      /\ UNCHANGED <<pc, length, room>>
      /\ fifo' = Write(fifo, <<dat>>)
  BY DEF Receive
<1>2. /\ fifo' \in Fifo /\ fifo'.size \in 0 .. Max
      /\ fifo'.size <= fifo.size
      /\ unread' \in {unread, unread + 1}
      /\ Max - fifo'.size <= unread'
  <2>1. fifo' \in Fifo /\ fifo'.size \in 0 .. Max
    BY <1>1, PreemptFacts, WriteOne DEF Fifo
  <2>2. CASE WriteState(fifo, <<dat>>) = "FIFO_SUCCESS"
    <3>1. fifo'.size = fifo.size - 1 /\ unread' = unread + 1
      BY <1>1, <2>2, PreemptFacts, WriteOne DEF Receive
    <3> QED BY <2>1, <3>1, PreemptFacts
  <2>3. CASE WriteState(fifo, <<dat>>) # "FIFO_SUCCESS"
    <3>1. fifo' = fifo /\ unread' = unread
      BY <1>1, <2>3, PreemptFacts, WriteOne DEF Receive
    <3> QED BY <2>1, <3>1, PreemptFacts
  <2> QED BY <2>2, <2>3
<1>3. Used(fifo') = Max - fifo'.size
  BY <1>2, UsedFacts
<1> QED
  BY <1>1, <1>2, <1>3, PreemptFacts DEF PreemptInv, TypeOK, NeverInventsData

LEMMA ReadPreempt ==
  ASSUME PreemptInv,
         \/ \E n \in Lengths : ReadCall(n)
         \/ CleanEnd \/ SizeLoad \/ SizeStore \/ ReadEnd
  PROVE  PreemptInv'
<1>1. ASSUME NEW n \in Lengths, ReadCall(n)
      PROVE  PreemptInv'
  <2>1. /\ fifo' = [fifo EXCEPT !.execution = @ \cup {"FIFO_READ"}]
        /\ length' = ReadLength(fifo, n) /\ pc' = "clean"
        /\ UNCHANGED <<room, received, unread>>
    BY <1>1 DEF ReadCall
  <2>2. fifo' \in Fifo /\ fifo'.size = fifo.size
    BY <2>1, PreemptFacts DEF Fifo, Execution
  <2>3. Used(fifo') = Max - fifo'.size
    BY <2>2, UsedFacts
  <2>4. n \in Nat
    BY PreemptAssumption
  <2>5. length' \in 0 .. (Max - fifo.size)
    BY <2>1, <2>4, PreemptFacts, UsedFacts
  <2> QED
    BY <2>1, <2>2, <2>3, <2>5, PreemptFacts
       DEF PreemptInv, TypeOK, NeverInventsData
<1>2. CASE CleanEnd
  <2>1. /\ fifo' = [fifo EXCEPT !.execution = @ \cup {"FIFO_CLEAR"},
                                !.end = Offset(fifo.end, length)]
        /\ pc = "clean" /\ pc' = "load"
        /\ UNCHANGED <<length, room, received, unread>>
    BY <1>2 DEF CleanEnd
  <2>2. Offset(fifo.end, length) \in Slot
    BY PreemptFacts, OffsetInSlot DEF Fifo
  <2>3. fifo' \in Fifo /\ fifo'.size = fifo.size
    BY <2>1, <2>2, PreemptFacts DEF Fifo, Execution
  <2>4. Used(fifo') = Max - fifo'.size
    BY <2>3, UsedFacts
  <2> QED
    BY <2>1, <2>3, <2>4, PreemptFacts DEF PreemptInv, TypeOK, NeverInventsData
<1>3. CASE SizeLoad
  BY <1>3, PreemptFacts DEF SizeLoad, PreemptInv, TypeOK, NeverInventsData, Used
<1>4. CASE SizeStore
  <2>1. /\ fifo' = [fifo EXCEPT !.size = room + length]
        /\ unread' = unread - length
        /\ pc = "store" /\ pc' = "end"
        /\ UNCHANGED <<length, room, received>>
    BY <1>4 DEF SizeStore
  <2>2. /\ room + length \in 0 .. Max
        /\ Max - room <= unread
    BY <2>1, PreemptFacts DEF PreemptInv
  <2>3. fifo' \in Fifo /\ fifo'.size = room + length
    BY <2>1, <2>2, PreemptFacts DEF Fifo
  <2>4. Used(fifo') = Max - fifo'.size
    BY <2>3, UsedFacts
  <2> QED
    BY <2>1, <2>2, <2>3, <2>4, PreemptFacts
       DEF PreemptInv, TypeOK, NeverInventsData
<1>5. CASE ReadEnd
  <2>1. /\ fifo' = [fifo EXCEPT !.execution = fifo.execution \cap {"FIFO_READ"}]
        /\ pc' = "idle"
        /\ UNCHANGED <<length, room, received, unread>>
    BY <1>5 DEF ReadEnd, EndRead
  <2>2. fifo' \in Fifo /\ fifo'.size = fifo.size
    BY <2>1, PreemptFacts DEF Fifo, Execution
  <2>3. Used(fifo') = Max - fifo'.size
    BY <2>2, UsedFacts
  <2> QED
    BY <2>1, <2>2, <2>3, PreemptFacts DEF PreemptInv, TypeOK, NeverInventsData
<1> QED BY <1>1, <1>2, <1>3, <1>4, <1>5

LEMMA PreemptInvariance == Spec => []PreemptInv
<1>1. PreemptInv /\ UNCHANGED vars => PreemptInv'
  BY DEF PreemptInv, TypeOK, NeverInventsData, vars
<1>2. PreemptInv /\ [Next]_vars => PreemptInv'
  BY <1>1, ReceivePreempt, ReadPreempt DEF Next
<1> QED BY <1>2, InitPreempt, PTL DEF Spec

\* Whatever preempts fifo_read_buffer, size stays between 0 and max.
THEOREM PreemptTypeCorrect == Spec => []TypeOK
<1>1. PreemptInv => TypeOK
  BY DEF PreemptInv
<1> QED BY <1>1, PreemptInvariance, PTL

\* Lost updates only ever hide bytes: fifo_used never counts one too many.
THEOREM NeverInvents == Spec => []NeverInventsData
<1>1. PreemptInv => NeverInventsData
  BY DEF PreemptInv
<1> QED BY <1>1, PreemptInvariance, PTL
=============================================================================
