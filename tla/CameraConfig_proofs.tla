------------------------- MODULE CameraConfig_proofs -------------------------
(***************************************************************************)
(* What mt9v03x_init takes for the camera's acknowledgement was sent for   *)
(* this attempt, for any timeout, size of the fifo and number of settings, *)
(* any loss, any lateness of the replies and any interrupt in the middle   *)
(* of a read; and as long as no call gave up on a reply still to come,     *)
(* every reply taken is the one to the command just sent.                  *)
(***************************************************************************)
EXTENDS CameraConfig, SequenceTheorems, TLAPS

Polling == {"poll", "read", "clean", "load", "store", "end", "take", "delay"}

\* The fifo is a fifo_struct whose size may have passed max.
FifoType ==
  fifo \in [execution : SUBSET F!Execution, buffer : [F!Slot -> Byte],
            head : F!Slot, end : F!Slot, size : 0 .. Word - 1]

\* Where main is.
CallInv ==
  /\ pc \in Polling => timeout_count <= MT9V03X_INIT_TIMEOUT
  /\ call = "get" => item \in 1 .. GetItems
  /\ pc = "ready" => call \in {"get", "user"}

\* A byte of an acknowledgement is this attempt's, and was carried out.
FreshFor(byte, dev) ==
  byte.of.call = "config" => byte.of.no = attempt /\ dev.attempt = attempt

Fresh(byte) == FreshFor(byte, device)

\* So is every such byte, wherever it is; and every command still to answer is
\* one of this attempt, or the user's.
FreshInv ==
  /\ \A k \in 1 .. Len(owed) :
       /\ owed[k].call = "config" => owed[k].no = attempt
       /\ owed[k].call = "user" => owed[k].no <= MaxUser
  /\ \A k \in 1 .. Len(wire) : Fresh(wire[k])
  /\ \A s \in F!Slot : Fresh(fifo.buffer[s])
  /\ pc \notin {"start", "send"} => \A k \in 1 .. 3 : Fresh(uart_buffer[k])

IInv == TypeOK /\ FifoType /\ CallInv /\ FreshInv /\ InitMeansConfigured
-----------------------------------------------------------------------------
(* The fifo's calls, when its size may have passed max. *)

LEMMA Constants ==
  /\ Size \in Nat /\ Size >= 3 /\ Word \in Nat /\ Word > 2 * Size
  /\ MT9V03X_INIT_TIMEOUT \in Nat /\ MT9V03X_INIT_TIMEOUT >= 1
  /\ GetItems \in Nat /\ GetItems >= 1 /\ MaxUser \in Nat
  /\ F!Slot = 0 .. Size - 1 /\ 0 \in F!Slot
  BY CameraAssumption DEF F!Slot

LEMMA OffsetInSlot ==
  ASSUME NEW idx \in F!Slot, NEW n \in 0 .. 3
  PROVE  F!Offset(idx, n) \in F!Slot
  BY Constants DEF F!Slot, F!Offset

LEMMA ZeroIsByte == Zero \in Byte /\ Zero.of.call # "config"
  BY DEF Zero, Byte, NoCommand

LEMMA EmptyFields ==
  /\ F!EmptyFifo.execution = {} /\ F!EmptyFifo.head = 0 /\ F!EmptyFifo.end = 0
  /\ F!EmptyFifo.size = Size
  /\ F!EmptyFifo.buffer = [s \in F!Slot |-> Zero]
  /\ F!EmptyFifo \in [execution : SUBSET F!Execution, buffer : [F!Slot -> Byte],
                      head : F!Slot, end : F!Slot, size : 0 .. Word - 1]
<1>1. Size \in 0 .. Word - 1 /\ 0 \in F!Slot
  BY Constants
<1>2. [s \in F!Slot |-> Zero] \in [F!Slot -> Byte]
  BY ZeroIsByte
<1> QED BY <1>1, <1>2 DEF F!EmptyFifo

\* fifo_clear: what it leaves are the old bytes or zeroes.
LEMMA ClearKeepsFifo ==
  ASSUME FifoType
  PROVE  LET c == F!Clear(fifo)
         IN  /\ c \in [execution : SUBSET F!Execution, buffer : [F!Slot -> Byte],
                       head : F!Slot, end : F!Slot, size : 0 .. Word - 1]
             /\ \A s \in F!Slot : c.buffer[s] \in {fifo.buffer[s], Zero}
<1>1. CASE "FIFO_CLEAR" \in fifo.execution
  BY <1>1 DEF F!Clear, FifoType
<1>2. CASE "FIFO_CLEAR" \notin fifo.execution
  <2> DEFINE e == F!EmptyFifo
             c == [e EXCEPT !.execution = fifo.execution]
  <2>1. F!Clear(fifo) = c
    BY <1>2 DEF F!Clear
  <2>2. /\ c \in [execution : SUBSET F!Execution, buffer : [F!Slot -> Byte],
                  head : F!Slot, end : F!Slot, size : 0 .. Word - 1]
        /\ c.buffer = [s \in F!Slot |-> Zero]
    <3> HIDE DEF e
    <3> QED BY EmptyFields DEF FifoType, e
  <2> HIDE DEF c
  <2> QED BY <2>1, <2>2
<1> QED BY <1>1, <1>2

\* fifo_write_element.
LEMMA WriteKeepsFifo ==
  ASSUME NEW f \in [execution : SUBSET F!Execution, buffer : [F!Slot -> Byte],
                    head : F!Slot, end : F!Slot, size : 0 .. Word - 1],
         NEW byte \in Byte
  PROVE  LET w == F!Write(f, <<byte>>)
         IN  /\ w \in [execution : SUBSET F!Execution, buffer : [F!Slot -> Byte],
                       head : F!Slot, end : F!Slot, size : 0 .. Word - 1]
             /\ \A s \in F!Slot : w.buffer[s] \in {f.buffer[s], byte}
<1> DEFINE new == <<byte>>
           b == [s \in F!Slot |-> IF F!Distance(f.head, s) < Len(new)
                                    THEN new[F!Distance(f.head, s) + 1]
                                    ELSE f.buffer[s]]
           w == F!Write(f, new)
<1>1. CASE F!WriteState(f, new) # "FIFO_SUCCESS"
  BY <1>1 DEF F!Write
<1>2. CASE F!WriteState(f, new) = "FIFO_SUCCESS"
  <2>1. Len(new) = 1 /\ new[1] = byte
    OBVIOUS
  <2>2. f.size >= 1
    BY <1>2, <2>1, Constants DEF F!WriteState
  <2>3. \A s \in F!Slot : b[s] \in {f.buffer[s], byte}
    <3> SUFFICES ASSUME NEW s \in F!Slot, F!Distance(f.head, s) < Len(new)
                 PROVE  new[F!Distance(f.head, s) + 1] = byte
      OBVIOUS
    <3>1. F!Distance(f.head, s) \in Nat
      BY Constants DEF F!Distance
    <3>2. F!Distance(f.head, s) + 1 = 1
      BY <2>1, <3>1
    <3> QED BY <2>1, <3>2
  <2>4. b \in [F!Slot -> Byte]
    <3>1. \A s \in F!Slot : f.buffer[s] \in Byte
      OBVIOUS
    <3>2. DOMAIN b = F!Slot /\ b = [s \in F!Slot |-> b[s]]
      OBVIOUS
    <3> HIDE DEF b
    <3> QED BY <2>3, <3>1, <3>2
  <2>5. /\ F!Offset(f.head, 1) \in F!Slot
        /\ f.size - 1 \in 0 .. Word - 1
    <3>1. f.head \in F!Slot /\ f.size \in 0 .. Word - 1 /\ 1 \in 0 .. 3
      OBVIOUS
    <3>2. F!Offset(f.head, 1) \in F!Slot
      BY <3>1, OffsetInSlot
    <3>3. f.size - 1 \in 0 .. Word - 1
      BY <2>2, <3>1, Constants
    <3> QED BY <3>2, <3>3
  <2>6. w = [f EXCEPT !.buffer = b, !.head = F!Offset(f.head, 1),
                      !.size = f.size - 1]
    BY <1>2, <2>1 DEF F!Write
  <2> HIDE DEF b, w, new
  <2>7. /\ w \in [execution : SUBSET F!Execution, buffer : [F!Slot -> Byte],
                  head : F!Slot, end : F!Slot, size : 0 .. Word - 1]
        /\ w.buffer = b
    BY <2>4, <2>5, <2>6
  <2> QED BY <2>3, <2>7 DEF w, new
<1> QED BY <1>1, <1>2
-----------------------------------------------------------------------------
(* What does not touch the replies keeps them fresh. *)

LEMMA FreshSame ==
  ASSUME FreshInv, UNCHANGED <<owed, wire, attempt, device>>,
         \A s \in F!Slot : fifo'.buffer[s] = fifo.buffer[s],
         pc' \notin {"start", "send"} =>
           pc \notin {"start", "send"} /\ uart_buffer' = uart_buffer
  PROVE  FreshInv'
  BY DEF FreshInv, Fresh, FreshFor

LEMMA Parts ==
  ASSUME IInv
  PROVE  /\ fifo.end \in F!Slot /\ fifo.size \in 0 .. Word - 1
         /\ fifo.execution \in SUBSET F!Execution
         /\ fifo.buffer \in [F!Slot -> Byte]
         /\ length \in 0 .. 3 /\ room \in 0 .. Word - 1
         /\ timeout_count \in Nat /\ attempt \in 0 .. 1 /\ user \in 0 .. MaxUser
         /\ item \in (0 .. GetItems) \cup Value /\ call \in Call
         /\ return_state \in 0 .. 1
         /\ owed \in Seq(Command) /\ wire \in Seq(Byte)
         /\ uart_buffer \in [1 .. 3 -> Byte]
         /\ device \in [attempt : -1 .. 1, user : 0 .. MaxUser]
  BY DEF IInv, TypeOK

\* The parts of the type invariant that a step of the fifo keeps.
LEMMA FifoParts ==
  ASSUME FifoType
  PROVE  /\ fifo.execution \subseteq F!Execution
         /\ fifo.buffer \in [F!Slot -> Byte]
         /\ fifo.head \in F!Slot /\ fifo.end \in F!Slot
         /\ fifo.size \in 0 .. Word - 1
  BY DEF FifoType

-----------------------------------------------------------------------------
(* mt9v03x_init and the calls by the user. *)

LEMMA InitIInv == Init => IInv
<1> SUFFICES ASSUME Init PROVE IInv
  OBVIOUS
<1>1. FifoType
  BY EmptyFields DEF Init, FifoType
<1>2. TypeOK
  <2>1. uart_buffer \in [1 .. 3 -> Byte]
    BY ZeroIsByte DEF Init
  <2>2. owed \in Seq(Command) /\ wire \in Seq(Byte)
    BY DEF Init
  <2>3. /\ attempt \in 0 .. 1 /\ user \in 0 .. MaxUser
        /\ timeout_count \in 0 .. MT9V03X_INIT_TIMEOUT + 1
        /\ length \in 0 .. 3 /\ room \in 0 .. Word - 1 /\ return_state \in 0 .. 1
        /\ item \in (0 .. GetItems) \cup Value
        /\ device \in [attempt : -1 .. 1, user : 0 .. MaxUser]
    BY Constants DEF Init
  <2> QED BY <1>1, <2>1, <2>2, <2>3, FifoParts DEF Init, TypeOK, Call
<1>3. CallInv /\ InitMeansConfigured
  BY DEF Init, CallInv, InitMeansConfigured, Polling
<1>4. FreshInv
  BY EmptyFields, ZeroIsByte DEF Init, FreshInv, Fresh, FreshFor
<1> QED BY <1>1, <1>2, <1>3, <1>4 DEF IInv

\* Nothing of the attempt before is left: the camera is silent and the fifo is
\* empty.
LEMMA StartKeepsIInv ==
  ASSUME IInv, Start
  PROVE  IInv'
<1> USE DEF IInv, Start, cameraVars, readVars
<1>1. /\ fifo' = F!EmptyFifo
      /\ fifo'.buffer = [s \in F!Slot |-> Zero]
  <2> DEFINE e == F!EmptyFifo
  <2>1. fifo' = [e EXCEPT !.execution = e.execution]
    BY EmptyFields DEF F!Clear
  <2>2. [e EXCEPT !.execution = e.execution] = e
    <3> HIDE DEF e
    <3> QED BY EmptyFields DEF e
  <2> QED BY <2>1, <2>2, EmptyFields
<1>2. FifoType'
  BY <1>1, EmptyFields DEF FifoType
<1>3. TypeOK'
  <2>1. attempt' \in 0 .. 1 /\ item' \in (0 .. GetItems) \cup Value
    BY Constants, Parts
  <2> QED BY <1>2, <2>1, FifoParts DEF TypeOK, Call, FifoType
<1>4. CallInv' /\ InitMeansConfigured'
  BY DEF CallInv, InitMeansConfigured, Polling
<1>5. FreshInv'
  <2>1. owed' = <<>> /\ wire' = <<>>
    BY DEF Quiet
  <2>2. \A s \in F!Slot : fifo'.buffer[s].of.call # "config"
    BY <1>1, ZeroIsByte
  <2> QED BY <2>1, <2>2 DEF FreshInv, Fresh, FreshFor
<1> QED BY <1>2, <1>3, <1>4, <1>5

LEMMA UserCallKeepsIInv ==
  ASSUME IInv, NEW value \in Value, UserCall(value)
  PROVE  IInv'
<1> USE DEF IInv, UserCall, cameraVars, readVars
<1>1. TypeOK' /\ FifoType'
  <2>1. user' \in 0 .. MaxUser
    <3>1. user \in 0 .. MaxUser /\ user < MaxUser /\ user' = user + 1
      BY DEF TypeOK
    <3> QED BY <3>1, Constants
  <2> QED BY <2>1 DEF TypeOK, FifoType, Call
<1>2. CallInv' /\ InitMeansConfigured'
  BY DEF CallInv, InitMeansConfigured, Polling
<1>3. FreshInv'
  BY FreshSame
<1> QED BY <1>1, <1>2, <1>3

\* The command is of this attempt; uart_buffer holds no reply.
LEMMA SendKeepsIInv ==
  ASSUME IInv, Send
  PROVE  IInv'
<1> USE DEF Send, callVars
<1>1. /\ Sent \in Command
      /\ Sent.call = "config" => Sent.no = attempt
      /\ Sent.call = "user" => Sent.no <= MaxUser
  <2>1. attempt \in 0 .. MaxUser + 1 /\ user \in 0 .. MaxUser + 1
        /\ user <= MaxUser
    BY SMTT(20), Parts, Constants
  <2> QED BY <2>1, Parts DEF Sent, Command
<1>2. /\ owed' \in Seq(Command)
      /\ Len(owed') = Len(owed) + 1
      /\ \A k \in 1 .. Len(owed) : owed'[k] = owed[k]
      /\ owed'[Len(owed) + 1] = Sent
  BY <1>1, Parts, AppendProperties
<1>3. uart_buffer' \in [1 .. 3 -> Byte]
      /\ \A k \in 1 .. 3 : uart_buffer'[k].of.call # "config"
  BY ZeroIsByte
<1>4. TypeOK' /\ FifoType'
  BY <1>2, <1>3, Constants DEF IInv, TypeOK, FifoType
<1>5. CallInv' /\ InitMeansConfigured'
  BY Constants DEF IInv, CallInv, InitMeansConfigured
<1>6. FreshInv'
  <2>1. \A k \in 1 .. Len(owed') :
          /\ owed'[k].call = "config" => owed'[k].no = attempt
          /\ owed'[k].call = "user" => owed'[k].no <= MaxUser
    <3> SUFFICES ASSUME NEW k \in 1 .. Len(owed')
                 PROVE  /\ owed'[k].call = "config" => owed'[k].no = attempt
                        /\ owed'[k].call = "user" => owed'[k].no <= MaxUser
      OBVIOUS
    <3>1. Len(owed) \in Nat
      BY Parts, LenProperties
    <3>2. k \in 1 .. Len(owed) \/ k = Len(owed) + 1
      BY <1>2, <3>1
    <3> QED BY <1>1, <1>2, <3>2 DEF IInv, FreshInv
  <2> QED BY <1>3, <2>1 DEF IInv, FreshInv, Fresh, FreshFor
<1> QED BY <1>4, <1>5, <1>6 DEF IInv
-----------------------------------------------------------------------------
(* The polling loop. *)

LEMMA PollKeepsIInv ==
  ASSUME IInv, Poll
  PROVE  IInv'
<1> USE DEF IInv, Poll, callVars, cameraVars, readVars
<1>1. TypeOK' /\ FifoType'
  BY DEF TypeOK, FifoType
<1>2. CallInv' /\ InitMeansConfigured'
  BY DEF CallInv, InitMeansConfigured, Polling
<1>3. FreshInv'
  BY FreshSame
<1> QED BY <1>1, <1>2, <1>3

\* What a read copies are bytes of the fifo, or what uart_buffer held.
LEMMA ReadCopyKeepsIInv ==
  ASSUME IInv, ReadCopy
  PROVE  IInv'
<1> DEFINE n == F!ReadLength(fifo, 3)
<1> USE DEF ReadCopy, callVars, cameraVars
<1>1. n \in 0 .. 3
  <2>1. F!Used(fifo) \in Nat
    <3>1. \A size \in 0 .. Word - 1 :
            (IF size <= Size THEN Size - size ELSE Size - size + Word) \in Nat
      BY SMTT(20), Constants
    <3> QED BY <3>1, Parts DEF F!Used
  <2> QED BY <2>1 DEF F!ReadLength, F!Least
<1>2. fifo' = [fifo EXCEPT !.execution = fifo.execution \cup {"FIFO_READ"}]
  OBVIOUS
<1>3. FifoType' /\ fifo'.buffer = fifo.buffer
  BY <1>2 DEF IInv, FifoType, F!Execution
<1>4. ASSUME NEW k \in 1 .. 3
      PROVE  \/ uart_buffer'[k] = uart_buffer[k]
             \/ \E s \in F!Slot : uart_buffer'[k] = fifo.buffer[s]
  <2> DEFINE s == F!Offset(fifo.end, k - 1)
  <2>1. s \in F!Slot
    <3>1. k - 1 \in 0 .. 3
      OBVIOUS
    <3> QED BY <3>1, Parts, OffsetInSlot
  <2>2. uart_buffer'[k] = IF k <= n THEN F!Elements(fifo, fifo.end, n)[k]
                                    ELSE uart_buffer[k]
    OBVIOUS
  <2>3. k <= n => F!Elements(fifo, fifo.end, n)[k] = fifo.buffer[s]
    <3> HIDE DEF n
    <3>1. k <= n => k \in 1 .. n
      BY <1>1
    <3> QED BY <3>1 DEF F!Elements
  <2> HIDE DEF s, n
  <2> QED BY <2>1, <2>2, <2>3
<1>5. uart_buffer' \in [1 .. 3 -> Byte]
  <2>1. \A k \in 1 .. 3 : uart_buffer'[k] \in Byte
    BY <1>4, Parts
  <2>2. uart_buffer' = [k \in 1 .. 3 |-> uart_buffer'[k]]
    OBVIOUS
  <2> QED BY <2>1, <2>2
<1> HIDE DEF n
<1>6. TypeOK'
  <2>1. length' \in 0 .. 3
    BY <1>1 DEF n
  <2>2. /\ fifo'.execution \subseteq F!Execution
        /\ fifo'.buffer \in [F!Slot -> Byte]
        /\ fifo'.head \in F!Slot /\ fifo'.end \in F!Slot
        /\ fifo'.size \in 0 .. Word - 1
    BY <1>3 DEF FifoType
  <2>3. UNCHANGED <<handler, call, item, attempt, user, timeout_count, room,
                    return_state, owed, wire, healthy, device, storm, overtaken>>
        /\ pc' = "clean"
    OBVIOUS
  <2> HIDE DEF ReadCopy
  <2> QED BY <1>5, <2>1, <2>2, <2>3 DEF IInv, TypeOK
<1>7. CallInv' /\ InitMeansConfigured'
  BY DEF IInv, CallInv, InitMeansConfigured, Polling
<1>8. FreshInv'
  <2>1. \A k \in 1 .. 3 : Fresh(uart_buffer'[k])
    BY <1>4 DEF IInv, FreshInv, Fresh, FreshFor
  <2>2. UNCHANGED <<owed, wire, attempt, device>>
    OBVIOUS
  <2> HIDE DEF ReadCopy
  <2> QED BY <1>3, <2>1, <2>2 DEF IInv, FreshInv, Fresh, FreshFor
<1> QED BY <1>3, <1>6, <1>7, <1>8 DEF IInv

\* A step that changes only the fifo's flags, end or size.
LEMMA FifoStepKeepsIInv ==
  ASSUME IInv, FifoType', fifo'.buffer = fifo.buffer,
         pc \in Polling, pc' \in Polling,
         UNCHANGED <<handler, callVars, timeout_count, readVars, return_state,
                     cameraVars, overtaken>>
  PROVE  IInv'
<1> USE DEF callVars, readVars, cameraVars
<1>1. TypeOK'
  <2>1. pc' \in {"start", "send", "poll", "read", "clean", "load", "store",
                 "end", "take", "delay", "timeout", "ready"}
    BY DEF Polling
  <2>2. /\ fifo'.execution \subseteq F!Execution
        /\ fifo'.buffer \in [F!Slot -> Byte]
        /\ fifo'.head \in F!Slot /\ fifo'.end \in F!Slot
        /\ fifo'.size \in 0 .. Word - 1
    BY DEF FifoType
  <2> QED BY <2>1, <2>2 DEF IInv, TypeOK
<1>2. CallInv' /\ InitMeansConfigured'
  BY DEF IInv, CallInv, InitMeansConfigured, Polling
<1>3. FreshInv'
  BY FreshSame DEF IInv, Polling
<1> QED BY <1>1, <1>2, <1>3 DEF IInv

LEMMA CleanEndKeepsIInv ==
  ASSUME IInv, CleanEnd
  PROVE  IInv'
<1>1. F!Offset(fifo.end, length) \in F!Slot
  BY Parts, OffsetInSlot
<1>2. fifo' = [fifo EXCEPT !.execution = fifo.execution \cup {"FIFO_CLEAR"},
                           !.end = F!Offset(fifo.end, length)]
  BY DEF CleanEnd
<1>3. FifoType' /\ fifo'.buffer = fifo.buffer
  BY <1>1, <1>2 DEF IInv, FifoType, F!Execution
<1> QED BY <1>3, FifoStepKeepsIInv DEF CleanEnd, Polling

LEMMA SizeLoadKeepsIInv ==
  ASSUME IInv, SizeLoad
  PROVE  IInv'
<1> USE DEF SizeLoad, callVars, cameraVars
<1>1. TypeOK' /\ FifoType'
  BY DEF IInv, TypeOK, FifoType
<1>2. CallInv' /\ InitMeansConfigured'
  BY DEF IInv, CallInv, InitMeansConfigured, Polling
<1>3. FreshInv'
  BY FreshSame DEF IInv
<1> QED BY <1>1, <1>2, <1>3 DEF IInv

\* The sum wraps at the width of the size.
LEMMA SizeStoreKeepsIInv ==
  ASSUME IInv, SizeStore
  PROVE  IInv'
<1>1. (room + length) % Word \in 0 .. Word - 1
  <2>1. room + length \in Nat
    BY SMTT(20), Parts, Constants
  <2> QED BY <2>1, Constants
<1>2. fifo' = [fifo EXCEPT !.size = (room + length) % Word]
  BY DEF SizeStore
<1>3. FifoType' /\ fifo'.buffer = fifo.buffer
  BY <1>1, <1>2 DEF IInv, FifoType
<1> QED BY <1>3, FifoStepKeepsIInv DEF SizeStore, Polling

LEMMA ReadEndKeepsIInv ==
  ASSUME IInv, ReadEnd
  PROVE  IInv'
<1>1. fifo' = [fifo EXCEPT !.execution = fifo.execution \cap {"FIFO_READ"}]
  BY DEF ReadEnd, F!EndRead
<1>2. FifoType' /\ fifo'.buffer = fifo.buffer
  BY <1>1 DEF IInv, FifoType
<1> QED BY <1>2, FifoStepKeepsIInv DEF ReadEnd, Polling

\* The acknowledgement that ends mt9v03x_set_config is fresh, so the camera has
\* been configured.
LEMMA TakeKeepsIInv ==
  ASSUME IInv, Take
  PROVE  IInv'
<1> USE DEF Take, Continue, Ready, callVars, cameraVars, readVars
<1>1. TypeOK' /\ FifoType'
  <2>1. item' \in (0 .. GetItems) \cup Value /\ call' \in Call
    <3>1. call = "get" => item \in 1 .. GetItems
      BY DEF IInv, CallInv
    <3>2. /\ GetItems \in 0 .. GetItems /\ 0 \in 0 .. GetItems
          /\ call = "get" /\ item > 1 => item - 1 \in 0 .. GetItems
      BY <3>1, Constants
    <3> QED BY <3>1, <3>2, Parts DEF Call
  <2>2. return_state' \in 0 .. 1
    BY Parts DEF UserResult
  <2>3. pc' \in {"send", "delay", "ready"}
    OBVIOUS
  <2>4. UNCHANGED <<fifo, handler, attempt, user, timeout_count, uart_buffer,
                    length, room, owed, wire, healthy, device, storm, overtaken>>
    OBVIOUS
  <2> HIDE DEF Take
  <2> QED BY <2>1, <2>2, <2>3, <2>4 DEF IInv, TypeOK, FifoType
<1>2. InitMeansConfigured'
  <2>1. CASE call = "config" /\ Acknowledges(uart_buffer)
    <3>1. PICK k \in 2 .. 3 : uart_buffer[k].of.call = "config"
      BY <2>1 DEF Acknowledges
    <3>2. Fresh(uart_buffer[k])
      BY DEF IInv, FreshInv
    <3> QED BY <3>1, <3>2 DEF Fresh, FreshFor, InitMeansConfigured
  <2>2. CASE ~(call = "config" /\ Acknowledges(uart_buffer))
    BY <2>2 DEF IInv, InitMeansConfigured
  <2> QED BY <2>1, <2>2
<1>3. CallInv'
  <2>1. call = "get" => item \in 1 .. GetItems
    BY DEF IInv, CallInv
  <2>2. GetItems \in 1 .. GetItems
    BY Constants
  <2>3. item > 1 /\ item \in 1 .. GetItems => item - 1 \in 1 .. GetItems
    BY Constants
  <2>4. timeout_count <= MT9V03X_INIT_TIMEOUT
    BY DEF IInv, CallInv, Polling
  <2> QED BY <2>1, <2>2, <2>3, <2>4 DEF CallInv, Polling
<1>4. FreshInv'
  BY FreshSame DEF IInv
<1> QED BY <1>1, <1>2, <1>3, <1>4 DEF IInv

LEMMA DelayKeepsIInv ==
  ASSUME IInv, Delay
  PROVE  IInv'
<1> USE DEF Delay, callVars, cameraVars, readVars
<1>1. timeout_count \in Nat /\ timeout_count <= MT9V03X_INIT_TIMEOUT
  BY Parts DEF IInv, CallInv, Polling
<1>2. TypeOK' /\ FifoType'
  <2>1. timeout_count' \in 0 .. MT9V03X_INIT_TIMEOUT + 1
    BY <1>1, Constants
  <2> QED BY <2>1 DEF IInv, TypeOK, FifoType
<1>3. CallInv' /\ InitMeansConfigured'
  BY <1>1, Constants DEF IInv, CallInv, InitMeansConfigured, Polling
<1>4. FreshInv'
  BY FreshSame DEF IInv
<1> QED BY <1>2, <1>3, <1>4 DEF IInv

LEMMA GiveUpKeepsIInv ==
  ASSUME IInv, GiveUp
  PROVE  IInv'
<1> USE DEF GiveUp, Continue, Ready, callVars, cameraVars, readVars
<1>1. TypeOK' /\ FifoType'
  <2>1. item' \in (0 .. GetItems) \cup Value /\ call' \in Call
    <3>1. 0 \in 0 .. GetItems
      BY Constants
    <3> QED BY <3>1, Parts DEF Call
  <2>2. return_state' \in 0 .. 1 /\ overtaken' \in BOOLEAN
    BY Parts DEF IInv, TypeOK, UserResult
  <2>3. /\ pc' \in {"send", "start", "ready"}
        /\ handler' \in {"type_default_callback", "mt9v03x_uart_callback"}
    BY DEF IInv, TypeOK
  <2>4. UNCHANGED <<fifo, attempt, user, timeout_count, uart_buffer, length,
                    room, owed, wire, healthy, device, storm>>
    OBVIOUS
  <2> HIDE DEF GiveUp
  <2> QED BY <2>1, <2>2, <2>3, <2>4 DEF IInv, TypeOK, FifoType
<1>2. CallInv' /\ InitMeansConfigured'
  BY DEF IInv, CallInv, InitMeansConfigured, Polling
<1>3. FreshInv'
  BY FreshSame DEF IInv
<1> QED BY <1>1, <1>2, <1>3 DEF IInv
-----------------------------------------------------------------------------
(* The receive interrupt and the camera. *)

LEMMA ByteArrivesKeepsIInv ==
  ASSUME IInv, ByteArrives
  PROVE  IInv'
<1> DEFINE byte == Head(wire)
           c == IF byte.head THEN F!Clear(fifo) ELSE fifo
<1>1. CASE handler = "mt9v03x_uart_callback"
  <2>1. /\ fifo' = F!Write(c, <<byte>>) /\ wire' = Tail(wire)
        /\ wire \in Seq(Byte) /\ wire # <<>>
        /\ UNCHANGED <<handler, pc, call, item, attempt, user, timeout_count,
                       uart_buffer, length, room, return_state, owed, healthy,
                       device, storm, overtaken>>
    BY <1>1, Parts DEF ByteArrives, Received, callVars, readVars
  <2>2. /\ byte \in Byte /\ byte = wire[1] /\ 1 \in 1 .. Len(wire)
        /\ Tail(wire) \in Seq(Byte)
        /\ \A k \in 1 .. Len(Tail(wire)) :
             k + 1 \in 1 .. Len(wire) /\ Tail(wire)[k] = wire[k + 1]
    <3>1. /\ Len(wire) \in Nat \ {0} /\ byte \in Byte
          /\ Tail(wire) \in Seq(Byte) /\ Len(Tail(wire)) = Len(wire) - 1
          /\ \A k \in 1 .. Len(Tail(wire)) : Tail(wire)[k] = wire[k + 1]
      BY <2>1, HeadTailProperties, EmptySeq
    <3>2. byte = wire[1]
      BY <2>1
    <3> QED BY <3>1, <3>2
  <2>3. /\ c \in [execution : SUBSET F!Execution, buffer : [F!Slot -> Byte],
                  head : F!Slot, end : F!Slot, size : 0 .. Word - 1]
        /\ \A s \in F!Slot : c.buffer[s] \in {fifo.buffer[s], Zero}
    BY ClearKeepsFifo DEF IInv, FifoType
  <2> HIDE DEF byte, c
  <2>4. /\ FifoType'
        /\ \A s \in F!Slot : fifo'.buffer[s] \in {c.buffer[s], byte}
    BY <2>1, <2>2, <2>3, WriteKeepsFifo DEF FifoType
  <2>5. TypeOK'
    <3>1. /\ fifo'.execution \subseteq F!Execution
          /\ fifo'.buffer \in [F!Slot -> Byte]
          /\ fifo'.head \in F!Slot /\ fifo'.end \in F!Slot
          /\ fifo'.size \in 0 .. Word - 1
      BY <2>4 DEF FifoType
    <3> QED BY <2>1, <2>2, <3>1 DEF IInv, TypeOK
  <2>6. CallInv' /\ InitMeansConfigured'
    BY <2>1 DEF IInv, CallInv, InitMeansConfigured
  <2>7. FreshInv'
    <3>1. Fresh(byte)
      BY <2>2 DEF IInv, FreshInv
    <3>2. \A s \in F!Slot : Fresh(fifo'.buffer[s])
      BY <2>3, <2>4, <3>1, ZeroIsByte DEF IInv, FreshInv, Fresh, FreshFor
    <3>3. \A k \in 1 .. Len(wire') : Fresh(wire'[k])
      BY <2>1, <2>2 DEF IInv, FreshInv
    <3> QED BY <2>1, <3>2, <3>3 DEF IInv, FreshInv, Fresh, FreshFor
  <2> QED BY <2>4, <2>5, <2>6, <2>7 DEF IInv
<1>2. CASE handler # "mt9v03x_uart_callback"
  <2> USE <1>2 DEF ByteArrives, callVars, readVars
  <2>1. TypeOK' /\ FifoType'
    BY DEF IInv, TypeOK, FifoType
  <2>2. CallInv' /\ InitMeansConfigured'
    BY DEF IInv, CallInv, InitMeansConfigured
  <2>3. FreshInv'
    BY FreshSame DEF IInv
  <2> QED BY <2>1, <2>2, <2>3 DEF IInv
<1> QED BY <1>1, <1>2

\* What the camera carries out is of this attempt.
LEMMA CarriedOutIsFresh ==
  ASSUME IInv, owed # <<>>, NEW d, d \in {device, CarriedOut(Head(owed))}
  PROVE  /\ Head(owed) \in Command
         /\ Head(owed).call = "config" => Head(owed).no = attempt
         /\ d \in [attempt : -1 .. 1, user : 0 .. MaxUser]
         /\ d.attempt = device.attempt \/ d.attempt = attempt
         /\ d = CarriedOut(Head(owed)) /\ Head(owed).call = "config" =>
              d.attempt = attempt
         /\ Tail(owed) \in Seq(Command)
         /\ \A k \in 1 .. Len(Tail(owed)) :
              k + 1 \in 1 .. Len(owed) /\ Tail(owed)[k] = owed[k + 1]
<1> DEFINE command == Head(owed)
<1>1. /\ Len(owed) \in Nat \ {0} /\ command \in Command /\ command = owed[1]
      /\ Tail(owed) \in Seq(Command) /\ Len(Tail(owed)) = Len(owed) - 1
      /\ \A k \in 1 .. Len(Tail(owed)) : Tail(owed)[k] = owed[k + 1]
  BY Parts, HeadTailProperties, EmptySeq
<1>2. /\ command.call = "config" => command.no = attempt
      /\ command.call = "user" => command.no <= MaxUser
  BY <1>1 DEF IInv, FreshInv
<1>3. /\ device \in [attempt : -1 .. 1, user : 0 .. MaxUser]
      /\ attempt \in -1 .. 1
  BY Parts
<1>4. command.call = "user" => command.no \in 0 .. MaxUser
  BY <1>1, <1>2, Constants DEF Command
<1> HIDE DEF command
<1>5. /\ d \in [attempt : -1 .. 1, user : 0 .. MaxUser]
      /\ d.attempt = device.attempt \/ d.attempt = attempt
      /\ d = CarriedOut(command) /\ command.call = "config" =>
           d.attempt = attempt
  <2>1. CASE d = device /\ d # CarriedOut(command)
    BY <1>3, <2>1
  <2>2. CASE d = CarriedOut(command) /\ command.call = "config"
    <3>1. d = [device EXCEPT !.attempt = attempt]
      BY <1>2, <2>2 DEF CarriedOut
    <3> QED BY <1>3, <2>2, <3>1
  <2>3. CASE d = CarriedOut(command) /\ command.call = "user"
    <3>1. d = [device EXCEPT !.user = command.no]
      BY <2>3 DEF CarriedOut
    <3> QED BY <1>3, <1>4, <2>3, <3>1
  <2>4. CASE d = CarriedOut(command) /\ command.call \notin {"config", "user"}
    <3>1. d = device
      BY <2>4 DEF CarriedOut
    <3> QED BY <1>3, <2>4, <3>1
  <2> QED BY <2>1, <2>2, <2>3, <2>4 DEF command
<1>6. \A k \in 1 .. Len(Tail(owed)) : k + 1 \in 1 .. Len(owed)
  BY <1>1
<1> QED BY <1>1, <1>2, <1>5, <1>6 DEF command

\* A step of the camera that takes a command away and replies with fresh bytes.
LEMMA CameraStepKeepsIInv ==
  ASSUME IInv, owed # <<>>, owed' = Tail(owed),
         device' \in {device, CarriedOut(Head(owed))},
         wire' \in Seq(Byte), \A k \in 1 .. Len(wire') :
                                (\E j \in 1 .. Len(wire) : wire'[k] = wire[j])
                                \/ FreshFor(wire'[k], device'),
         UNCHANGED <<fifo, handler, pc, callVars, timeout_count, readVars,
                     return_state, healthy, overtaken, storm>>
  PROVE  IInv'
<1> USE DEF callVars, readVars
<1>1. /\ device' \in [attempt : -1 .. 1, user : 0 .. MaxUser]
      /\ device'.attempt = device.attempt \/ device'.attempt = attempt
      /\ Tail(owed) \in Seq(Command)
      /\ \A k \in 1 .. Len(Tail(owed)) :
           k + 1 \in 1 .. Len(owed) /\ Tail(owed)[k] = owed[k + 1]
  BY CarriedOutIsFresh
<1>2. TypeOK' /\ FifoType'
  BY <1>1 DEF IInv, TypeOK, FifoType
<1>3. CallInv' /\ InitMeansConfigured'
  BY <1>1 DEF IInv, CallInv, InitMeansConfigured
<1>4. FreshInv'
  <2>1. \A byte : Fresh(byte) => FreshFor(byte, device')
    BY <1>1 DEF Fresh, FreshFor
  <2>2. \A k \in 1 .. Len(wire') : FreshFor(wire'[k], device')
    BY <2>1 DEF IInv, FreshInv
  <2>3. /\ \A s \in F!Slot : FreshFor(fifo.buffer[s], device')
        /\ pc \notin {"start", "send"} =>
             \A k \in 1 .. 3 : FreshFor(uart_buffer[k], device')
    BY <2>1 DEF IInv, FreshInv
  <2>4. \A k \in 1 .. Len(owed') :
          /\ owed'[k].call = "config" => owed'[k].no = attempt
          /\ owed'[k].call = "user" => owed'[k].no <= MaxUser
    BY <1>1 DEF IInv, FreshInv
  <2> QED BY <2>2, <2>3, <2>4 DEF FreshInv, Fresh, FreshFor
<1> QED BY <1>2, <1>3, <1>4 DEF IInv

LEMMA RepliesKeepsIInv ==
  ASSUME IInv, NEW hidden \in SUBSET (2 .. 3), NEW n \in 1 .. 3,
         Replies(hidden, n)
  PROVE  IInv'
<1> DEFINE command == Head(owed)
           reply == [k \in 1 .. n |->
                       [of |-> command, pos |-> k, head |-> k = 1 \/ k \in hidden]]
<1>1. /\ owed # <<>> /\ owed' = Tail(owed) /\ wire' = wire \o reply
      /\ device' = CarriedOut(command)
      /\ UNCHANGED <<fifo, handler, pc, callVars, timeout_count, readVars,
                     return_state, healthy, overtaken, storm>>
  BY DEF Replies
<1>2. /\ command \in Command
      /\ command.call = "config" => command.no = attempt
      /\ command.call = "config" => device'.attempt = attempt
  BY <1>1, CarriedOutIsFresh
<1> HIDE DEF command
<1>4. /\ reply \in Seq(Byte) /\ Len(reply) = n
      /\ \A k \in 1 .. n : reply[k].of = command
  <2>1. \A k \in 1 .. n :
          [of |-> command, pos |-> k, head |-> k = 1 \/ k \in hidden] \in Byte
    <3> SUFFICES ASSUME NEW k \in 1 .. n
                 PROVE  [of |-> command, pos |-> k,
                         head |-> k = 1 \/ k \in hidden] \in Byte
      OBVIOUS
    <3>1. k \in 1 .. 3
      OBVIOUS
    <3>2. (k = 1 \/ k \in hidden) \in BOOLEAN
      OBVIOUS
    <3> QED BY <1>2, <3>1, <3>2 DEF Byte
  <2>2. n \in Nat
    OBVIOUS
  <2> QED BY <2>1, <2>2
<1>5. \A k \in 1 .. n : FreshFor(reply[k], device')
  BY <1>2, <1>4 DEF FreshFor
<1> HIDE DEF reply
<1>6. wire' \in Seq(Byte)
      /\ \A k \in 1 .. Len(wire') :
           (\E j \in 1 .. Len(wire) : wire'[k] = wire[j]) \/ FreshFor(wire'[k], device')
  <2>1. /\ wire' \in Seq(Byte) /\ Len(wire') = Len(wire) + n
        /\ \A k \in 1 .. Len(wire) + n :
             wire'[k] = IF k <= Len(wire) THEN wire[k] ELSE reply[k - Len(wire)]
    BY <1>1, <1>4, Parts, ConcatProperties
  <2>2. Len(wire) \in Nat
    BY Parts, LenProperties
  <2>3. ASSUME NEW k \in 1 .. Len(wire'), k > Len(wire)
        PROVE  FreshFor(wire'[k], device')
    <3>1. k - Len(wire) \in 1 .. n /\ wire'[k] = reply[k - Len(wire)]
      BY <2>1, <2>2, <2>3
    <3> QED BY <1>5, <3>1
  <2>4. ASSUME NEW k \in 1 .. Len(wire'), ~(k > Len(wire))
        PROVE  \E j \in 1 .. Len(wire) : wire'[k] = wire[j]
    BY <2>1, <2>2, <2>4
  <2> QED BY <2>1, <2>3, <2>4
<1> QED BY <1>1, <1>6, CameraStepKeepsIInv DEF command

LEMMA LosesKeepsIInv ==
  ASSUME IInv, NEW carriedOut \in BOOLEAN, Loses(carriedOut)
  PROVE  IInv'
<1>1. wire' \in Seq(Byte) /\ wire' = wire
  BY Parts DEF Loses
<1> QED BY <1>1, CameraStepKeepsIInv DEF Loses

LEMMA RecoversKeepsIInv ==
  ASSUME IInv, Recovers
  PROVE  IInv'
<1> USE DEF Recovers, callVars, readVars
<1>1. TypeOK' /\ FifoType'
  BY DEF IInv, TypeOK, FifoType
<1>2. CallInv' /\ InitMeansConfigured'
  BY DEF IInv, CallInv, InitMeansConfigured
<1>3. FreshInv'
  BY FreshSame DEF IInv
<1> QED BY <1>1, <1>2, <1>3 DEF IInv

-----------------------------------------------------------------------------
(* The theorems. *)

LEMMA NextKeepsIInv == IInv /\ [Next]_vars => IInv'
<1> SUFFICES ASSUME IInv, [Next]_vars PROVE IInv'
  OBVIOUS
<1>1. CASE Main
  BY <1>1, StartKeepsIInv, UserCallKeepsIInv, SendKeepsIInv, PollKeepsIInv,
     ReadCopyKeepsIInv, CleanEndKeepsIInv, SizeLoadKeepsIInv,
     SizeStoreKeepsIInv, ReadEndKeepsIInv, TakeKeepsIInv, DelayKeepsIInv,
     GiveUpKeepsIInv DEF Main
<1>2. CASE Responds
  BY <1>2, RepliesKeepsIInv, LosesKeepsIInv DEF Responds
<1>3. CASE UNCHANGED vars
  <2> USE <1>3 DEF vars, callVars, readVars, cameraVars
  <2>1. TypeOK' /\ FifoType'
    BY DEF IInv, TypeOK, FifoType
  <2>2. CallInv' /\ InitMeansConfigured'
    BY DEF IInv, CallInv, InitMeansConfigured
  <2>3. FreshInv'
    BY FreshSame DEF IInv
  <2> QED BY <2>1, <2>2, <2>3 DEF IInv
<1> QED
  BY <1>1, <1>2, <1>3, ByteArrivesKeepsIInv, RecoversKeepsIInv DEF Next

\* The indices of camera_receiver_fifo stay in its array although the interrupt
\* clears it in the middle of a read and its size may pass max.
THEOREM TypeCorrect == Spec => []TypeOK
<1>1. IInv => TypeOK
  BY DEF IInv
<1> QED BY <1>1, InitIInv, NextKeepsIInv, PTL DEF Spec

\* mt9v03x_init goes on to read the configuration back, and main to the demo,
\* only when the camera has carried out this attempt's initialisation.
THEOREM AcknowledgementIsFresh == Spec => []InitMeansConfigured
<1>1. IInv => InitMeansConfigured
  BY DEF IInv
<1> QED BY <1>1, InitIInv, NextKeepsIInv, PTL DEF Spec

-----------------------------------------------------------------------------
(* The reply that is taken is the one to the command just sent.           *)
(* OwnSteps says where the bytes of that one reply are: still owed, under  *)
(* way, in the fifo behind its last head byte, or in uart_buffer.          *)

\* No clear or write is under way, and the indices of the fifo agree with its
\* size.
Settled ==
  /\ "FIFO_CLEAR" \notin fifo.execution /\ "FIFO_WRITE" \notin fifo.execution
  /\ fifo.size <= Size
  /\ fifo.head = F!Offset(fifo.end, Size - fifo.size)

\* What a read would find: how many bytes, and which.
Unread == Size - fifo.size
Element(k) == fifo.buffer[F!Offset(fifo.end, k - 1)]

\* byte is number p of the reply to the command just sent.
OwnByte(byte, p) == byte.of = Sent /\ byte.pos = p
OwnReply == \A k \in 1 .. 3 : OwnByte(uart_buffer[k], k)

\* The camera has done what the user asked for last.
Done == call = "user" => device.user = user

\* The first p bytes of the reply have come; the others under way follow them.
Follows(p) ==
  /\ owed = <<>> /\ Done
  /\ \A k \in 1 .. Len(wire) : OwnByte(wire[k], p + k)

\* The camera has not replied yet; its reply is under way; its reply has come up
\* to byte p, and the fifo ends with that byte and holds nothing else; there is
\* nothing to wait for.
Awaited == owed = <<Sent>> /\ wire = <<>> /\ Unread < 3
Begins == Follows(0) /\ wire # <<>> /\ wire[1].head /\ Unread < 3
Arrived(p) ==
  /\ Follows(p) /\ Unread <= p
  /\ \A k \in 1 .. Unread : OwnByte(Element(k), p - Unread + k)
Over == Quiet /\ Unread < 3

Waiting == Settled /\ (Awaited \/ Begins \/ Over \/ \E p \in 1 .. 3 : Arrived(p))

\* The reply has been copied, and nothing can come before the read is finished.
Copied ==
  /\ Quiet /\ Done /\ OwnReply
  /\ length = 3 /\ "FIFO_WRITE" \notin fifo.execution

\* What holds at each step of main as long as no call was overtaken.
OwnSteps ==
  /\ pc \in {"send", "ready"} => Settled /\ Over
  /\ pc \in {"poll", "delay", "timeout"} => Waiting
  /\ pc = "read" => Settled /\ Unread = 3 /\ Arrived(3)
  /\ pc \in {"clean", "load", "store", "end", "take"} => Copied
  /\ pc = "clean" => Settled
  /\ pc \in {"clean", "load", "store"} => fifo.size = Size - 3
  /\ pc \in {"load", "store", "end"} => fifo.head = fifo.end
  /\ pc = "store" => room = Size - 3
  /\ pc = "end" => fifo.size = Size
  /\ pc = "take" => Settled /\ Unread = 0

\* A user's call runs to its end, and one that gives up does so at the timeout.
UserInv ==
  /\ user = 0 \/ call = "user"
  /\ pc = "start" => call # "user"
  /\ pc = "timeout" => timeout_count > MT9V03X_INIT_TIMEOUT

\* The inductive invariant: what a polling loop takes is its own reply.
OwnInv == UserInv /\ (~overtaken => OwnSteps) /\ SuccessMeansSet

-----------------------------------------------------------------------------
(* The fifo while its indices agree. *)

LEMMA SettledFacts ==
  ASSUME IInv, Settled
  PROVE  F!Used(fifo) = Unread /\ Unread \in 0 .. Size /\ fifo.size \in 0 .. Size
<1>1. fifo.size \in 0 .. Size
  <2>1. fifo.size \in Nat /\ fifo.size <= Size
    BY Parts DEF Settled
  <2> QED BY <2>1, Constants
<1> QED BY <1>1, Constants DEF Unread, F!Used

\* Moving on by one slot after n is moving on by n + 1.
LEMMA NextSlot ==
  ASSUME NEW idx \in F!Slot, NEW n \in 0 .. Size - 1
  PROVE  /\ F!Offset(idx, n) \in F!Slot
         /\ F!Offset(F!Offset(idx, n), 1) = F!Offset(idx, n + 1)
         /\ \A k \in 0 .. n - 1 : F!Offset(idx, k) \in F!Slot
                                    /\ F!Distance(F!Offset(idx, n), F!Offset(idx, k)) > 0
         /\ F!Distance(F!Offset(idx, n), F!Offset(idx, n)) = 0
  BY Constants DEF F!Offset, F!Distance, F!Slot

\* fifo_write_element when there is room: the byte comes last.
LEMMA WriteComesLast ==
  ASSUME NEW f \in [execution : SUBSET F!Execution, buffer : [F!Slot -> Byte],
                    head : F!Slot, end : F!Slot, size : 0 .. Word - 1],
         NEW byte \in Byte, "FIFO_WRITE" \notin f.execution,
         f.size \in 1 .. Size, f.head = F!Offset(f.end, Size - f.size)
  PROVE  LET w == F!Write(f, <<byte>>)
         IN  /\ w.execution = f.execution /\ w.end = f.end
             /\ w.size = f.size - 1
             /\ w.head = F!Offset(f.end, Size - w.size)
             /\ w.buffer[F!Offset(f.end, Size - f.size)] = byte
             /\ \A k \in 0 .. Size - f.size - 1 :
                  w.buffer[F!Offset(f.end, k)] = f.buffer[F!Offset(f.end, k)]
<1> DEFINE new == <<byte>>
           b == [s \in F!Slot |-> IF F!Distance(f.head, s) < Len(new)
                                    THEN new[F!Distance(f.head, s) + 1]
                                    ELSE f.buffer[s]]
           w == F!Write(f, new)
           n == Size - f.size
<1>1. Len(new) = 1 /\ new[1] = byte
  OBVIOUS
<1>2. F!WriteState(f, new) = "FIFO_SUCCESS"
  BY <1>1 DEF F!WriteState
<1>3. w = [f EXCEPT !.buffer = b, !.head = F!Offset(f.head, 1),
                    !.size = f.size - 1]
  BY <1>1, <1>2 DEF F!Write
<1>4. n \in 0 .. Size - 1 /\ f.end \in F!Slot /\ Size - (f.size - 1) = n + 1
  BY Constants
<1> HIDE DEF n, w, new
<1>5. /\ F!Offset(f.end, n) \in F!Slot
      /\ F!Offset(F!Offset(f.end, n), 1) = F!Offset(f.end, n + 1)
      /\ \A k \in 0 .. n - 1 : F!Offset(f.end, k) \in F!Slot
                                 /\ F!Distance(F!Offset(f.end, n), F!Offset(f.end, k)) > 0
      /\ F!Distance(F!Offset(f.end, n), F!Offset(f.end, n)) = 0
  BY <1>4, NextSlot
<1>6. f.head = F!Offset(f.end, n)
  BY DEF n
<1>7. b[F!Offset(f.end, n)] = byte
  BY <1>1, <1>5, <1>6
<1>8. ASSUME NEW k \in 0 .. n - 1
      PROVE  b[F!Offset(f.end, k)] = f.buffer[F!Offset(f.end, k)]
  <2>1. F!Offset(f.end, k) \in F!Slot
        /\ F!Distance(F!Offset(f.end, n), F!Offset(f.end, k)) > 0
    BY <1>5
  <2>2. F!Distance(F!Offset(f.end, n), F!Offset(f.end, k)) \in Int
    BY <1>5, <2>1, Constants DEF F!Distance
  <2> QED BY <1>1, <1>6, <2>1, <2>2
<1> HIDE DEF b
<1>9. /\ w.buffer = b /\ w.head = F!Offset(f.head, 1) /\ w.size = f.size - 1
      /\ w.execution = f.execution /\ w.end = f.end
  BY <1>3
<1> QED
  <2>1. w.head = F!Offset(f.end, Size - w.size)
    BY <1>4, <1>5, <1>6, <1>9
  <2>2. w.buffer[F!Offset(f.end, Size - f.size)] = byte
    BY <1>7, <1>9 DEF n
  <2>3. \A k \in 0 .. Size - f.size - 1 :
          w.buffer[F!Offset(f.end, k)] = f.buffer[F!Offset(f.end, k)]
    BY <1>8, <1>9 DEF n
  <2> QED BY <1>9, <2>1, <2>2, <2>3 DEF w, new

\* fifo_clear when no other clear is under way.
LEMMA ClearEmpties ==
  ASSUME IInv, Settled
  PROVE  LET c == F!Clear(fifo)
         IN  /\ c.execution = fifo.execution /\ c.size = Size
             /\ c.end = 0 /\ c.head = 0
<1> DEFINE e == F!EmptyFifo
<1>1. F!Clear(fifo) = [e EXCEPT !.execution = fifo.execution]
  BY DEF F!Clear, Settled
<1>2. /\ DOMAIN e = {"execution", "buffer", "head", "end", "size"}
      /\ e.head = 0 /\ e.end = 0 /\ e.size = Size
  BY DEF F!EmptyFifo
<1> HIDE DEF e
<1> QED BY <1>1, <1>2

-----------------------------------------------------------------------------
(* What a step leaves alone. *)

LEMMA WaitingSame ==
  ASSUME Waiting, UNCHANGED <<fifo, owed, wire, callVars, device>>
  PROVE  Waiting'
<1> USE DEF callVars
<1>1. Settled' /\ Unread' = Unread /\ Sent' = Sent
  BY DEF Waiting, Settled, Unread, Sent
<1>2. \A p \in 0 .. 3 : Follows(p) => Follows(p)'
  BY <1>1 DEF Follows, Done, OwnByte
<1>3. \A k : Element(k)' = Element(k)
  BY DEF Element
<1>4. \A p \in 1 .. 3 : Arrived(p) => Arrived(p)'
  BY <1>1, <1>2, <1>3 DEF Arrived, OwnByte
<1>5. (Awaited => Awaited') /\ (Begins => Begins') /\ (Over => Over')
  BY <1>1, <1>2 DEF Awaited, Begins, Over, Quiet
<1> QED BY <1>1, <1>4, <1>5 DEF Waiting

LEMMA SettledSame ==
  ASSUME UNCHANGED fifo
  PROVE  Settled' = Settled /\ Unread' = Unread /\ F!Used(fifo)' = F!Used(fifo)
  BY DEF Settled, Unread

\* The camera goes on being silent.
LEMMA OverSame ==
  ASSUME Settled, Over, UNCHANGED <<fifo, owed, wire>>
  PROVE  Settled' /\ Over'
  BY SettledSame DEF Over, Quiet

-----------------------------------------------------------------------------
(* Main. *)

LEMMA InitOwn == Init => OwnInv
  BY DEF Init, OwnInv, UserInv, OwnSteps, SuccessMeansSet

\* A new attempt begins with an empty fifo and a silent camera.
LEMMA StartKeepsOwn ==
  ASSUME IInv, OwnInv, Start
  PROVE  OwnInv'
<1> DEFINE e == F!EmptyFifo
<1>1. /\ fifo' = [e EXCEPT !.execution = e.execution]
      /\ DOMAIN e = {"execution", "buffer", "head", "end", "size"}
  BY EmptyFields DEF Start, F!Clear, F!EmptyFifo
<1>2. /\ e.execution = {} /\ e.head = 0 /\ e.end = 0 /\ e.size = Size
  BY EmptyFields
<1> HIDE DEF e
<1>3. fifo'.execution = {} /\ fifo'.head = 0 /\ fifo'.end = 0 /\ fifo'.size = Size
  BY <1>1, <1>2
<1>4. Settled' /\ Unread' = 0
  BY <1>3, Constants DEF Settled, Unread, F!Offset
<1>5. Over'
  BY <1>4 DEF Over, Quiet, Start, cameraVars
<1>6. UserInv'
  BY DEF OwnInv, UserInv, Start
<1> QED BY <1>4, <1>5, <1>6 DEF OwnInv, OwnSteps, SuccessMeansSet, Start

LEMMA UserCallKeepsOwn ==
  ASSUME IInv, OwnInv, NEW value \in Value, UserCall(value)
  PROVE  OwnInv'
<1> USE DEF UserCall, cameraVars
<1>1. ~overtaken => Settled' /\ Over'
  BY OverSame DEF OwnInv, OwnSteps
<1>2. UserInv'
  BY DEF UserInv
<1> QED BY <1>1, <1>2 DEF OwnInv, OwnSteps, SuccessMeansSet

LEMMA SendKeepsOwn ==
  ASSUME IInv, OwnInv, Send
  PROVE  OwnInv'
<1> USE DEF Send, callVars
<1>1. UserInv'
  BY DEF OwnInv, UserInv
<1>2. ASSUME ~overtaken PROVE Waiting'
  <2>1. Settled /\ Over
    BY <1>2 DEF OwnInv, OwnSteps
  <2>2. Settled' /\ Unread' = Unread /\ Sent' = Sent
    BY <2>1, SettledSame DEF Sent
  <2>3. owed' = <<Sent>> /\ wire' = <<>>
    BY <2>1 DEF Over, Quiet
  <2> QED BY <2>1, <2>2, <2>3 DEF Over, Waiting, Awaited
<1> QED BY <1>1, <1>2 DEF OwnInv, OwnSteps, SuccessMeansSet

\* Three bytes are the reply, and nothing is under way.
LEMMA PollKeepsOwn ==
  ASSUME IInv, OwnInv, Poll
  PROVE  OwnInv'
<1> USE DEF Poll, callVars, cameraVars, readVars
<1>1. UserInv'
  BY DEF OwnInv, UserInv
<1>2. CASE overtaken
  BY <1>1, <1>2 DEF OwnInv, SuccessMeansSet
<1>3. CASE ~overtaken
  <2>1. Waiting
    BY <1>3 DEF OwnInv, OwnSteps
  <2>2. Waiting'
    BY <2>1, WaitingSame
  <2>3. ASSUME 3 <= F!Used(fifo) PROVE Settled' /\ Unread' = 3 /\ Arrived(3)'
    <3>1. Settled' /\ 3 <= Unread' /\ Unread' \in Int
      BY <2>1, <2>3, SettledFacts, SettledSame, Constants DEF Waiting
    <3>2. ~Awaited' /\ ~Begins' /\ ~Over'
      BY <3>1 DEF Awaited, Begins, Over
    <3>3. PICK p \in 1 .. 3 : Arrived(p)'
      BY <2>2, <3>2 DEF Waiting
    <3>4. Unread' <= p
      BY <3>3 DEF Arrived
    <3>5. p = 3 /\ Unread' = 3
      BY <3>1, <3>4
    <3> QED BY <3>1, <3>3, <3>5
  <2> QED BY <1>1, <2>2, <2>3 DEF OwnInv, OwnSteps, SuccessMeansSet
<1> QED BY <1>2, <1>3

\* No byte can follow the third.
LEMMA NothingFollows ==
  ASSUME IInv, Follows(3)
  PROVE  Quiet
<1>1. wire \in Seq(Byte) /\ Len(wire) \in Nat
  BY Parts, LenProperties
<1>2. ASSUME wire # <<>> PROVE FALSE
  <2>1. 1 \in 1 .. Len(wire) /\ wire[1] \in Byte
    BY <1>1, <1>2, EmptySeq, ElementOfSeq
  <2>2. wire[1].pos = 3 + 1
    BY <2>1 DEF Follows, OwnByte
  <2> QED BY <2>1, <2>2 DEF Byte
<1> QED BY <1>2 DEF Follows, Quiet

LEMMA ReadCopyKeepsOwn ==
  ASSUME IInv, OwnInv, ReadCopy
  PROVE  OwnInv'
<1> USE DEF callVars, cameraVars
<1> DEFINE n == F!ReadLength(fifo, 3)
<1>0. /\ pc = "read" /\ pc' = "clean"
      /\ length' = n
      /\ uart_buffer' = [k \in 1 .. 3 |->
                           IF k <= n THEN F!Elements(fifo, fifo.end, n)[k]
                                     ELSE uart_buffer[k]]
      /\ fifo' = [fifo EXCEPT !.execution = fifo.execution \cup {"FIFO_READ"}]
      /\ UNCHANGED <<call, item, attempt, user, timeout_count, owed, wire, device,
                     overtaken>>
  BY DEF ReadCopy
<1> HIDE DEF n
<1>1. UserInv'
  BY <1>0 DEF OwnInv, UserInv
<1>2. CASE overtaken
  BY <1>0, <1>1, <1>2 DEF OwnInv, SuccessMeansSet
<1>3. CASE ~overtaken
  <2>1. Settled /\ Unread = 3 /\ Arrived(3)
    BY <1>0, <1>3 DEF OwnInv, OwnSteps
  <2>2. n = 3
    BY <2>1, SettledFacts DEF n, F!ReadLength, F!Least
  <2>3. Quiet /\ Done /\ Quiet' /\ Done' /\ Sent' = Sent
    BY <1>0, <2>1, NothingFollows DEF Arrived, Follows, Done, Quiet, Sent
  <2>4. ASSUME NEW k \in 1 .. 3 PROVE OwnByte(uart_buffer'[k], k)
    <3>1. k <= n /\ k \in 1 .. n
      BY <2>2
    <3>2. uart_buffer'[k] = Element(k)
      BY <1>0, <3>1 DEF F!Elements, Element
    <3>3. OwnByte(Element(k), 3 - Unread + k)
      BY <2>1 DEF Arrived
    <3>4. 3 - Unread + k = k
      BY <2>1
    <3> QED BY <3>2, <3>3, <3>4
  <2>5. OwnReply'
    BY <2>3, <2>4 DEF OwnReply, OwnByte
  <2>6. /\ fifo'.execution = fifo.execution \cup {"FIFO_READ"}
        /\ fifo'.size = fifo.size /\ fifo'.head = fifo.head /\ fifo'.end = fifo.end
    BY <1>0 DEF IInv, FifoType
  <2>7. Settled'
    BY <2>1, <2>6 DEF Settled
  <2>8. Copied'
    BY <1>0, <2>2, <2>3, <2>5, <2>7 DEF Copied, Settled
  <2>9. fifo'.size = Size - 3
    BY <2>1, <2>6, SettledFacts, Constants DEF Unread
  <2> QED BY <1>0, <1>1, <2>7, <2>8, <2>9 DEF OwnInv, OwnSteps, SuccessMeansSet
<1> QED BY <1>2, <1>3

\* The steps of the read change nothing but the fifo's end, size and flags.
LEMMA CopiedSame ==
  ASSUME Copied, UNCHANGED <<owed, wire, callVars, device, uart_buffer, length>>,
         "FIFO_WRITE" \notin fifo'.execution
  PROVE  Copied'
<1> USE DEF callVars
<1>1. Sent' = Sent
  BY DEF Sent
<1>2. Quiet' /\ Done' /\ OwnReply'
  BY <1>1 DEF Copied, Quiet, Done, OwnReply, OwnByte
<1> QED BY <1>2 DEF Copied

LEMMA CleanEndKeepsOwn ==
  ASSUME IInv, OwnInv, CleanEnd
  PROVE  OwnInv'
<1> USE DEF cameraVars, readVars
<1>0. /\ pc = "clean" /\ pc' = "load"
      /\ fifo' = [fifo EXCEPT !.execution = fifo.execution \cup {"FIFO_CLEAR"},
                              !.end = F!Offset(fifo.end, length)]
      /\ UNCHANGED <<callVars, timeout_count, uart_buffer, length, owed, wire,
                     device, overtaken>>
  BY DEF CleanEnd
<1>1. UserInv'
  BY <1>0 DEF OwnInv, UserInv, callVars
<1>2. CASE overtaken
  BY <1>0, <1>1, <1>2 DEF OwnInv, SuccessMeansSet
<1>3. CASE ~overtaken
  <2>1. Copied /\ Settled /\ fifo.size = Size - 3
    BY <1>0, <1>3 DEF OwnInv, OwnSteps
  <2>2. /\ fifo'.execution = fifo.execution \cup {"FIFO_CLEAR"}
        /\ fifo'.size = fifo.size /\ fifo'.head = fifo.head
        /\ fifo'.end = F!Offset(fifo.end, length)
    BY <1>0 DEF IInv, FifoType
  <2>3. Copied'
    BY <1>0, <2>1, <2>2, CopiedSame DEF Copied
  <2>4. Size - fifo.size = 3 /\ length = 3
    BY <2>1, Constants DEF Copied
  <2>5. fifo'.head = fifo'.end
    BY <2>1, <2>2, <2>4 DEF Settled
  <2> QED BY <1>0, <1>1, <2>1, <2>2, <2>3, <2>5 DEF OwnInv, OwnSteps, SuccessMeansSet
<1> QED BY <1>2, <1>3

LEMMA SizeLoadKeepsOwn ==
  ASSUME IInv, OwnInv, SizeLoad
  PROVE  OwnInv'
<1> USE DEF cameraVars
<1>0. /\ pc = "load" /\ pc' = "store" /\ room' = fifo.size
      /\ UNCHANGED <<fifo, callVars, timeout_count, uart_buffer, length, owed, wire,
                     device, overtaken>>
  BY DEF SizeLoad
<1>1. UserInv'
  BY <1>0 DEF OwnInv, UserInv, callVars
<1>2. CASE overtaken
  BY <1>0, <1>1, <1>2 DEF OwnInv, SuccessMeansSet
<1>3. CASE ~overtaken
  <2>1. Copied /\ fifo.size = Size - 3 /\ fifo.head = fifo.end
    BY <1>0, <1>3 DEF OwnInv, OwnSteps
  <2>2. Copied'
    BY <1>0, <2>1, CopiedSame DEF Copied
  <2> QED BY <1>0, <1>1, <2>1, <2>2 DEF OwnInv, OwnSteps, SuccessMeansSet
<1> QED BY <1>2, <1>3

\* The clear that this read refuses is not asked for: no byte comes.
LEMMA SizeStoreKeepsOwn ==
  ASSUME IInv, OwnInv, SizeStore
  PROVE  OwnInv'
<1> USE DEF cameraVars, readVars
<1>0. /\ pc = "store" /\ pc' = "end"
      /\ fifo' = [fifo EXCEPT !.size = (room + length) % Word]
      /\ UNCHANGED <<callVars, timeout_count, uart_buffer, length, owed, wire,
                     device, overtaken>>
  BY DEF SizeStore
<1>1. UserInv'
  BY <1>0 DEF OwnInv, UserInv, callVars
<1>2. CASE overtaken
  BY <1>0, <1>1, <1>2 DEF OwnInv, SuccessMeansSet
<1>3. CASE ~overtaken
  <2>1. Copied /\ room = Size - 3 /\ fifo.head = fifo.end
    BY <1>0, <1>3 DEF OwnInv, OwnSteps
  <2>2. room + length = Size
    BY <2>1, Constants DEF Copied
  <2>3. (room + length) % Word = Size
    <3>1. Size \in 0 .. Word - 1 /\ Word \in Nat \ {0}
      BY Constants
    <3> QED BY <2>2, <3>1
  <2>4. /\ fifo'.execution = fifo.execution /\ fifo'.size = Size
        /\ fifo'.head = fifo'.end
    BY <1>0, <2>1, <2>3 DEF IInv, FifoType
  <2>5. Copied'
    BY <1>0, <2>1, <2>4, CopiedSame DEF Copied
  <2> QED BY <1>0, <1>1, <2>4, <2>5 DEF OwnInv, OwnSteps, SuccessMeansSet
<1> QED BY <1>2, <1>3

LEMMA ReadEndKeepsOwn ==
  ASSUME IInv, OwnInv, ReadEnd
  PROVE  OwnInv'
<1> USE DEF cameraVars, readVars
<1>0. /\ pc = "end" /\ pc' = "take"
      /\ fifo' = [fifo EXCEPT !.execution = fifo.execution \cap {"FIFO_READ"}]
      /\ UNCHANGED <<callVars, timeout_count, uart_buffer, length, owed, wire,
                     device, overtaken>>
  BY DEF ReadEnd, F!EndRead
<1>1. UserInv'
  BY <1>0 DEF OwnInv, UserInv, callVars
<1>2. CASE overtaken
  BY <1>0, <1>1, <1>2 DEF OwnInv, SuccessMeansSet
<1>3. CASE ~overtaken
  <2>1. Copied /\ fifo.size = Size /\ fifo.head = fifo.end
    BY <1>0, <1>3 DEF OwnInv, OwnSteps
  <2>2. /\ fifo'.execution = fifo.execution \cap {"FIFO_READ"}
        /\ fifo'.size = Size /\ fifo'.head = fifo'.end /\ fifo'.end \in F!Slot
    BY <1>0, <2>1, Parts DEF IInv, FifoType
  <2>3. Copied'
    BY <1>0, <2>1, <2>2, CopiedSame DEF Copied
  <2>4. Unread' = 0 /\ F!Offset(fifo'.end, 0) = fifo'.end
    BY <2>2, Constants DEF Unread, F!Offset
  <2>5. Settled'
    BY <2>2, <2>4, Constants DEF Settled, Unread
  <2> QED BY <1>0, <1>1, <2>3, <2>4, <2>5 DEF OwnInv, OwnSteps, SuccessMeansSet
<1> QED BY <1>2, <1>3

\* A reply to the user that is taken is the one to that very call.
LEMMA TakeKeepsOwn ==
  ASSUME IInv, OwnInv, Take
  PROVE  OwnInv'
<1> USE DEF cameraVars, readVars
<1>1. /\ pc = "take" /\ pc' \in {"send", "delay", "ready"}
      /\ UNCHANGED <<fifo, user, timeout_count, owed, wire, device, overtaken>>
      /\ call # "user" => call' # "user"
      /\ call = "user" => call' = "user" /\ pc' = "ready"
      /\ pc' = "delay" => UNCHANGED callVars
  BY DEF Take, Continue, Ready, callVars
<1>2. UserInv'
  BY <1>1 DEF OwnInv, UserInv
<1>3. CASE overtaken
  BY <1>1, <1>2, <1>3 DEF OwnInv, SuccessMeansSet
<1>4. CASE ~overtaken
  <2>1. Copied /\ Settled /\ Unread = 0
    BY <1>1, <1>4 DEF OwnInv, OwnSteps
  <2>2. Settled' /\ Over'
    BY <1>1, <2>1, OverSame DEF Copied, Over
  <2>3. SuccessMeansSet'
    <3>1. user' > 0 => call = "user"
      BY <1>1 DEF OwnInv, UserInv
    <3> QED BY <1>1, <2>1, <3>1 DEF SuccessMeansSet, Copied, Done
  <2> QED BY <1>1, <1>2, <2>2, <2>3 DEF OwnInv, OwnSteps, Waiting
<1> QED BY <1>3, <1>4

LEMMA DelayKeepsOwn ==
  ASSUME IInv, OwnInv, Delay
  PROVE  OwnInv'
<1> USE DEF cameraVars, readVars
<1>1. /\ pc = "delay" /\ pc' \in {"poll", "timeout"}
      /\ timeout_count' = timeout_count + 1
      /\ pc' = "timeout" => ~(MT9V03X_INIT_TIMEOUT > timeout_count)
      /\ UNCHANGED <<fifo, callVars, owed, wire, device, overtaken>>
  BY DEF Delay
<1>2. UserInv'
  <2>1. pc' = "timeout" => timeout_count' > MT9V03X_INIT_TIMEOUT
    BY <1>1, Parts, Constants
  <2> QED BY <1>1, <2>1 DEF OwnInv, UserInv, callVars
<1>3. ~overtaken => Waiting'
  BY <1>1, WaitingSame DEF OwnInv, OwnSteps
<1> QED BY <1>1, <1>2, <1>3 DEF OwnInv, OwnSteps, SuccessMeansSet

\* A call that gives up returns 1, and leaves a silent camera unless it was
\* overtaken.
LEMMA GiveUpKeepsOwn ==
  ASSUME IInv, OwnInv, GiveUp
  PROVE  OwnInv'
<1> USE DEF cameraVars, readVars
<1>1. /\ pc = "timeout" /\ pc' \in {"send", "start", "ready"}
      /\ UNCHANGED <<fifo, user, timeout_count, owed, wire, device>>
      /\ overtaken' = (overtaken \/ ~Quiet \/ F!Used(fifo) >= 3)
      /\ call # "user" => call' # "user" /\ pc' # "ready"
      /\ call = "user" => /\ call' = "user" /\ pc' = "ready"
                          /\ return_state' = UserResult(item)
  BY DEF GiveUp, Continue, Ready, callVars
<1>2. UserInv'
  BY <1>1 DEF OwnInv, UserInv
<1>3. ~overtaken' => Settled' /\ Over'
  <2> SUFFICES ASSUME ~overtaken' PROVE Settled' /\ Over'
    OBVIOUS
  <2>1. ~overtaken /\ Quiet /\ ~(F!Used(fifo) >= 3)
    BY <1>1
  <2>2. Settled
    BY <1>1, <2>1 DEF OwnInv, OwnSteps, Waiting
  <2>3. Unread < 3
    BY <2>1, <2>2, SettledFacts
  <2> QED BY <1>1, <2>1, <2>2, <2>3, OverSame DEF Over
<1>4. SuccessMeansSet'
  <2>1. timeout_count > MT9V03X_INIT_TIMEOUT
    BY <1>1 DEF OwnInv, UserInv
  <2>2. UserResult(item) = 1
    BY <2>1, Parts, Constants DEF UserResult
  <2> QED BY <1>1, <2>2 DEF SuccessMeansSet
<1> QED BY <1>1, <1>2, <1>3, <1>4 DEF OwnInv, OwnSteps

-----------------------------------------------------------------------------
(* The receive interrupt. *)

\* The next byte of the reply comes: a head byte clears what is there.
LEMMA NextByteComes ==
  ASSUME IInv, Settled, NEW p \in 0 .. 2, Follows(p), wire # <<>>,
         wire[1].head \/ (Unread <= p /\ Arrived(p)),
         fifo' = Received(fifo, Head(wire)), wire' = Tail(wire),
         UNCHANGED <<owed, callVars, device>>
  PROVE  Settled' /\ Arrived(p + 1)'
<1> USE DEF callVars
<1> DEFINE byte == Head(wire)
           c == IF byte.head THEN F!Clear(fifo) ELSE fifo
           n == Size - c.size
<1>1. /\ byte \in Byte /\ byte = wire[1] /\ 1 \in 1 .. Len(wire)
      /\ \A k \in 1 .. Len(Tail(wire)) :
           k + 1 \in 1 .. Len(wire) /\ Tail(wire)[k] = wire[k + 1]
  <2>1. /\ Len(wire) \in Nat \ {0} /\ byte \in Byte
        /\ Tail(wire) \in Seq(Byte) /\ Len(Tail(wire)) = Len(wire) - 1
        /\ \A k \in 1 .. Len(Tail(wire)) : Tail(wire)[k] = wire[k + 1]
    BY Parts, HeadTailProperties, EmptySeq
  <2>2. byte = wire[1]
    OBVIOUS
  <2> QED BY <2>1, <2>2
<1>2. OwnByte(byte, p + 1)
  BY <1>1 DEF Follows
<1>3. Sent' = Sent
  BY DEF Sent
<1>4. fifo' = F!Write(c, <<byte>>)
  BY DEF Received
<1>5. c \in [execution : SUBSET F!Execution, buffer : [F!Slot -> Byte],
             head : F!Slot, end : F!Slot, size : 0 .. Word - 1]
  BY ClearKeepsFifo DEF IInv, FifoType
<1>6. /\ c.execution = fifo.execution /\ c.size \in 0 .. Size
      /\ c.head = F!Offset(c.end, Size - c.size)
      /\ n \in 0 .. p
      /\ \A k \in 1 .. n : OwnByte(c.buffer[F!Offset(c.end, k - 1)], p - n + k)
  <2>1. CASE byte.head
    <3>1. c.execution = fifo.execution /\ c.size = Size /\ c.end = 0 /\ c.head = 0
      BY <2>1, ClearEmpties
    <3> HIDE DEF c
    <3>2. n = 0 /\ F!Offset(0, 0) = 0 /\ Size \in 0 .. Size
      BY <3>1, Constants DEF F!Offset
    <3>3. \A k \in 1 .. n : FALSE
      BY <3>2
    <3> QED BY <3>1, <3>2, <3>3
  <2>2. CASE ~byte.head
    <3>1. c = fifo /\ n = Unread /\ Arrived(p) /\ Unread <= p
      BY <1>1, <2>2 DEF Unread
    <3>2. fifo.size \in 0 .. Size /\ Unread \in 0 .. Size
      BY SettledFacts
    <3>3. n \in 0 .. p
      BY <3>1, <3>2
    <3> HIDE DEF c, n
    <3>4. \A k \in 1 .. n : OwnByte(c.buffer[F!Offset(c.end, k - 1)], p - n + k)
      BY <3>1 DEF Arrived, Element
    <3>5. c.head = F!Offset(c.end, Size - c.size)
      BY <3>1 DEF Settled
    <3> QED BY <3>1, <3>2, <3>3, <3>4, <3>5
  <2> QED BY <2>1, <2>2
<1> HIDE DEF c, byte
<1>7. c.size \in 1 .. Size
  BY <1>6, Constants
<1>8. /\ fifo'.execution = c.execution /\ fifo'.end = c.end
      /\ fifo'.size = c.size - 1
      /\ fifo'.head = F!Offset(c.end, Size - fifo'.size)
      /\ fifo'.buffer[F!Offset(c.end, Size - c.size)] = byte
      /\ \A k \in 0 .. Size - c.size - 1 :
           fifo'.buffer[F!Offset(c.end, k)] = c.buffer[F!Offset(c.end, k)]
  <2>1. "FIFO_WRITE" \notin c.execution
    BY <1>6 DEF Settled
  <2>2. c.head = F!Offset(c.end, Size - c.size)
    BY <1>6
  <2> QED BY <1>1, <1>4, <1>5, <1>7, <2>1, <2>2, WriteComesLast
<1>9. Settled'
  BY <1>6, <1>7, <1>8, Constants DEF Settled
<1>10. Unread' = n + 1
  BY <1>7, <1>8, Constants DEF Unread
<1>11. ASSUME NEW k \in 1 .. Unread'
       PROVE  OwnByte(Element(k)', (p + 1) - Unread' + k)
  <2>1. Element(k)' = fifo'.buffer[F!Offset(c.end, k - 1)]
    BY <1>8 DEF Element
  <2>2. n \in Nat
    BY <1>6
  <2>3. CASE k = n + 1
    <3>1. Element(k)' = byte
      BY <1>8, <2>1, <2>2, <2>3
    <3>2. (p + 1) - Unread' + k = p + 1
      BY <1>10, <2>2, <2>3
    <3> QED BY <1>2, <3>1, <3>2
  <2>4. CASE k # n + 1
    <3>1. k \in 1 .. n /\ k - 1 \in 0 .. n - 1
      BY <1>10, <2>2, <2>4
    <3>2. Element(k)' = c.buffer[F!Offset(c.end, k - 1)]
      BY <1>8, <2>1, <3>1
    <3> HIDE DEF n
    <3>3. (p + 1) - Unread' + k = p - n + k
      <4>1. k \in Nat /\ p \in Nat
        BY <3>1
      <4> QED BY <1>10, <2>2, <4>1
    <3> QED BY <1>6, <3>1, <3>2, <3>3
  <2> QED BY <2>3, <2>4
<1>12. Follows(p + 1)'
  <2>1. ASSUME NEW k \in 1 .. Len(wire')
        PROVE  OwnByte(wire'[k], p + 1 + k)
    <3>1. k + 1 \in 1 .. Len(wire) /\ wire'[k] = wire[k + 1]
      BY <1>1
    <3>2. OwnByte(wire[k + 1], p + (k + 1))
      BY <3>1 DEF Follows
    <3>3. p + (k + 1) = p + 1 + k
      OBVIOUS
    <3> QED BY <3>1, <3>2, <3>3
  <2>2. owed' = <<>> /\ Done'
    BY DEF Follows, Done
  <2> QED BY <1>3, <2>1, <2>2 DEF Follows, OwnByte
<1>13. Unread' <= p + 1
  BY <1>6, <1>10
<1>14. \A k \in 1 .. Unread' : OwnByte(Element(k), (p + 1) - Unread + k)'
  BY <1>3, <1>11 DEF OwnByte
<1> QED BY <1>9, <1>12, <1>13, <1>14 DEF Arrived, OwnByte

LEMMA ByteArrivesKeepsOwn ==
  ASSUME IInv, OwnInv, ByteArrives
  PROVE  OwnInv'
<1> USE DEF readVars
<1>1. /\ wire # <<>>
      /\ UNCHANGED <<pc, call, item, attempt, user, timeout_count, room, length,
                     uart_buffer, return_state, owed, device, overtaken>>
  BY DEF ByteArrives, callVars
<1>2. UserInv' /\ SuccessMeansSet'
  BY <1>1 DEF OwnInv, UserInv, SuccessMeansSet
<1>3. ASSUME ~overtaken, pc # "start" PROVE pc \in {"poll", "delay", "timeout"}
  <2>1. pc \notin {"send", "ready", "clean", "load", "store", "end", "take"}
    BY <1>1, <1>3 DEF OwnInv, OwnSteps, Over, Copied, Quiet
  <2>2. pc # "read"
    BY <1>1, <1>3, NothingFollows DEF OwnInv, OwnSteps, Arrived, Quiet
  <2> QED BY <1>3, <2>1, <2>2 DEF IInv, TypeOK
<1>4. ASSUME ~overtaken, pc # "start" PROVE Waiting'
  <2>1. Waiting
    BY <1>3, <1>4 DEF OwnInv, OwnSteps
  <2>2. CASE handler = "mt9v03x_uart_callback"
    <3>1. fifo' = Received(fifo, Head(wire)) /\ wire' = Tail(wire)
          /\ UNCHANGED <<owed, callVars, device>>
      BY <1>1, <2>2 DEF ByteArrives, callVars
    <3>2. Begins \/ \E p \in 1 .. 3 : Arrived(p)
      BY <1>1, <2>1 DEF Waiting, Awaited, Over, Quiet
    <3>3. CASE Begins
      <4>1. Settled' /\ Arrived(0 + 1)'
        BY <1>1, <2>1, <3>1, <3>3, NextByteComes DEF Begins, Waiting
      <4> QED BY <4>1 DEF Waiting
    <3>4. ASSUME NEW p \in 1 .. 3, Arrived(p) PROVE Waiting'
      <4>1. p # 3
        BY <1>1, <3>4, NothingFollows DEF Arrived, Quiet
      <4>2. p \in 0 .. 2 /\ p + 1 \in 1 .. 3
        BY <4>1
      <4>3. Settled' /\ Arrived(p + 1)'
        <5>1. Follows(p) /\ Unread <= p /\ Settled
          BY <2>1, <3>4 DEF Arrived, Waiting
        <5> QED BY <1>1, <3>1, <3>4, <4>2, <5>1, NextByteComes
      <4> QED BY <4>2, <4>3 DEF Waiting
    <3> QED BY <3>2, <3>3, <3>4
  <2>3. CASE handler # "mt9v03x_uart_callback"
    <3>1. UNCHANGED <<fifo, owed, wire, callVars, device>>
      BY <1>1, <2>3 DEF ByteArrives, callVars
    <3> QED BY <2>1, <3>1, WaitingSame
  <2> QED BY <2>2, <2>3
<1>5. ~overtaken' => OwnSteps'
  BY <1>1, <1>3, <1>4 DEF OwnSteps
<1> QED BY <1>2, <1>5 DEF OwnInv

-----------------------------------------------------------------------------
(* The camera. *)

\* Only where a command is awaited has the camera anything to do.
LEMMA OwedIsAwaited ==
  ASSUME IInv, OwnInv, ~overtaken, pc # "start", owed # <<>>
  PROVE  pc \in {"poll", "delay", "timeout"} /\ Settled /\ Awaited
<1>1. pc \notin {"send", "ready", "read", "clean", "load", "store", "end", "take"}
  BY DEF OwnInv, OwnSteps, Over, Copied, Quiet, Arrived, Follows
<1>2. pc \in {"poll", "delay", "timeout"}
  BY <1>1 DEF IInv, TypeOK
<1>3. Waiting
  BY <1>2 DEF OwnInv, OwnSteps
<1> QED BY <1>2, <1>3 DEF Waiting, Begins, Over, Arrived, Follows, Quiet

\* A step of the camera leaves main alone.
LEMMA CameraStepKeepsOwn ==
  ASSUME IInv, OwnInv, owed # <<>>,
         UNCHANGED <<fifo, pc, callVars, timeout_count, readVars, return_state,
                     overtaken>>,
         ~overtaken /\ Settled /\ Awaited => Waiting'
  PROVE  OwnInv'
<1> USE DEF callVars, readVars
<1>1. UserInv'
  BY DEF OwnInv, UserInv
<1>2. ~overtaken' => OwnSteps'
  BY OwedIsAwaited DEF OwnSteps
<1>3. SuccessMeansSet'
  BY OwedIsAwaited DEF SuccessMeansSet
<1> QED BY <1>1, <1>2, <1>3 DEF OwnInv

LEMMA RepliesKeepsOwn ==
  ASSUME IInv, OwnInv, NEW hidden \in SUBSET (2 .. 3), NEW n \in 1 .. 3,
         Replies(hidden, n)
  PROVE  OwnInv'
<1> DEFINE command == Head(owed)
           reply == [k \in 1 .. n |->
                       [of |-> command, pos |-> k, head |-> k = 1 \/ k \in hidden]]
<1>1. /\ owed # <<>> /\ owed' = Tail(owed) /\ wire' = wire \o reply
      /\ device' = CarriedOut(command)
      /\ UNCHANGED <<fifo, handler, pc, callVars, timeout_count, readVars,
                     return_state, healthy, overtaken, storm>>
  BY DEF Replies
<1>2. ASSUME Settled, Awaited PROVE Waiting'
  <2>1. command = Sent /\ owed' = <<>>
    BY <1>1, <1>2 DEF Awaited
  <2>2. /\ Len(reply) = n /\ reply \in Seq({reply[k] : k \in 1 .. n})
        /\ \A k \in 1 .. n : reply[k] = [of |-> command, pos |-> k,
                                         head |-> k = 1 \/ k \in hidden]
    <3>1. n \in Nat
      OBVIOUS
    <3> QED BY <3>1
  <2>3. n \in Nat /\ 1 \in 1 .. n
    OBVIOUS
  <2> HIDE DEF reply
  <2>4. wire' = reply
    BY <1>1, <1>2, <2>2 DEF Awaited
  <2>5. Sent' = Sent
    BY <1>1 DEF Sent, callVars
  <2>6. Done'
    <3>1. CASE call = "user"
      <4>1. command.call = "user" /\ command.no = user
        BY <2>1, <3>1 DEF Sent
      <4>2. device' = [device EXCEPT !.user = user]
        BY <1>1, <4>1 DEF CarriedOut
      <4>3. device'.user = user
        BY <4>2, Parts
      <4> QED BY <1>1, <4>3 DEF Done, callVars
    <3>2. CASE call # "user"
      BY <1>1, <3>2 DEF Done, callVars
    <3> QED BY <3>1, <3>2
  <2>7. Follows(0)'
    <3>1. \A k \in 1 .. Len(wire') : wire'[k].of = Sent /\ wire'[k].pos = 0 + k
      BY <2>1, <2>2, <2>4
    <3> QED BY <2>1, <2>5, <2>6, <3>1 DEF Follows, OwnByte
  <2>8. wire' # <<>> /\ wire'[1].head
    <3>1. reply[1] = [of |-> command, pos |-> 1, head |-> 1 = 1 \/ 1 \in hidden]
      BY <2>2, <2>3
    <3>2. reply[1].head
      <4>1. (1 = 1 \/ 1 \in hidden) = TRUE
        OBVIOUS
      <4>2. reply[1] = [of |-> command, pos |-> 1, head |-> TRUE]
        BY <3>1, <4>1, Zenon
      <4> QED BY <4>2
    <3>3. Len(reply) # 0
      BY <2>2, <2>3
    <3>4. wire' # <<>>
      BY <2>4, <3>3
    <3>5. wire'[1].head
      BY <2>4, <3>2
    <3> QED BY <3>4, <3>5
  <2>9. Settled' /\ Unread' < 3
    BY <1>1, <1>2, SettledSame DEF Awaited
  <2> QED BY <2>7, <2>8, <2>9 DEF Waiting, Begins
<1> HIDE DEF command, reply
<1> QED BY <1>1, <1>2, CameraStepKeepsOwn

LEMMA LosesKeepsOwn ==
  ASSUME IInv, OwnInv, NEW carriedOut \in BOOLEAN, Loses(carriedOut)
  PROVE  OwnInv'
<1>1. /\ owed # <<>> /\ owed' = Tail(owed)
      /\ UNCHANGED <<fifo, pc, callVars, timeout_count, readVars, return_state,
                     wire, overtaken>>
  BY DEF Loses
<1>2. ASSUME Settled, Awaited PROVE Waiting'
  <2>1. owed' = <<>> /\ wire' = <<>> /\ Unread < 3
    BY <1>1, <1>2 DEF Awaited
  <2> QED BY <1>1, <1>2, <2>1, SettledSame DEF Waiting, Over, Quiet
<1> QED BY <1>1, <1>2, CameraStepKeepsOwn

\* A step that touches nothing of the exchange.
LEMMA OwnSame ==
  ASSUME OwnInv, UNCHANGED <<fifo, pc, callVars, timeout_count, readVars,
                             return_state, owed, wire, device, overtaken>>
  PROVE  OwnInv'
<1> USE DEF callVars, readVars
<1>1. UserInv' /\ SuccessMeansSet'
  BY DEF OwnInv, UserInv, SuccessMeansSet
<1>2. Waiting => Waiting'
  BY WaitingSame
<1>3. Settled' = Settled /\ Unread' = Unread /\ Sent' = Sent
  BY SettledSame DEF Sent
<1>4. (Over => Over') /\ (Arrived(3) => Arrived(3)')
  BY <1>3 DEF Over, Quiet, Arrived, Follows, Done, OwnByte, Element
<1>5. Copied => Copied'
  BY <1>3 DEF Copied, Quiet, Done, OwnReply, OwnByte
<1>6. ~overtaken' => OwnSteps'
  BY <1>2, <1>3, <1>4, <1>5 DEF OwnInv, OwnSteps
<1> QED BY <1>1, <1>6 DEF OwnInv

LEMMA NextKeepsOwn == IInv /\ OwnInv /\ [Next]_vars => OwnInv'
<1> SUFFICES ASSUME IInv, OwnInv, [Next]_vars PROVE OwnInv'
  OBVIOUS
<1>1. CASE Main
  BY <1>1, StartKeepsOwn, UserCallKeepsOwn, SendKeepsOwn, PollKeepsOwn,
     ReadCopyKeepsOwn, CleanEndKeepsOwn, SizeLoadKeepsOwn, SizeStoreKeepsOwn,
     ReadEndKeepsOwn, TakeKeepsOwn, DelayKeepsOwn, GiveUpKeepsOwn DEF Main
<1>2. CASE Responds
  BY <1>2, RepliesKeepsOwn, LosesKeepsOwn DEF Responds
<1>3. CASE UNCHANGED vars
  BY <1>3, OwnSame DEF vars, cameraVars
<1>4. CASE Recovers
  BY <1>4, OwnSame DEF Recovers
<1> QED BY <1>1, <1>2, <1>3, <1>4, ByteArrivesKeepsOwn DEF Next

LEMMA OwnInvariance == Spec => [](IInv /\ OwnInv)
  BY InitIInv, InitOwn, NextKeepsIInv, NextKeepsOwn, PTL DEF Spec

\* As long as no call gave up on a reply that was still to come, the three bytes
\* that a polling loop takes are the reply to the command it has sent, whatever
\* bytes broken replies have left in the fifo.
THEOREM AnswersAreOwn == Spec => []AnswerIsOwn
<1>1. OwnInv => AnswerIsOwn
  BY DEF OwnInv, OwnSteps, Copied, OwnReply, OwnByte, AnswerIsOwn
<1> QED BY <1>1, OwnInvariance, PTL

\* And mt9v03x_set_exposure_time and mt9v03x_set_reg return 0 only when the
\* camera has carried out that call.
THEOREM SuccessIsReal == Spec => []SuccessMeansSet
<1>1. OwnInv => SuccessMeansSet
  BY DEF OwnInv
<1> QED BY <1>1, OwnInvariance, PTL
=============================================================================
