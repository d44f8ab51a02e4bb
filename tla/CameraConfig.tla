---------------------------- MODULE CameraConfig ----------------------------
(***************************************************************************)
(* The camera's configuration over the UART, zf_device_mt9v03x.c: main     *)
(* sends commands and polls camera_receiver_fifo for replies of three      *)
(* bytes, the first 0xA5; the receive interrupt clears the fifo at every   *)
(* byte 0xA5.  mt9v03x_init asks for the version, sends the configuration  *)
(* and reads it back; main repeats it until it succeeds, then it may set   *)
(* the exposure time or a register.  The camera is one that the SCCB       *)
(* attempt before does not reach.                                          *)
(***************************************************************************)
EXTENDS Integers, Sequences

CONSTANTS
  MT9V03X_INIT_TIMEOUT,
  Size,      \* CAMERA_RECEIVER_BUFFER_SIZE
  GetItems,  \* the settings mt9v03x_get_config reads back
  Value,     \* values for an exposure time or a register
  MaxUser,   \* bound: calls of mt9v03x_set_exposure_time, mt9v03x_set_reg
  Word,      \* 2 to the width of the fifo's size
  Late       \* the calls whose reply may come after they gave up

Call == {"version", "config", "get", "user"}

ASSUME CameraAssumption ==
  /\ MT9V03X_INIT_TIMEOUT \in Nat \ {0}
  /\ Size \in Nat /\ Size >= 3
  /\ Word \in Nat /\ Word > 2 * Size
  /\ GetItems \in Nat \ {0}
  /\ MaxUser \in Nat
  /\ Late \subseteq Call
  /\ 0 \notin Value

\* A command: its call, the setting or value, and the attempt or user call.
Command == [call : Call, item : (0 .. GetItems) \cup Value,
            no : 0 .. MaxUser + 1]

\* A byte of a reply: which one, and whether it is 0xA5.
NoCommand == [call |-> "none"]
Byte == [of : Command \cup {NoCommand}, pos : 1 .. 3, head : BOOLEAN]
Zero == [of |-> NoCommand, pos |-> 1, head |-> FALSE]

F == INSTANCE FifoStruct WITH Max <- Size, Data <- Byte, Blank <- Zero,
                              Outside <- NoCommand, Word <- Word

VARIABLES
  fifo,           \* camera_receiver_fifo
  handler,        \* camera_uart_handler
  pc, call, item, \* where main is: step, call, and setting or value
  attempt,        \* parity of the attempts to initialise
  user,           \* number of the last call by the user
  timeout_count,
  uart_buffer,    \* its first three bytes
  length, room,   \* of the read: *length, and the size it has loaded
  return_state,   \* of the last call by the user
  owed,           \* commands the camera has still to answer
  wire,           \* bytes of replies under way
  healthy,        \* from now on the camera answers every command in time
  device,         \* the last attempt and the last user call it carried out
  overtaken,      \* a call gave up on a reply that was still to come
  storm           \* the interrupt returns without having read its byte

readVars == <<uart_buffer, length, room>>
callVars == <<call, item, attempt, user>>
cameraVars == <<owed, wire, healthy, device, storm>>
vars == <<fifo, handler, pc, callVars, timeout_count, readVars, return_state,
          cameraVars, overtaken>>

Init ==
  /\ fifo = F!EmptyFifo
  /\ handler = "type_default_callback"
  /\ pc = "start"
  /\ call = "version" /\ item = 0 /\ attempt = 0 /\ user = 0
  /\ timeout_count = 0
  /\ uart_buffer = <<Zero, Zero, Zero>> /\ length = 0 /\ room = 0
  /\ return_state = 1
  /\ owed = <<>> /\ wire = <<>> /\ healthy = FALSE
  /\ device = [attempt |-> -1, user |-> 0]
  /\ overtaken = FALSE
  /\ storm = FALSE

Sent == [call |-> call, item |-> item,
         no |-> IF call = "user" THEN user ELSE attempt]

Quiet == owed = <<>> /\ wire = <<>>

-----------------------------------------------------------------------------
(* mt9v03x_init, and the loop of main that repeats it. *)

\* The camera is silent when a new attempt begins.
Start ==
  /\ pc = "start" /\ ~storm /\ Quiet
  /\ handler' = "mt9v03x_uart_callback"
  /\ fifo' = F!Clear(F!EmptyFifo)
  /\ attempt' = 1 - attempt
  /\ overtaken' = FALSE
  /\ call' = "version" /\ item' = 0
  /\ pc' = "send"
  /\ UNCHANGED <<user, timeout_count, readVars, return_state, cameraVars>>

\* mt9v03x_set_exposure_time or mt9v03x_set_reg.
UserCall(value) ==
  /\ pc = "ready" /\ ~storm /\ user < MaxUser
  /\ call' = "user" /\ item' = value
  /\ user' = user + 1
  /\ pc' = "send"
  /\ UNCHANGED <<fifo, handler, attempt, timeout_count, readVars, return_state,
                 cameraVars, overtaken>>

\* The command goes out; uart_buffer held it, which is no reply.  The commands
\* of mt9v03x_set_config are one, since only the last is answered, and so are
\* the two of mt9v03x_set_reg.
Send ==
  /\ pc = "send" /\ ~storm
  /\ owed' = Append(owed, Sent)
  /\ uart_buffer' = <<Zero, Zero, Zero>>
  /\ timeout_count' = 0
  /\ pc' = "poll"
  /\ UNCHANGED <<fifo, handler, callVars, length, room, return_state, wire,
                 healthy, device, overtaken, storm>>

\* What follows a call of mt9v03x_init.
Continue(nextCall, nextItem) ==
  /\ call' = nextCall /\ item' = nextItem
  /\ pc' = "send"
  /\ UNCHANGED <<attempt, user>>

Ready == pc' = "ready" /\ UNCHANGED callVars

-----------------------------------------------------------------------------
(* The polling loop, the same in every call.  The read is split at its     *)
(* accesses to the fifo, where the receive interrupt may preempt it.       *)

Poll ==
  /\ pc = "poll" /\ ~storm
  /\ pc' = IF 3 <= F!Used(fifo) THEN "read" ELSE "delay"
  /\ UNCHANGED <<fifo, handler, callVars, timeout_count, readVars,
                 return_state, cameraVars, overtaken>>

\* fifo_read_buffer up to its copy: after a clear there is less than 3 bytes.
ReadCopy ==
  LET n == F!ReadLength(fifo, 3)
  IN  /\ pc = "read" /\ ~storm
      /\ length' = n
      /\ uart_buffer' = [k \in 1 .. 3 |->
                           IF k <= n THEN F!Elements(fifo, fifo.end, n)[k]
                                     ELSE uart_buffer[k]]
      /\ fifo' = [fifo EXCEPT !.execution = @ \cup {"FIFO_READ"}]
      /\ pc' = "clean"
      /\ UNCHANGED <<handler, callVars, timeout_count, room, return_state,
                     cameraVars, overtaken>>

\* Mutant: the end is not wrapped.
CleanEndUnwrapped ==
  /\ pc = "clean" /\ ~storm
  /\ fifo' = [fifo EXCEPT !.execution = @ \cup {"FIFO_CLEAR"},
                          !.end = @ + length]
  /\ pc' = "load"
  /\ UNCHANGED <<handler, callVars, timeout_count, readVars, return_state,
                 cameraVars, overtaken>>

CleanEnd ==
  /\ pc = "clean" /\ ~storm
  /\ fifo' = [fifo EXCEPT !.execution = @ \cup {"FIFO_CLEAR"},
                          !.end = F!Offset(@, length)]
  /\ pc' = "load"
  /\ UNCHANGED <<handler, callVars, timeout_count, readVars, return_state,
                 cameraVars, overtaken>>

SizeLoad ==
  /\ pc = "load" /\ ~storm
  /\ room' = fifo.size
  /\ pc' = "store"
  /\ UNCHANGED <<fifo, handler, callVars, timeout_count, uart_buffer, length,
                 return_state, cameraVars, overtaken>>

SizeStore ==
  /\ pc = "store" /\ ~storm
  /\ fifo' = [fifo EXCEPT !.size = (room + length) % Word]
  /\ pc' = "end"
  /\ UNCHANGED <<handler, callVars, timeout_count, readVars, return_state,
                 cameraVars, overtaken>>

ReadEnd ==
  /\ pc = "end" /\ ~storm
  /\ fifo' = F!EndRead(fifo, fifo.execution)
  /\ pc' = "take"
  /\ UNCHANGED <<handler, callVars, timeout_count, readVars, return_state,
                 cameraVars, overtaken>>

\* Mutant: any reply ends mt9v03x_set_config.
AnyReply(bytes) == TRUE

\* mt9v03x_set_config waits for 0xff, which only the answer to MT9V03X_INIT has.
Acknowledges(bytes) ==
  \E k \in 2 .. 3 : bytes[k].of.call = "config" /\ bytes[k].pos # 1

\* uart_buffer[1] << 8 | uart_buffer[2].
Answer(bytes) ==
  IF bytes[2].of = bytes[3].of /\ bytes[2].of.call = "user"
     /\ bytes[2].pos = 2 /\ bytes[3].pos = 3
    THEN bytes[2].of.item ELSE 0

\* Mutant: a user call that timed out is not told apart; temp still is light.
UserResultUntimed(temp) == IF temp # item THEN 1 ELSE 0

\* The counter has already reached the timeout when a reply is found by the
\* last poll.
UserResult(temp) ==
  IF temp # item \/ MT9V03X_INIT_TIMEOUT <= timeout_count THEN 1 ELSE 0

\* What each call does with a reply.
Take ==
  /\ pc = "take" /\ ~storm
  /\ \/ call = "version" /\ Continue("config", 0) /\ UNCHANGED return_state
     \/ /\ call = "config"
        /\ IF Acknowledges(uart_buffer)
             THEN Continue("get", GetItems)
             ELSE pc' = "delay" /\ UNCHANGED callVars
        /\ UNCHANGED return_state
     \/ /\ call = "get"
        /\ IF item > 1 THEN Continue("get", item - 1) ELSE Ready
        /\ UNCHANGED return_state
     \/ call = "user" /\ Ready /\ return_state' = UserResult(Answer(uart_buffer))
  /\ UNCHANGED <<fifo, handler, timeout_count, readVars, cameraVars, overtaken>>

\* `system_delay_ms(1); } while (MT9V03X_INIT_TIMEOUT > timeout_count++)'.
\* Except for calls that may be overtaken, and for these once the camera is
\* healthy, the camera has answered or never will before the last but one poll.
InTime ==
  (timeout_count >= MT9V03X_INIT_TIMEOUT - 1 /\ (healthy \/ call \notin Late))
    => Quiet

Delay ==
  /\ pc = "delay" /\ ~storm
  /\ InTime
  /\ timeout_count' = timeout_count + 1
  /\ pc' = IF MT9V03X_INIT_TIMEOUT > timeout_count THEN "poll" ELSE "timeout"
  /\ UNCHANGED <<fifo, handler, callVars, readVars, return_state, cameraVars,
                 overtaken>>

\* Mutant: a version command that times out fails the attempt.
GiveUpOnVersion ==
  /\ pc = "timeout" /\ ~storm
  /\ overtaken' = (overtaken \/ ~Quiet \/ F!Used(fifo) >= 3)
  /\ IF call = "user"
       THEN Ready /\ return_state' = UserResult(item) /\ UNCHANGED handler
       ELSE /\ pc' = "start" /\ handler' = "type_default_callback"
            /\ UNCHANGED <<callVars, return_state>>
  /\ UNCHANGED <<fifo, timeout_count, readVars, cameraVars>>

\* After a failed attempt set_camera_type installs the empty callback, and main
\* shows "reinit" and waits a second.
GiveUp ==
  /\ pc = "timeout" /\ ~storm
  /\ overtaken' = (overtaken \/ ~Quiet \/ F!Used(fifo) >= 3)
  /\ \/ call = "version" /\ Continue("config", 0)
        /\ UNCHANGED <<handler, return_state>>
     \/ call \in {"config", "get"} /\ pc' = "start"
        /\ handler' = "type_default_callback"
        /\ UNCHANGED <<callVars, return_state>>
     \/ call = "user" /\ Ready /\ return_state' = UserResult(item)
        /\ UNCHANGED handler
  /\ UNCHANGED <<fifo, timeout_count, readVars, cameraVars>>

Main == \/ Start \/ (\E value \in Value : UserCall(value))
        \/ Send \/ Poll
        \/ ReadCopy \/ CleanEnd \/ SizeLoad \/ SizeStore \/ ReadEnd
        \/ Take \/ Delay \/ GiveUp

-----------------------------------------------------------------------------
(* LPUART5_IRQHandler. *)

\* Mutant: the head byte does not clear the fifo.
ReceivedAnyhow(f, byte) == F!Write(f, <<byte>>)

\* Mutant: the fifo is cleared after the head byte is written.
ReceivedThenCleared(f, byte) ==
  IF byte.head THEN F!Clear(F!Write(f, <<byte>>)) ELSE F!Write(f, <<byte>>)

\* mt9v03x_uart_callback.  The clear is refused while a read cleans.
Received(f, byte) ==
  F!Write(IF byte.head THEN F!Clear(f) ELSE f, <<byte>>)

\* The handler itself does not read the byte: with the empty callback it stays
\* in the receiver and the interrupt is taken again and again.
ByteArrives ==
  /\ wire # <<>> /\ ~storm
  /\ IF handler = "mt9v03x_uart_callback"
       THEN /\ fifo' = Received(fifo, Head(wire))
            /\ wire' = Tail(wire)
            /\ UNCHANGED storm
       ELSE /\ storm' = TRUE
            /\ UNCHANGED <<fifo, wire>>
  /\ UNCHANGED <<handler, pc, callVars, timeout_count, readVars, return_state,
                 owed, healthy, device, overtaken>>

-----------------------------------------------------------------------------
(* The camera. *)

CarriedOut(command) ==
  CASE command.call = "config" -> [device EXCEPT !.attempt = command.no]
    [] command.call = "user"   -> [device EXCEPT !.user = command.no]
    [] OTHER                   -> device

\* It carries out a command and replies; a byte of the data may be 0xA5, and the
\* reply may break off, since an overrun loses the bytes that come last.
Replies(hidden, n) ==
  LET command == Head(owed)
  IN  /\ owed # <<>>
      /\ hidden # {} => ~healthy /\ command.call # "config"
      /\ n < 3 => ~healthy
      /\ owed' = Tail(owed)
      /\ wire' = wire \o [k \in 1 .. n |->
                   [of |-> command, pos |-> k, head |-> k = 1 \/ k \in hidden]]
      /\ device' = CarriedOut(command)
      /\ UNCHANGED <<fifo, handler, pc, callVars, timeout_count, readVars,
                     return_state, healthy, overtaken, storm>>

\* The command or the reply is lost.
Loses(carriedOut) ==
  /\ owed # <<>> /\ ~healthy
  /\ owed' = Tail(owed)
  /\ device' = IF carriedOut THEN CarriedOut(Head(owed)) ELSE device
  /\ UNCHANGED <<fifo, handler, pc, callVars, timeout_count, readVars,
                 return_state, wire, healthy, overtaken, storm>>

Recovers ==
  /\ ~healthy
  /\ healthy' = TRUE
  /\ UNCHANGED <<fifo, handler, pc, callVars, timeout_count, readVars,
                 return_state, owed, wire, device, overtaken, storm>>

Responds == \/ \E hidden \in SUBSET (2 .. 3), n \in 1 .. 3 : Replies(hidden, n)
            \/ \E carriedOut \in BOOLEAN : Loses(carriedOut)

Next == Main \/ ByteArrives \/ Responds \/ Recovers

Spec == Init /\ [][Next]_vars

\* Main goes on unless the interrupt starves it; a byte that was sent arrives;
\* the camera answers a command or does not, but not later than ever.
FairSpec == Spec /\ WF_vars(Main) /\ WF_vars(ByteArrives) /\ WF_vars(Responds)

-----------------------------------------------------------------------------
(* Properties. *)

\* The indices of the fifo stay in the array although the interrupt clears it in
\* the middle of a read; its size may pass max then, until the next clear.
TypeOK ==
  /\ fifo.execution \subseteq F!Execution
  /\ fifo.buffer \in [F!Slot -> Byte]
  /\ fifo.head \in F!Slot /\ fifo.end \in F!Slot /\ fifo.size \in 0 .. Word - 1
  /\ handler \in {"type_default_callback", "mt9v03x_uart_callback"}
  /\ pc \in {"start", "send", "poll", "read", "clean", "load", "store", "end",
             "take", "delay", "timeout", "ready"}
  /\ call \in Call /\ item \in (0 .. GetItems) \cup Value
  /\ attempt \in 0 .. 1 /\ user \in 0 .. MaxUser
  /\ timeout_count \in 0 .. MT9V03X_INIT_TIMEOUT + 1
  /\ uart_buffer \in [1 .. 3 -> Byte]
  /\ length \in 0 .. 3 /\ room \in 0 .. Word - 1 /\ return_state \in 0 .. 1
  /\ owed \in Seq(Command) /\ wire \in Seq(Byte)
  /\ device \in [attempt : -1 .. 1, user : 0 .. MaxUser]
  /\ healthy \in BOOLEAN /\ overtaken \in BOOLEAN /\ storm \in BOOLEAN

\* mt9v03x_init reads the configuration back, and so can succeed, only after
\* the camera has carried out this attempt's initialisation: neither a late
\* reply to the version command nor what a clear in the middle of a read leaves
\* is taken for its acknowledgement.
InitMeansConfigured ==
  call \in {"get", "user"} => device.attempt = attempt

\* As long as no call gave up on a reply that was still to come, each reply taken
\* is the one to the command just sent: the head byte clears what broken or
\* unreadable replies have left.
AnswerIsOwn ==
  pc = "take" /\ ~overtaken =>
    \A k \in 1 .. 3 : uart_buffer[k].of = Sent /\ uart_buffer[k].pos = k

\* And then mt9v03x_set_exposure_time and mt9v03x_set_reg return 0 only when the
\* camera has carried out that very call.
SuccessMeansSet ==
  pc = "ready" /\ user > 0 /\ return_state = 0 /\ ~overtaken
    => device.user = user

\* Once the camera answers everything in time, the initialisation succeeds,
\* whatever was lost before.
InitSucceedsOnceHealthy == healthy ~> pc = "ready"

\* Main shows "reinit" after a failed attempt: another one follows, as long as
\* no byte of a reply finds the empty callback.
InitIsRetried == pc = "start" ~> pc = "send"
=============================================================================
