------------------------------ MODULE Detector ------------------------------
(***************************************************************************)
(* detector_data_analysis of zf_device_detector.c: parameter packets are   *)
(* found in a byte stream.  Bytes come through the ring buffer of a        *)
(* transport, read in chunks, or, with DETECTOR_CUSTOM, from an interrupt  *)
(* straight into detector_fifo, between any two memory accesses of the     *)
(* analysis that it can tell apart.  A byte has Base values here and a     *)
(* packet PacketSize bytes: head, function, channel, check_sum and data.   *)
(*                                                                         *)
(* The channel of a packet is not compared with the number of parameters:  *)
(* a valid packet for another channel is stored outside detector_parameter.*)
(* What lies there is the linker's choice, so a behaviour ends with that   *)
(* store (outside) and nothing is said of the program after it.            *)
(***************************************************************************)
EXTENDS Integers, Sequences, Functions

CONSTANTS Base, ReceiveHead, PacketSize,
          DETECTOR_SET_PARAMETR_COUNT,  \* entries of detector_parameter
          BufferSize,  \* DETECTOR_BUFFER_SIZE, also the transport's capacity
          BurstSize,   \* bytes given to detector_custom_receive at once
          MaxBytes     \* bound: bytes accepted into detector_fifo

ASSUME DetectorAssumption ==
  /\ Base \in Nat \ {0}
  /\ ReceiveHead \in 0 .. Base - 1
  /\ DETECTOR_SET_PARAMETR_COUNT \in Nat \ {0}
  /\ PacketSize \in Nat /\ PacketSize >= 5
  /\ BufferSize \in Nat /\ BufferSize >= PacketSize
  /\ BurstSize \in Nat \ {0}
  /\ MaxBytes \in Nat

\* The channels that have a parameter, detector_parameter[channel - 1].
Channel == 1 .. DETECTOR_SET_PARAMETR_COUNT

Byte == 0 .. Base - 1

F == INSTANCE FifoStruct WITH Max <- BufferSize, Data <- Byte, Blank <- 0,
                              Outside <- Base, Word <- 2 * BufferSize + 1

VARIABLES
  custom,      \* detector_transfer_type is DETECTOR_CUSTOM
  transport,   \* the transport's ring buffer, a bounded queue
  chunk,       \* temp_buffer while it holds what was read from the transport
  fifo,        \* detector_fifo
  pc,          \* where detector_data_analysis is
  packet,      \* temp_buffer while it holds the packet looked at
  read_length, \* bytes to discard
  room,        \* the size that `fifo->size += *length' has loaded
  parameter,   \* detector_parameter, by channel
  accepted,    \* every byte ever written to detector_fifo
  lost,        \* a store of size has erased the count of an interrupt's write
  outside      \* a packet was stored outside detector_parameter

vars == <<custom, transport, chunk, fifo, pc, packet, read_length, room,
          parameter, accepted, lost, outside>>

Init ==
  /\ custom \in BOOLEAN
  /\ transport = <<>>
  /\ chunk = <<>>
  /\ fifo = F!EmptyFifo
  /\ pc = "idle"
  /\ packet = <<>>
  /\ read_length = 0
  /\ room = 0
  /\ parameter = [channel \in Channel |-> 0]
  /\ accepted = <<>>
  /\ lost = FALSE
  /\ outside = FALSE

\* fifo_write_buffer on detector_fifo.
WriteFifo(dat) ==
  /\ fifo' = F!Write(fifo, dat)
  /\ accepted' = IF F!WriteState(fifo, dat) = "FIFO_SUCCESS"
                   THEN accepted \o dat ELSE accepted

-----------------------------------------------------------------------------
(* Receive interrupts: they run to their end between two steps of the      *)
(* analysis.                                                               *)

\* A transport's receive interrupt; a byte that finds no room is dropped.
TransportReceives(b) ==
  /\ ~custom /\ Len(transport) < BufferSize
  /\ Len(accepted) + Len(chunk) + Len(transport) < MaxBytes
  /\ transport' = Append(transport, b)
  /\ UNCHANGED <<custom, chunk, fifo, pc, packet, read_length, room, parameter,
                 accepted, lost, outside>>

\* A write is refused, as a whole, when detector_fifo has no room for it.
CustomReceives(dat) ==
  /\ custom /\ Len(accepted) + Len(dat) <= MaxBytes
  /\ WriteFifo(dat)
  /\ UNCHANGED <<custom, transport, chunk, pc, packet, read_length, room,
                 parameter, lost, outside>>

detector_custom_receive_byte(b) == CustomReceives(<<b>>)

detector_custom_receive(buff) == CustomReceives(buff)

-----------------------------------------------------------------------------
(* detector_data_analysis. *)

ReadTransport ==
  /\ pc = "idle"
  /\ chunk' = transport
  /\ transport' = <<>>
  /\ pc' = IF transport = <<>> THEN "look" ELSE "write"
  /\ UNCHANGED <<custom, fifo, packet, read_length, room, parameter, accepted,
                 lost, outside>>

\* The result of the write is not looked at: a chunk that does not fit beside
\* what is left of an incomplete packet is lost.
WriteChunk ==
  /\ pc = "write"
  /\ WriteFifo(chunk)
  /\ chunk' = <<>>
  /\ pc' = "look"
  /\ UNCHANGED <<custom, transport, packet, read_length, room, parameter, lost,
                 outside>>

\* Mutant: `<' in the place of `<='.
PacketIsLonger == PacketSize < F!Used(fifo)

\* Mutant: a packet is looked at before all of it is there.
AnyByteThere == 0 < F!Used(fifo)

PacketIsThere == PacketSize <= F!Used(fifo)

\* The loop's test and, with a packet's length at hand, the start of the read
\* that takes nothing.  An interrupt only adds to what is used, so the read never
\* cuts its length down.
Look ==
  /\ pc = "look"
  /\ IF PacketIsThere
       THEN /\ pc' = "copy"
            /\ fifo' = [fifo EXCEPT !.execution = @ \cup {"FIFO_READ"}]
       ELSE pc' = "idle" /\ fifo' = fifo
  /\ UNCHANGED <<custom, transport, chunk, packet, read_length, room, parameter,
                 accepted, lost, outside>>

\* One byte of the memcpy of fifo_read_buffer.
CopyByte ==
  /\ pc = "copy"
  /\ packet' = Append(packet, fifo.buffer[F!Offset(fifo.end, Len(packet))])
  /\ pc' = IF Len(packet) + 1 = PacketSize THEN "decide" ELSE "copy"
  /\ UNCHANGED <<custom, transport, chunk, fifo, read_length, room, parameter,
                 accepted, lost, outside>>

CheckPlace == 4

\* detector_sum over the packet with check_sum = 0.
detector_sum(p) ==
  FoldFunctionOnSet(+, 0, p, DOMAIN p \ {CheckPlace}) % Base

Valid(p) == p[1] = ReceiveHead /\ p[CheckPlace] = detector_sum(p)

\* Mutant: a packet with a head is dropped as a whole when its sum is wrong.
DiscardLengthWhole(p) == IF p[1] = ReceiveHead THEN PacketSize ELSE 1

\* One byte is discarded unless the packet is valid.
DiscardLength(p) == IF Valid(p) THEN PacketSize ELSE 1

\* The channel is the third byte, the data the last; the function byte is not
\* tested, and neither is the channel.  The discard begins: the end moves and
\* size is loaded.  The interrupt sees neither the parameters nor the end.
Decide ==
  /\ pc = "decide"
  /\ IF Valid(packet) /\ packet[3] \in Channel
       THEN parameter' = [parameter EXCEPT ![packet[3]] = packet[PacketSize]]
       ELSE parameter' = parameter
  /\ outside' = (Valid(packet) /\ packet[3] \notin Channel)
  /\ read_length' = DiscardLength(packet)
  /\ fifo' = [fifo EXCEPT !.execution = @ \cup {"FIFO_CLEAR"},
                          !.end = F!Offset(@, read_length')]
  /\ room' = fifo.size
  /\ packet' = <<>>
  /\ pc' = "store"
  /\ UNCHANGED <<custom, transport, chunk, accepted, lost>>

\* Size is stored and the flags are reset, and the loop goes on.
Discard ==
  /\ pc = "store"
  /\ fifo' = [fifo EXCEPT !.execution = @ \cap {"FIFO_READ"},
                          !.size = room + read_length]
  /\ lost' = (lost \/ fifo.size # room)
  /\ read_length' = 0 /\ room' = 0
  /\ pc' = "look"
  /\ UNCHANGED <<custom, transport, chunk, packet, parameter, accepted, outside>>

detector_data_analysis ==
  ReadTransport \/ WriteChunk \/ Look \/ CopyByte \/ Decide \/ Discard

Next == ~outside /\ ( \/ \E b \in Byte : TransportReceives(b)
                      \/ \E b \in Byte : detector_custom_receive_byte(b)
                      \/ \E buff \in [1 .. BurstSize -> Byte] :
                           detector_custom_receive(buff)
                      \/ detector_data_analysis )

Spec == Init /\ [][Next]_vars

-----------------------------------------------------------------------------
(* Properties. *)

\* The fifo's size and indices and the packet's length stay in range through any
\* sequence of chunks, looks and discards, whatever interrupts them and whether
\* or not a count was lost.
TypeOK ==
  /\ custom \in BOOLEAN
  /\ Len(transport) <= BufferSize /\ Len(chunk) <= BufferSize
  /\ fifo \in F!Fifo
  /\ pc \in {"idle", "write", "look", "copy", "decide", "store"}
  /\ Len(packet) \in 0 .. PacketSize
  /\ read_length \in {0, 1, PacketSize}
  /\ room \in 0 .. BufferSize
  /\ parameter \in [Channel -> Byte]
  /\ Len(accepted) <= MaxBytes
  /\ lost \in BOOLEAN /\ outside \in BOOLEAN

PacketAt(p) == SubSeq(accepted, p, p + PacketSize - 1)

\* Where the packets of the stream begin: a valid one that does not lie in the
\* packet before.
PacketStarts ==
  LET starts[p \in 1 .. Len(accepted)] ==
        /\ p + PacketSize - 1 <= Len(accepted)
        /\ Valid(PacketAt(p))
        /\ \A q \in 1 .. p - 1 : q > p - PacketSize => ~starts[q]
  IN  {p \in 1 .. Len(accepted) : starts[p]}

\* The bytes detector_data_analysis is done with.
Taken == Len(accepted) - (F!Used(fifo) - read_length)

\* The packets found are those of the stream, however it came in chunks, between
\* whichever steps of the analysis, and whatever looked like a head before: no
\* packet is cut by a discard, and the parameter of each channel is the data of
\* the last packet for it.  This holds until a lost update of size hides a byte
\* that came or a packet for a channel without a parameter is stored outside the
\* array, and is not true of the code after that.
ParametersFollowStream ==
  ~lost /\ ~outside =>
    /\ \A p \in PacketStarts : p > Taken \/ p + PacketSize - 1 <= Taken
    /\ \A channel \in Channel :
         LET own == {p \in PacketStarts :
                       p <= Taken /\ accepted[p + 2] = channel}
             last == CHOOSE p \in own : \A q \in own : q <= p
         IN  parameter[channel] =
               IF own = {} THEN 0 ELSE accepted[last + PacketSize - 1]

\* Each analysis leaves less than a packet behind, so that a chunk is lost only
\* when the transport has gathered more than the rest of detector_fifo holds.
SmallChunkFits ==
  pc = "write" /\ Len(chunk) <= BufferSize - PacketSize + 1
    => F!WriteState(fifo, chunk) = "FIFO_SUCCESS"
=============================================================================
