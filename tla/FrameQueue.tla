----------------------------- MODULE FrameQueue -----------------------------
(***************************************************************************)
(* What the camera driver's transactional interface promises: buffers      *)
(* that go round from the application through the driver and back, each    *)
(* in one place, and frames that come out oldest first, each once.         *)
(***************************************************************************)
EXTENDS Naturals, FiniteSets

CONSTANTS Buffer,
          Frame,  \* the frame numbers, a set of naturals
          Size    \* full frames the driver keeps

VARIABLES empty,   \* buffers submitted and not used yet
          active,  \* buffers the camera writes, one or two while it runs
          full,    \* buffers with the frame each one holds
          owned,   \* buffers in the application's hands
          last     \* the frame taken last

frameQueue == <<empty, active, full, owned, last>>

Init ==
  /\ empty = {} /\ active = {} /\ full = {}
  /\ owned = Buffer
  /\ last = 0

Submit(b) ==
  /\ b \in owned
  /\ owned' = owned \ {b}
  /\ empty' = empty \cup {b}
  /\ UNCHANGED <<active, full, last>>

Oldest(f) == f \in full /\ \A g \in full : g # f => f.frame < g.frame

Take(f) ==
  /\ Oldest(f) /\ last < f.frame
  /\ full' = full \ {f}
  /\ owned' = owned \cup {f.buffer}
  /\ last' = f.frame
  /\ UNCHANGED <<empty, active>>

Start(a, b) ==
  /\ active = {} /\ {a, b} \subseteq empty /\ a # b
  /\ active' = {a, b}
  /\ empty' = empty \ {a, b}
  /\ UNCHANGED <<full, owned, last>>

Stop ==
  /\ active # {}
  /\ active' = {}
  /\ empty' = empty \cup active
  /\ UNCHANGED <<full, owned, last>>

\* What is left active is filled up with an empty buffer, if there is one.
FillUp(left) ==
  \/ /\ empty = {}
     /\ active' = left /\ UNCHANGED empty
  \/ \E e \in empty : active' = left \cup {e} /\ empty' = empty \ {e}

\* A frame is complete; the camera keeps a buffer to write the next one.
Deliver(b, n) ==
  /\ b \in active /\ active # {b} /\ Cardinality(full) < Size
  /\ last < n /\ \A g \in full : g.frame < n
  /\ full' = full \cup {[buffer |-> b, frame |-> n]}
  /\ FillUp(active \ {b})
  /\ UNCHANGED <<owned, last>>

\* A frame is dropped for want of a second buffer; now there is one.
Refill(b) ==
  /\ active = {b} /\ empty # {}
  /\ FillUp({b})
  /\ UNCHANGED <<full, owned, last>>

Next ==
  \/ \E b \in Buffer : Submit(b) \/ Refill(b)
  \/ \E f \in full : Take(f)
  \/ \E a, b \in Buffer : Start(a, b)
  \/ Stop
  \/ \E b \in Buffer, n \in Frame : Deliver(b, n)

Spec == Init /\ [][Next]_frameQueue
=============================================================================
