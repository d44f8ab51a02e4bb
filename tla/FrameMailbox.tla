---------------------------- MODULE FrameMailbox ----------------------------
(***************************************************************************)
(* What the camera driver promises the main loop: a mailbox of one frame.  *)
(* A later frame replaces an unread one, the reader takes the newest frame *)
(* delivered and never the same one twice, and releasing the mailbox       *)
(* forgets whatever was delivered while it was held.                       *)
(***************************************************************************)
EXTENDS Naturals

CONSTANT Frame  \* the frame numbers, a set of naturals with 0

VARIABLES latest,  \* the frame delivered last, 0 before the first
          unread,  \* whether the reader has been told of a frame
          held,    \* the frame taken last, 0 before the first
          busy     \* whether the reader is working on it

mailbox == <<latest, unread, held, busy>>

Init ==
  /\ latest = 0
  /\ unread = FALSE
  /\ held = 0
  /\ busy = FALSE

Deliver ==
  \E n \in Frame :
    /\ n > latest
    /\ latest' = n
    /\ unread' = TRUE
    /\ UNCHANGED <<held, busy>>

Take ==
  /\ unread
  /\ ~busy
  /\ held < latest
  /\ held' = latest
  /\ busy' = TRUE
  /\ UNCHANGED <<latest, unread>>

Release ==
  /\ busy
  /\ busy' = FALSE
  /\ unread' = FALSE
  /\ UNCHANGED <<latest, held>>

Next == Deliver \/ Take \/ Release

Spec == Init /\ [][Next]_mailbox
=============================================================================
