---------------------------- MODULE GpsReceiver ----------------------------
(***************************************************************************)
(* The GPS receiver of zf_device_gps_tau1201.c: the receive interrupt      *)
(* gathers NMEA sentences and copies an RMC or GGA sentence to a buffer of *)
(* its own; gps_data_parse, called by the main loop, checks and extracts   *)
(* it.  They share the state of each buffer without a lock.                *)
(***************************************************************************)
EXTENDS Naturals

CONSTANTS Content,  \* what a sentence may say
          Blank,    \* no sentence, no content
          NoFixYet  \* the contents of an RMC sentence without a valid fix

ASSUME GpsAssumption ==
  /\ Blank \notin Content
  /\ NoFixYet \subseteq Content

Kind == {"RMC", "GGA"}

\* A sentence is intact when the checksum it carries is that of its content;
\* checksums of different contents are taken to differ.
Sentence == [kind : Kind, content : Content, checksum : Content]
Other == [kind |-> "other"]
Arriving == Sentence \cup {Other}
NoSentence == [kind |-> "none"]

VARIABLES
  pending,  \* the first sentence in gps_tau1201_receiver_fifo
  flag,     \* gps_tau1201_flag
  state,    \* gps_rmc_state and gps_gga_state
  buffer,   \* gps_rmc_buffer and gps_gga_buffer
  pc,       \* where gps_data_parse is
  cur,      \* the kind of sentence it is at
  origin,   \* bbc_xor_origin, Blank until it has been read
  valid,    \* gps_tau1201.state, the fix is valid
  info      \* for each kind, the content the first and the last of the fields
            \* of gps_tau1201 that it fills were taken from

vars == <<pending, flag, state, buffer, pc, cur, origin, valid, info>>

interruptVars == <<pending, buffer>>
parserVars == <<pc, cur, origin, valid, info>>

Init ==
  /\ pending = NoSentence
  /\ flag = FALSE
  /\ state = [k \in Kind |-> "RECEIVING"]
  /\ buffer = [k \in Kind |-> NoSentence]
  /\ pc = "idle"
  /\ cur = "RMC"
  /\ origin = Blank
  /\ valid = FALSE
  /\ info = [k \in Kind |-> [first |-> Blank, last |-> Blank]]

-----------------------------------------------------------------------------
(* gps_uart_callback. *)

\* Gathered sentences begin with the first that was not delivered; what follows
\* it in the fifo is never looked at.
First(s) == IF pending = NoSentence THEN s ELSE pending

\* Mutant: the buffer is replaced although it is being parsed.
DeliverAlways(s) ==
  IF s.kind \in Kind
    THEN /\ state' = [state EXCEPT ![s.kind] = "RECEIVED"]
         /\ buffer' = [buffer EXCEPT ![s.kind] = s]
    ELSE UNCHANGED <<state, buffer>>

\* Mutant: every sentence that is not RMC goes to the GGA buffer.
DeliverUntested(s) ==
  LET k == IF s.kind = "RMC" THEN "RMC" ELSE "GGA"
  IN  IF state[k] # "PARSING"
        THEN /\ state' = [state EXCEPT ![k] = "RECEIVED"]
             /\ buffer' = [buffer EXCEPT ![k] = s]
        ELSE UNCHANGED <<state, buffer>>

\* Copy a sentence to the buffer of its kind unless that is being parsed.
Deliver(s) ==
  IF s.kind \in Kind /\ state[s.kind] # "PARSING"
    THEN /\ state' = [state EXCEPT ![s.kind] = "RECEIVED"]
         /\ buffer' = [buffer EXCEPT ![s.kind] = s]
    ELSE UNCHANGED <<state, buffer>>

\* The interrupt finds '\n' as the last byte received.
SentenceEnds(s) ==
  /\ Deliver(First(s))
  /\ pending' = NoSentence
  /\ flag' = TRUE
  /\ UNCHANGED parserVars

\* The interrupt is late: bytes of the next sentence follow the '\n', and only
\* the last byte is tested.
SentenceMissed(s) ==
  /\ pending' = First(s)
  /\ UNCHANGED <<flag, state, buffer, parserVars>>

-----------------------------------------------------------------------------
(* The main loop: `if(gps_tau1201_flag) { gps_tau1201_flag = 0;            *)
(* gps_data_parse(); }'.                                                   *)

CallParse ==
  /\ pc = "idle" /\ flag
  /\ flag' = FALSE
  /\ pc' = "test"
  /\ cur' = "RMC"
  /\ UNCHANGED <<interruptVars, state, origin, valid, info>>

Test ==
  /\ pc = "test"
  /\ pc' = IF state[cur] = "RECEIVED" THEN "mark" ELSE "finish"
  /\ origin' = Blank
  /\ UNCHANGED <<interruptVars, flag, state, cur, valid, info>>

\* Neither state nor buffer is volatile: the compiler may read the checksum the
\* sentence carries before it stores PARSING.
ReadOrigin ==
  /\ pc \in {"mark", "origin"} /\ origin = Blank
  /\ origin' = buffer[cur].checksum
  /\ pc' = IF pc = "origin" THEN "check" ELSE pc
  /\ UNCHANGED <<interruptVars, flag, state, cur, valid, info>>

\* Mutant: the state is left RECEIVED while the sentence is parsed.
MarkNothing ==
  /\ pc = "mark"
  /\ pc' = IF origin = Blank THEN "origin" ELSE "check"
  /\ UNCHANGED <<interruptVars, flag, state, cur, origin, valid, info>>

Mark ==
  /\ pc = "mark"
  /\ state' = [state EXCEPT ![cur] = "PARSING"]
  /\ pc' = IF origin = Blank THEN "origin" ELSE "check"
  /\ UNCHANGED <<interruptVars, flag, cur, origin, valid, info>>

\* A wrong checksum ends the call: the state stays PARSING, the other sentence
\* is not looked at.
Check ==
  /\ pc = "check"
  /\ pc' = IF buffer[cur].content = origin THEN "first" ELSE "idle"
  /\ UNCHANGED <<interruptVars, flag, state, cur, origin, valid, info>>

Fix(content) == content \notin NoFixYet

\* Mutant: gps->state is not cleared first.
ExtractFirstKeepsValid ==
  LET content == buffer[cur].content
  IN  /\ pc = "first"
      /\ valid' = (valid \/ (cur = "RMC" /\ Fix(content)))
      /\ info' = IF Fix(content) THEN [info EXCEPT ![cur].first = content]
                                 ELSE info
      /\ pc' = "last"
      /\ UNCHANGED <<interruptVars, flag, state, cur, origin>>

\* gps_gnrmc_parse and gps_gngga_parse: an RMC sentence without a fix updates
\* the last of its fields, date and time, only; a GGA sentence none.
ExtractFirst ==
  LET content == buffer[cur].content
  IN  /\ pc = "first"
      /\ valid' = IF cur = "RMC" THEN Fix(content) ELSE valid
      /\ info' = IF Fix(content) THEN [info EXCEPT ![cur].first = content]
                                 ELSE info
      /\ pc' = "last"
      /\ UNCHANGED <<interruptVars, flag, state, cur, origin>>

ExtractLast ==
  LET content == buffer[cur].content
  IN  /\ pc = "last"
      /\ info' = IF cur = "RMC" \/ Fix(content)
                   THEN [info EXCEPT ![cur].last = content] ELSE info
      /\ pc' = "finish"
      /\ UNCHANGED <<interruptVars, flag, state, cur, origin, valid>>

\* Mutant: only a sentence found RECEIVED gives its buffer free in the end.
FinishParsedOnly ==
  /\ pc = "finish"
  /\ state' = IF origin = Blank THEN state
              ELSE [state EXCEPT ![cur] = "RECEIVING"]
  /\ IF cur = "RMC" THEN pc' = "test" /\ cur' = "GGA"
                    ELSE pc' = "idle" /\ UNCHANGED cur
  /\ UNCHANGED <<interruptVars, flag, origin, valid, info>>

\* `= GPS_STATE_RECEIVING', whatever the interrupt has set since the test.
Finish ==
  /\ pc = "finish"
  /\ state' = [state EXCEPT ![cur] = "RECEIVING"]
  /\ IF cur = "RMC" THEN pc' = "test" /\ cur' = "GGA"
                    ELSE pc' = "idle" /\ UNCHANGED cur
  /\ UNCHANGED <<interruptVars, flag, origin, valid, info>>

Main == \/ CallParse
        \/ Test \/ ReadOrigin \/ Mark \/ Check
        \/ ExtractFirst \/ ExtractLast \/ Finish

Interrupt == \E s \in Arriving : SentenceEnds(s) \/ SentenceMissed(s)

Next == Main \/ Interrupt

Spec == Init /\ [][Next]_vars

\* The receiver never falls silent and pauses after each burst of sentences, so
\* that again and again a '\n' is the last byte; the main loop goes on.
Fairness ==
  /\ WF_vars(\E s \in Arriving : SentenceEnds(s))
  /\ WF_vars(Main)

FairSpec == Spec /\ Fairness

-----------------------------------------------------------------------------
(* Properties. *)

\* The state shared by interrupt and parser stays in range.
TypeOK ==
  /\ pending \in Arriving \cup {NoSentence}
  /\ flag \in BOOLEAN
  /\ state \in [Kind -> {"RECEIVING", "RECEIVED", "PARSING"}]
  /\ buffer \in [Kind -> Sentence \cup {NoSentence}]
  /\ pc \in {"idle", "test", "mark", "origin", "check", "first", "last",
             "finish"}
  /\ cur \in Kind
  /\ origin \in Content \cup {Blank}
  /\ valid \in BOOLEAN
  /\ info \in [Kind -> [first : Content \cup {Blank},
                        last : Content \cup {Blank}]]

\* Between two extractions the fields of a valid fix, and those of a GGA
\* sentence, all come from one sentence, although the interrupt goes on
\* receiving all through the parsing.
InfoIsOneSentence ==
  pc # "last" =>
    /\ valid => info["RMC"].first = info["RMC"].last
    /\ info["GGA"].first = info["GGA"].last

\* What is extracted is what the checksum test passed: the buffer is not
\* replaced meanwhile, whichever of state and checksum the compiler reads first
\* and however often the interrupt comes.
ExtractsChecked ==
  pc \in {"first", "last"} => buffer[cur].content = origin

\* A sentence that waits in its buffer when no call is in progress comes to be
\* parsed, in spite of checksum failures of the other kind, which end calls
\* early.
WaitingIsParsed ==
  \A k \in Kind :
    (pc = "idle" /\ state[k] = "RECEIVED") ~> (pc = "check" /\ cur = k)

\* A buffer that is being parsed, or whose checksum failed, becomes free for the
\* interrupt again.
NeverStuckParsing ==
  \A k \in Kind : state[k] = "PARSING" ~> state[k] = "RECEIVING"
=============================================================================
