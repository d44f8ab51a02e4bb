------------------------- MODULE GpsReceiver_proofs -------------------------
(***************************************************************************)
(* What the GPS parser extracts is one checked sentence, for any set of    *)
(* contents and any interleaving of the receive interrupt.                 *)
(***************************************************************************)
EXTENDS GpsReceiver, TLAPS

Parsing == {"origin", "check", "first", "last"}

\* Where the parser is, the state keeps the interrupt out of its buffer.
StateInv ==
  /\ pc = "mark" => state[cur] = "RECEIVED"
  /\ pc \in Parsing => state[cur] = "PARSING"
  /\ \A k \in Kind : state[k] # "RECEIVING" => buffer[k] \in Sentence

\* What the parser has read and written so far agrees with that buffer.
ExtractInv ==
  /\ pc = "origin" => origin = Blank
  /\ pc = "check" => origin \in Content
  /\ ExtractsChecked
  /\ (pc = "last" /\ cur = "RMC") =>
       (valid => info["RMC"].first = buffer["RMC"].content)
  /\ (pc = "last" /\ cur = "GGA") =>
       (info["GGA"].first = IF Fix(buffer["GGA"].content)
                              THEN buffer["GGA"].content
                              ELSE info["GGA"].last)
  /\ ~(pc = "last" /\ cur = "RMC") =>
       (valid => info["RMC"].first = info["RMC"].last)
  /\ ~(pc = "last" /\ cur = "GGA") => info["GGA"].first = info["GGA"].last

IInv == TypeOK /\ StateInv /\ ExtractInv

\* A delivery replaces only buffers that are not being parsed.
LEMMA DeliverKeepsOut ==
  ASSUME TypeOK, StateInv, NEW s \in Arriving, Deliver(First(s))
  PROVE  /\ state' \in [Kind -> {"RECEIVING", "RECEIVED", "PARSING"}]
         /\ buffer' \in [Kind -> Sentence \cup {NoSentence}]
         /\ \A k \in Kind :
              /\ state[k] = "PARSING" => state'[k] = "PARSING"
                                         /\ buffer'[k] = buffer[k]
              /\ state[k] = "RECEIVED" => state'[k] = "RECEIVED"
              /\ state'[k] # "RECEIVING" => buffer'[k] \in Sentence
<1> DEFINE f == First(s)
<1>1. f.kind \in Kind => f \in Sentence
  <2>1. f \in Arriving \/ f = NoSentence
    BY DEF First, TypeOK
  <2>2. Other.kind \notin Kind /\ NoSentence.kind \notin Kind
    BY DEF Other, NoSentence, Kind
  <2> QED BY <2>1, <2>2 DEF Arriving
<1>2. CASE f.kind \in Kind /\ state[f.kind] # "PARSING"
  <2>1. /\ state' = [state EXCEPT ![f.kind] = "RECEIVED"]
        /\ buffer' = [buffer EXCEPT ![f.kind] = f]
    BY <1>2 DEF Deliver
  <2>2. f \in Sentence
    BY <1>1, <1>2
  <2>3. state' \in [Kind -> {"RECEIVING", "RECEIVED", "PARSING"}]
    BY <2>1 DEF TypeOK
  <2>4. buffer' \in [Kind -> Sentence \cup {NoSentence}]
    BY <2>1, <2>2 DEF TypeOK
  <2>5. ASSUME NEW k \in Kind
        PROVE  /\ state[k] = "PARSING" => state'[k] = "PARSING"
                                          /\ buffer'[k] = buffer[k]
               /\ state[k] = "RECEIVED" => state'[k] = "RECEIVED"
               /\ state'[k] # "RECEIVING" => buffer'[k] \in Sentence
    <3>1. CASE k = f.kind
      BY <1>2, <2>1, <2>2, <3>1 DEF TypeOK
    <3>2. CASE k # f.kind
      BY <2>1, <3>2 DEF TypeOK, StateInv
    <3> QED BY <3>1, <3>2
  <2> QED BY <2>3, <2>4, <2>5
<1>3. CASE ~(f.kind \in Kind /\ state[f.kind] # "PARSING")
  BY <1>3 DEF Deliver, TypeOK, StateInv
<1> QED BY <1>2, <1>3

LEMMA InitIInv == Init => IInv
<1> SUFFICES ASSUME Init PROVE IInv
  OBVIOUS
<1>1. TypeOK
  BY DEF Init, TypeOK, Kind
<1>2. StateInv
  BY DEF Init, StateInv, Parsing
<1>3. ExtractInv
  BY DEF Init, ExtractInv, ExtractsChecked, Kind
<1> QED BY <1>1, <1>2, <1>3 DEF IInv

\* Steps of the interrupt.
LEMMA InterruptKeepsIInv == IInv /\ Interrupt => IInv'
<1> SUFFICES ASSUME IInv, NEW s \in Arriving,
                    SentenceEnds(s) \/ SentenceMissed(s)
             PROVE  IInv'
  BY DEF Interrupt
<1> USE DEF IInv
<1>1. CASE SentenceEnds(s)
  <2>1. Deliver(First(s)) /\ UNCHANGED parserVars
        /\ pending' = NoSentence /\ flag' = TRUE
    BY <1>1 DEF SentenceEnds
  <2>2. TypeOK'
    BY <2>1, DeliverKeepsOut DEF TypeOK, parserVars
  <2>3. StateInv'
    <3>1. cur \in Kind
      BY DEF TypeOK
    <3> QED BY <2>1, <3>1, DeliverKeepsOut DEF StateInv, parserVars, Parsing
  <2>4. pc \in Parsing => buffer'[cur] = buffer[cur]
    BY <2>1, DeliverKeepsOut DEF StateInv, TypeOK
  <2>5. ExtractInv'
    BY <2>1, <2>4 DEF ExtractInv, ExtractsChecked, parserVars, Parsing, Fix
  <2> QED BY <2>2, <2>3, <2>5
<1>2. CASE SentenceMissed(s)
  <2>1. UNCHANGED <<flag, state, buffer, pc, cur, origin, valid, info>>
    BY <1>2 DEF SentenceMissed, parserVars
  <2>2. pending' \in Arriving \cup {NoSentence}
    BY <1>2 DEF SentenceMissed, First, TypeOK
  <2>3. TypeOK'
    BY <2>1, <2>2 DEF TypeOK
  <2>4. StateInv'
    BY <2>1 DEF StateInv
  <2>5. ExtractInv'
    BY <2>1 DEF ExtractInv, ExtractsChecked, Fix
  <2> QED BY <2>3, <2>4, <2>5
<1> QED BY <1>1, <1>2

\* Steps of the parser.
LEMMA MainKeepsIInv == IInv /\ Main => IInv'
<1> SUFFICES ASSUME IInv, Main PROVE IInv'
  OBVIOUS
<1> USE DEF IInv, interruptVars
<1>1. CASE CallParse
  <2>1. TypeOK'
    BY <1>1 DEF CallParse, TypeOK, Kind
  <2>2. StateInv'
    BY <1>1 DEF CallParse, StateInv, Parsing
  <2>3. ExtractInv'
    BY <1>1 DEF CallParse, ExtractInv, ExtractsChecked, Fix
  <2> QED BY <2>1, <2>2, <2>3
<1>2. CASE Test
  <2>1. TypeOK'
    BY <1>2 DEF Test, TypeOK
  <2>2. StateInv'
    BY <1>2 DEF Test, StateInv, Parsing
  <2>3. ExtractInv'
    BY <1>2 DEF Test, ExtractInv, ExtractsChecked, Fix
  <2> QED BY <2>1, <2>2, <2>3
<1>3. CASE ReadOrigin
  <2>1. buffer[cur] \in Sentence
    BY <1>3 DEF ReadOrigin, StateInv, TypeOK, Parsing
  <2>2. origin' \in Content
    BY <1>3, <2>1 DEF ReadOrigin, Sentence
  <2>3. TypeOK'
    BY <1>3, <2>2 DEF ReadOrigin, TypeOK
  <2>4. StateInv'
    BY <1>3 DEF ReadOrigin, StateInv, Parsing
  <2>5. ExtractInv'
    BY <1>3, <2>2 DEF ReadOrigin, ExtractInv, ExtractsChecked, Fix
  <2> QED BY <2>3, <2>4, <2>5
<1>4. CASE Mark
  <2>1. TypeOK'
    BY <1>4 DEF Mark, TypeOK
  <2>2. StateInv'
    BY <1>4 DEF Mark, StateInv, Parsing, TypeOK
  <2>3. origin # Blank => origin \in Content
    BY DEF TypeOK
  <2>4. ExtractInv'
    BY <1>4, <2>3 DEF Mark, ExtractInv, ExtractsChecked, Fix
  <2> QED BY <2>1, <2>2, <2>4
<1>5. CASE Check
  <2>1. TypeOK'
    BY <1>5 DEF Check, TypeOK
  <2>2. StateInv'
    BY <1>5 DEF Check, StateInv, Parsing
  <2>3. ExtractInv'
    BY <1>5 DEF Check, ExtractInv, ExtractsChecked, Fix
  <2> QED BY <2>1, <2>2, <2>3
<1>6. CASE ExtractFirst
  <2>1. buffer[cur] \in Sentence
    BY <1>6 DEF ExtractFirst, StateInv, TypeOK, Parsing
  <2>2. buffer[cur].content \in Content
    BY <2>1 DEF Sentence
  <2>3. TypeOK'
    BY <1>6, <2>2 DEF ExtractFirst, TypeOK, Fix
  <2>4. StateInv'
    BY <1>6 DEF ExtractFirst, StateInv, Parsing
  <2>5. ExtractInv'
    <3>1. CASE cur = "RMC"
      BY <1>6, <3>1 DEF ExtractFirst, ExtractInv, ExtractsChecked, Fix,
                        TypeOK, Kind
    <3>2. CASE cur = "GGA"
      BY <1>6, <3>2 DEF ExtractFirst, ExtractInv, ExtractsChecked, Fix,
                        TypeOK, Kind
    <3> QED BY <3>1, <3>2 DEF TypeOK, Kind
  <2> QED BY <2>3, <2>4, <2>5
<1>7. CASE ExtractLast
  <2>1. buffer[cur] \in Sentence
    BY <1>7 DEF ExtractLast, StateInv, TypeOK, Parsing
  <2>2. buffer[cur].content \in Content
    BY <2>1 DEF Sentence
  <2>3. TypeOK'
    BY <1>7, <2>2 DEF ExtractLast, TypeOK, Fix
  <2>4. StateInv'
    BY <1>7 DEF ExtractLast, StateInv, Parsing
  <2>5. ExtractInv'
    <3>1. CASE cur = "RMC"
      BY <1>7, <3>1 DEF ExtractLast, ExtractInv, ExtractsChecked, Fix,
                        TypeOK, Kind
    <3>2. CASE cur = "GGA"
      BY <1>7, <3>2 DEF ExtractLast, ExtractInv, ExtractsChecked, Fix,
                        TypeOK, Kind
    <3> QED BY <3>1, <3>2 DEF TypeOK, Kind
  <2> QED BY <2>3, <2>4, <2>5
<1>8. CASE Finish
  <2>1. TypeOK'
    BY <1>8 DEF Finish, TypeOK, Kind
  <2>2. StateInv'
    BY <1>8 DEF Finish, StateInv, Parsing, TypeOK
  <2>3. ExtractInv'
    BY <1>8 DEF Finish, ExtractInv, ExtractsChecked, Fix
  <2> QED BY <2>1, <2>2, <2>3
<1> QED BY <1>1, <1>2, <1>3, <1>4, <1>5, <1>6, <1>7, <1>8 DEF Main

LEMMA Invariance == Spec => []IInv
<1>1. IInv /\ UNCHANGED vars => IInv'
  BY DEF IInv, TypeOK, StateInv, ExtractInv, ExtractsChecked, Fix, vars
<1>2. IInv /\ [Next]_vars => IInv'
  BY <1>1, InterruptKeepsIInv, MainKeepsIInv DEF Next
<1> QED BY <1>2, InitIInv, PTL DEF Spec

\* Every variable of the receiver keeps its type (gps_uart_callback,
\* gps_data_parse).
THEOREM TypeCorrect == Spec => []TypeOK
<1>1. IInv => TypeOK
  BY DEF IInv
<1> QED BY <1>1, Invariance, PTL

\* gps_data_parse extracts exactly the content that passed its checksum test,
\* whatever the interrupt receives meanwhile.
THEOREM AlwaysExtractsChecked == Spec => []ExtractsChecked
<1>1. IInv => ExtractsChecked
  BY DEF IInv, ExtractInv
<1> QED BY <1>1, Invariance, PTL

\* After each extraction gps_tau1201 holds the fields of one sentence.
THEOREM InfoAlwaysOneSentence == Spec => []InfoIsOneSentence
<1>1. IInv => InfoIsOneSentence
  BY DEF IInv, ExtractInv, InfoIsOneSentence
<1> QED BY <1>1, Invariance, PTL
=============================================================================
