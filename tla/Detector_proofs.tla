--------------------------- MODULE Detector_proofs ---------------------------
(***************************************************************************)
(* The detector's parser, for packets and a fifo of any size, any stream   *)
(* of bytes and any way it is cut into chunks.                             *)
(***************************************************************************)
EXTENDS Detector, WellFoundedInduction, SequenceTheorems, TLAPS

-----------------------------------------------------------------------------
(* Where the packets of a stream begin.  PacketStarts is a recursive       *)
(* function; that it exists, and that it does not change as the stream     *)
(* grows, is proved by looking at the least number that says otherwise.    *)

LEMMA LeastNumber ==
  ASSUME NEW T, T \subseteq Nat, T # {}
  PROVE  \E m \in T : \A n \in T : m <= n
<1>1. PICK m \in T : \A n \in T : <<n, m>> \notin OpToRel(<, Nat)
  BY WFMin, NatLessThanWellFounded, Zenon
<1>2. m \in Nat /\ \A n \in T : n \in Nat /\ ~(n < m)
  BY <1>1, Zenon DEF OpToRel
<1> QED BY <1>2

\* A valid packet of stream s at p, which may lie in an earlier one.
Packet(s, p) == p + PacketSize - 1 <= Len(s)
                  /\ Valid(SubSeq(s, p, p + PacketSize - 1))

\* q is so close before p that a packet at q covers p.
Covers(q, p) == q < p /\ q > p - PacketSize

\* starts is the function of PacketStarts for stream s.
IsStarts(s, starts) ==
  starts = [p \in 1 .. Len(s) |->
              /\ p + PacketSize - 1 <= Len(s)
              /\ Valid(SubSeq(s, p, p + PacketSize - 1))
              /\ \A q \in 1 .. p - 1 : q > p - PacketSize => ~starts[q]]

Starts(s) == {p \in 1 .. Len(s) : (CHOOSE starts : IsStarts(s, starts))[p]}

\* The same recursion, said of the set of the first n starts.
StartSet(s, n, P) ==
  /\ P \subseteq 1 .. n
  /\ \A p \in 1 .. n :
       p \in P <=> Packet(s, p) /\ \A q \in P : ~Covers(q, p)

LEMMA StartsAreStarts == PacketStarts = Starts(accepted)
  BY DEF PacketStarts, PacketAt, Starts, IsStarts

LEMMA StartSetExists ==
  ASSUME NEW s, NEW n \in Nat
  PROVE  \E P : StartSet(s, n, P)
<1> DEFINE Bad == {m \in Nat : ~\E P : StartSet(s, m, P)}
<1> SUFFICES ASSUME Bad # {} PROVE FALSE
  OBVIOUS
<1>1. PICK m \in Bad : \A k \in Bad : m <= k
  <2> HIDE DEF Bad
  <2>1. Bad \subseteq Nat
    BY DEF Bad
  <2> QED BY <2>1, LeastNumber
<1>2. m \in Nat /\ ~\E P : StartSet(s, m, P)
  OBVIOUS
<1>3. m # 0
  <2>1. StartSet(s, 0, {})
    BY DEF StartSet
  <2> QED BY <1>2, <2>1
<1>4. m - 1 \in Nat /\ m - 1 \notin Bad
  BY <1>1, <1>2, <1>3
<1>5. PICK P0 : StartSet(s, m - 1, P0)
  BY <1>4
<1> DEFINE new == Packet(s, m) /\ \A q \in P0 : ~Covers(q, m)
           P1 == IF new THEN P0 \cup {m} ELSE P0
<1>6. P0 \subseteq 1 .. m - 1 /\ P1 \subseteq 1 .. m
  BY <1>2, <1>3, <1>5 DEF StartSet
<1>7. PacketSize \in Nat
  BY DetectorAssumption
<1>8. ASSUME NEW p \in 1 .. m
      PROVE  p \in P1 <=> Packet(s, p) /\ \A q \in P1 : ~Covers(q, p)
  <2>1. ~Covers(m, p)
    BY <1>2 DEF Covers
  <2>2. (\A q \in P1 : ~Covers(q, p)) <=> (\A q \in P0 : ~Covers(q, p))
    BY <2>1
  <2>3. CASE p = m
    <3>1. m \notin P0
      BY <1>2, <1>6
    <3>2. p \in P1 <=> new
      BY <2>3, <3>1
    <3> QED BY <2>2, <2>3, <3>2
  <2>4. CASE p # m
    <3>1. p \in 1 .. m - 1
      BY <1>2, <2>4
    <3>2. p \in P0 <=> Packet(s, p) /\ \A q \in P0 : ~Covers(q, p)
      BY <1>5, <3>1 DEF StartSet
    <3>3. p \in P1 <=> p \in P0
      BY <2>4
    <3> QED BY <2>2, <3>2, <3>3
  <2> QED BY <2>3, <2>4
<1> HIDE DEF P1
<1>9. StartSet(s, m, P1)
  BY <1>6, <1>8 DEF StartSet
<1> QED BY <1>2, <1>9

LEMMA StartsFacts ==
  ASSUME NEW s, Len(s) \in Nat
  PROVE  StartSet(s, Len(s), Starts(s))
<1>1. PICK P : StartSet(s, Len(s), P)
  BY StartSetExists
<1> DEFINE f == [p \in 1 .. Len(s) |-> p \in P]
<1>2. PacketSize \in Nat
  BY DetectorAssumption
<1>3. ASSUME NEW p \in 1 .. Len(s)
      PROVE  f[p] <=> /\ p + PacketSize - 1 <= Len(s)
                      /\ Valid(SubSeq(s, p, p + PacketSize - 1))
                      /\ \A q \in 1 .. p - 1 : q > p - PacketSize => ~f[q]
  <2>1. P \subseteq 1 .. Len(s)
    BY <1>1 DEF StartSet
  <2>2. (\A q \in P : ~Covers(q, p))
          <=> (\A q \in 1 .. p - 1 : q > p - PacketSize => q \notin P)
    BY <1>2, <2>1 DEF Covers
  <2>3. \A q \in 1 .. p - 1 : q \in 1 .. Len(s)
    OBVIOUS
  <2>4. \A q \in 1 .. p - 1 : f[q] <=> q \in P
    BY <2>3
  <2>5. f[p] <=> p \in P
    OBVIOUS
  <2>6. p \in P <=> Packet(s, p) /\ \A q \in P : ~Covers(q, p)
    BY <1>1 DEF StartSet
  <2> HIDE DEF f
  <2> QED BY <2>2, <2>4, <2>5, <2>6 DEF Packet
<1>4. IsStarts(s, f)
  <2> DEFINE e(p) == /\ p + PacketSize - 1 <= Len(s)
                     /\ Valid(SubSeq(s, p, p + PacketSize - 1))
                     /\ \A q \in 1 .. p - 1 : q > p - PacketSize => ~f[q]
  <2>1. ASSUME NEW p \in 1 .. Len(s) PROVE (p \in P) = e(p)
    <3>1. f[p] <=> p \in P
      OBVIOUS
    <3>2. f[p] <=> e(p)
      BY <1>3, Zenon
    <3>3. e(p) \in BOOLEAN
      BY DEF e
    <3> HIDE DEF f, e
    <3> QED BY <3>1, <3>2, <3>3
  <2> HIDE DEF e
  <2>2. f = [p \in 1 .. Len(s) |-> e(p)]
    BY <2>1, Zenon
  <2> QED BY <2>2, Zenon DEF IsStarts, e
<1> DEFINE g == CHOOSE starts : IsStarts(s, starts)
<1>5. IsStarts(s, g)
  BY <1>4, Zenon
<1> HIDE DEF g, f
<1>6. Starts(s) = {p \in 1 .. Len(s) : g[p]}
  BY DEF Starts, g
<1>7. ASSUME NEW p \in 1 .. Len(s)
      PROVE  p \in Starts(s) <=>
               Packet(s, p) /\ \A q \in Starts(s) : ~Covers(q, p)
  <2>1. g[p] <=> /\ p + PacketSize - 1 <= Len(s)
                 /\ Valid(SubSeq(s, p, p + PacketSize - 1))
                 /\ \A q \in 1 .. p - 1 : q > p - PacketSize => ~g[q]
    <3> DEFINE e(r) == /\ r + PacketSize - 1 <= Len(s)
                       /\ Valid(SubSeq(s, r, r + PacketSize - 1))
                       /\ \A q \in 1 .. r - 1 : q > r - PacketSize => ~g[q]
    <3>1. g = [r \in 1 .. Len(s) |-> e(r)]
      BY <1>5, Zenon DEF IsStarts
    <3> HIDE DEF e
    <3>2. g[p] = e(p)
      BY <3>1, Zenon
    <3> QED BY <3>2, Zenon DEF e
  <2>2. (\A q \in 1 .. p - 1 : q > p - PacketSize => ~g[q])
          <=> (\A q \in Starts(s) : ~Covers(q, p))
    <3>1. \A q \in 1 .. p - 1 : q \in 1 .. Len(s)
      OBVIOUS
    <3>2. \A q \in 1 .. p - 1 : g[q] <=> q \in Starts(s)
      BY <1>6, <3>1, Zenon
    <3>3. Starts(s) \subseteq 1 .. Len(s)
      BY <1>6, Zenon
    <3>4. (\A q \in Starts(s) : ~Covers(q, p))
            <=> (\A q \in 1 .. p - 1 : q > p - PacketSize => q \notin Starts(s))
      BY <1>2, <3>3 DEF Covers
    <3> QED BY <3>2, <3>4, Zenon
  <2>3. p \in Starts(s) <=> g[p]
    BY <1>6, Zenon
  <2> QED BY <2>1, <2>2, <2>3, Zenon DEF Packet
<1>8. Starts(s) \subseteq 1 .. Len(s)
  BY <1>6, Zenon
<1> QED BY <1>7, <1>8, Zenon DEF StartSet

\* Nothing that comes later changes where a packet that is all there begins.
LEMMA SamePacket ==
  ASSUME NEW s \in Seq(Byte), NEW d \in Seq(Byte), NEW p \in 1 .. Len(s),
         p + PacketSize - 1 <= Len(s)
  PROVE  /\ SubSeq(s \o d, p, p + PacketSize - 1)
              = SubSeq(s, p, p + PacketSize - 1)
         /\ Packet(s \o d, p) <=> Packet(s, p)
<1> DEFINE e == p + PacketSize - 1
           a == SubSeq(s, p, e)
           b == SubSeq(s \o d, p, e)
<1>1. /\ p \in Int /\ e \in Int /\ e - p + 1 = PacketSize /\ p <= e
      /\ PacketSize \in Nat /\ Len(s) \in Nat /\ Len(d) \in Nat
      /\ s \o d \in Seq(Byte) /\ Len(s \o d) = Len(s) + Len(d)
  BY DetectorAssumption
<1>2. \A i \in p .. e : s[i] \in Byte /\ (s \o d)[i] = s[i]
  BY <1>1
<1> HIDE DEF e
<1>3. /\ a \in Seq(Byte) /\ Len(a) = PacketSize
      /\ \A i \in 1 .. PacketSize : a[i] = s[p + i - 1]
  BY <1>1, <1>2, SubSeqProperties
<1>4. \A i \in p .. e : (s \o d)[i] \in Byte
  BY <1>2
<1>5. /\ b \in Seq(Byte) /\ Len(b) = PacketSize
      /\ \A i \in 1 .. PacketSize : b[i] = (s \o d)[p + i - 1]
  BY <1>1, <1>4, SubSeqProperties
<1>6. \A i \in 1 .. PacketSize : p + i - 1 \in p .. e
  BY <1>1
<1>7. \A i \in 1 .. PacketSize : a[i] = b[i]
  BY <1>2, <1>3, <1>5, <1>6
<1> HIDE DEF a, b
<1>8. a = b
  BY <1>1, <1>3, <1>5, <1>7
<1>9. e <= Len(s) /\ e <= Len(s \o d)
  BY <1>1 DEF e
<1> QED BY <1>8, <1>9 DEF a, b, e, Packet

LEMMA StartsGrow ==
  ASSUME NEW s \in Seq(Byte), NEW d \in Seq(Byte), NEW p \in 1 .. Len(s),
         p + PacketSize - 1 <= Len(s)
  PROVE  p \in Starts(s \o d) <=> p \in Starts(s)
<1> DEFINE n == s \o d
           Bad == {r \in 1 .. Len(s) : r + PacketSize - 1 <= Len(s)
                          /\ ~(r \in Starts(n) <=> r \in Starts(s))}
<1> SUFFICES ASSUME Bad # {} PROVE FALSE
  OBVIOUS
<1>1. PICK m \in Bad : \A k \in Bad : m <= k
  <2> HIDE DEF Bad
  <2>1. Bad \subseteq Nat
    BY DEF Bad
  <2> QED BY <2>1, LeastNumber
<1>2. /\ m \in 1 .. Len(s) /\ m + PacketSize - 1 <= Len(s)
      /\ ~(m \in Starts(n) <=> m \in Starts(s))
  OBVIOUS
<1>3. /\ Len(s) \in Nat /\ Len(d) \in Nat /\ PacketSize \in Nat
      /\ Len(n) = Len(s) + Len(d)
  BY DetectorAssumption
<1>4. Packet(n, m) <=> Packet(s, m)
  BY <1>2, SamePacket
<1> HIDE DEF n
<1>5. StartSet(s, Len(s), Starts(s)) /\ StartSet(n, Len(n), Starts(n))
  BY SMTT(20), <1>3, StartsFacts
<1>6. ASSUME NEW q \in 1 .. Len(s), Covers(q, m)
      PROVE  q \in Starts(n) <=> q \in Starts(s)
  <2>1. q < m
    BY <1>6 DEF Covers
  <2>2. q + PacketSize - 1 <= Len(s) /\ ~(m <= q)
    BY <1>2, <1>3, <2>1
  <2> QED BY <1>1, <2>2
<1>7. (\A q \in Starts(n) : ~Covers(q, m))
        <=> (\A q \in Starts(s) : ~Covers(q, m))
  <2>1. \A q \in Starts(n) : Covers(q, m) => q \in 1 .. Len(s)
    <3>1. Starts(n) \subseteq 1 .. Len(n)
      BY <1>5 DEF StartSet
    <3> QED BY <1>2, <1>3, <3>1 DEF Covers
  <2>2. Starts(s) \subseteq 1 .. Len(s)
    BY <1>5 DEF StartSet
  <2> QED BY <1>6, <2>1, <2>2
<1>8. m \in 1 .. Len(n)
  BY <1>2, <1>3
<1> HIDE DEF Bad
<1> QED BY <1>2, <1>4, <1>5, <1>7, <1>8 DEF StartSet

-----------------------------------------------------------------------------
(* What the parser has made of the first t bytes of stream s.              *)

Own(s, t, channel) == {p \in Starts(s) : p <= t /\ s[p + 2] = channel}

\* value is the data of the last packet for the channel.
LastData(s, t, channel, value) ==
  \/ Own(s, t, channel) = {} /\ value = 0
  \/ \E last \in Own(s, t, channel) :
       /\ \A q \in Own(s, t, channel) : q <= last
       /\ value = s[last + PacketSize - 1]

\* No packet is cut at t, every byte before t was decided on with a whole
\* packet's length at hand, and the parameters are the last data.
Parsed(s, t, values) ==
  /\ t \in 0 .. Len(s)
  /\ \A p \in Starts(s) : p > t \/ p + PacketSize - 1 <= t
  /\ \A p \in 1 .. t : p + PacketSize - 1 <= Len(s)
                         \/ \E q \in Starts(s) : Covers(q, p)
  /\ values \in [Channel -> Byte]
  /\ \A channel \in Channel : LastData(s, t, channel, values[channel])

LEMMA ParsedNothing ==
  Parsed(<<>>, 0, [channel \in Channel |-> 0])
<1>1. Starts(<<>>) = {} /\ Len(<<>>) = 0
  BY DEF Starts
<1>2. 0 \in Byte
  BY DetectorAssumption DEF Byte
<1> QED BY <1>1, <1>2 DEF Parsed, LastData, Own

\* The stream grows.
LEMMA ParsedGrows ==
  ASSUME NEW s \in Seq(Byte), NEW d \in Seq(Byte), NEW t, NEW values,
         Parsed(s, t, values)
  PROVE  Parsed(s \o d, t, values)
<1> DEFINE n == s \o d
<1>1. /\ Len(s) \in Nat /\ Len(d) \in Nat /\ PacketSize \in Nat
      /\ PacketSize >= 5 /\ Len(n) = Len(s) + Len(d)
      /\ \A i \in 1 .. Len(s) : n[i] = s[i]
  BY DetectorAssumption
<1> HIDE DEF n
<1>2. StartSet(s, Len(s), Starts(s)) /\ StartSet(n, Len(n), Starts(n))
  BY <1>1, StartsFacts
<1>3. /\ Starts(s) \subseteq 1 .. Len(s) /\ Starts(n) \subseteq 1 .. Len(n)
      /\ \A p \in Starts(s) : p + PacketSize - 1 <= Len(s)
      /\ \A p \in Starts(n), q \in Starts(n) : ~Covers(q, p)
  BY <1>2 DEF StartSet, Packet
<1>4. ASSUME NEW p \in 1 .. Len(s), p + PacketSize - 1 <= Len(s)
      PROVE  p \in Starts(n) <=> p \in Starts(s)
  BY <1>4, StartsGrow DEF n
<1>5. t \in 0 .. Len(s)
  BY DEF Parsed
<1>6. ASSUME NEW p \in 1 .. t
      PROVE  p \in Starts(n) <=> p \in Starts(s)
  <2>1. p \in 1 .. Len(s)
    BY <1>1, <1>5
  <2>2. CASE p + PacketSize - 1 <= Len(s)
    BY <1>4, <2>1, <2>2
  <2>3. CASE ~(p + PacketSize - 1 <= Len(s))
    <3>1. PICK q \in Starts(s) : Covers(q, p)
      BY <2>3 DEF Parsed
    <3>2. q \in Starts(n)
      BY <1>3, <1>4, <3>1
    <3> QED BY <1>3, <2>3, <3>1, <3>2
  <2> QED BY <2>2, <2>3
<1>7. ASSUME NEW p \in Starts(n), ~(p > t)
      PROVE  p + PacketSize - 1 <= t
  <2>1. p \in 1 .. t
    BY <1>1, <1>3, <1>5, <1>7
  <2> QED BY <1>6, <1>7, <2>1 DEF Parsed
<1>8. ASSUME NEW p \in 1 .. t
      PROVE  p + PacketSize - 1 <= Len(n) \/ \E q \in Starts(n) : Covers(q, p)
  <2>1. CASE p + PacketSize - 1 <= Len(s)
    BY <1>1, <1>5, <2>1
  <2>2. CASE ~(p + PacketSize - 1 <= Len(s))
    <3>1. PICK q \in Starts(s) : Covers(q, p)
      BY <2>2 DEF Parsed
    <3> QED BY <1>3, <1>4, <3>1
  <2> QED BY <2>1, <2>2
<1>9. ASSUME NEW channel \in Channel
      PROVE  LastData(n, t, channel, values[channel])
  <2>1. ASSUME NEW p \in Starts(s), p <= t
        PROVE  /\ p + 2 \in 1 .. Len(s) /\ p + PacketSize - 1 \in 1 .. Len(s)
               /\ n[p + 2] = s[p + 2]
               /\ n[p + PacketSize - 1] = s[p + PacketSize - 1]
    <3>1. p + 2 \in 1 .. Len(s) /\ p + PacketSize - 1 \in 1 .. Len(s)
      BY <1>1, <1>3
    <3> QED BY <1>1, <3>1
  <2>2. Own(n, t, channel) = Own(s, t, channel)
    <3>1. \A p \in Starts(n) : p <= t => p \in 1 .. t
      BY <1>1, <1>3, <1>5
    <3>2. \A p \in Starts(s) : p <= t => p \in 1 .. t
      BY <1>1, <1>3, <1>5
    <3> QED BY <1>6, <2>1, <3>1, <3>2 DEF Own
  <2>3. LastData(s, t, channel, values[channel])
    BY DEF Parsed
  <2>4. \A p \in Own(s, t, channel) :
          n[p + PacketSize - 1] = s[p + PacketSize - 1]
    BY <2>1 DEF Own
  <2> QED BY <2>2, <2>3, <2>4 DEF LastData
<1>10. t \in 0 .. Len(n) /\ values \in [Channel -> Byte]
  BY <1>1, <1>5 DEF Parsed
<1> QED BY <1>7, <1>8, <1>9, <1>10 DEF Parsed, n

\* The byte after t begins no packet and is discarded alone.
LEMMA ParsedSkips ==
  ASSUME NEW s \in Seq(Byte), NEW t, NEW values, Parsed(s, t, values),
         t + PacketSize <= Len(s), ~Packet(s, t + 1)
  PROVE  Parsed(s, t + 1, values)
<1>1. /\ Len(s) \in Nat /\ PacketSize \in Nat /\ PacketSize >= 5
      /\ t \in 0 .. Len(s)
  BY DetectorAssumption DEF Parsed
<1>2. StartSet(s, Len(s), Starts(s))
  BY <1>1, StartsFacts
<1>3. t + 1 \notin Starts(s) /\ Starts(s) \subseteq 1 .. Len(s)
  BY <1>1, <1>2 DEF StartSet
<1>4. \A p \in Starts(s) : p <= t + 1 <=> p <= t
  BY <1>1, <1>3
<1>5. ASSUME NEW p \in Starts(s)
      PROVE  p > t + 1 \/ p + PacketSize - 1 <= t + 1
  <2>1. p > t \/ p + PacketSize - 1 <= t
    BY DEF Parsed
  <2> QED BY <1>1, <1>3, <2>1
<1>6. ASSUME NEW p \in 1 .. t + 1
      PROVE  p + PacketSize - 1 <= Len(s) \/ \E q \in Starts(s) : Covers(q, p)
  <2>1. CASE p = t + 1
    BY <1>1, <2>1
  <2>2. CASE p # t + 1
    <3>1. p \in 1 .. t
      BY <1>1, <2>2
    <3> QED BY <3>1 DEF Parsed
  <2> QED BY <2>1, <2>2
<1>7. \A channel \in Channel : Own(s, t + 1, channel) = Own(s, t, channel)
  BY <1>4 DEF Own
<1>8. \A channel \in Channel : LastData(s, t + 1, channel, values[channel])
  BY <1>7 DEF Parsed, LastData
<1>9. t + 1 \in 0 .. Len(s) /\ values \in [Channel -> Byte]
  BY <1>1 DEF Parsed
<1> QED BY <1>5, <1>6, <1>8, <1>9 DEF Parsed

\* A packet follows t: it is one of the stream's, and is taken as a whole.  When
\* its channel has no parameter, the parameters stay as they are.
LEMMA ParsedTakes ==
  ASSUME NEW s \in Seq(Byte), NEW t, NEW values, Parsed(s, t, values),
         Packet(s, t + 1)
  PROVE  Parsed(s, t + PacketSize,
                IF s[t + 3] \in Channel
                  THEN [values EXCEPT ![s[t + 3]] = s[t + PacketSize]]
                  ELSE values)
<1> DEFINE d == t + 1
           new == IF s[t + 3] \in Channel
                    THEN [values EXCEPT ![s[t + 3]] = s[t + PacketSize]]
                    ELSE values
<1>1. /\ Len(s) \in Nat /\ PacketSize \in Nat /\ PacketSize >= 5
      /\ t \in 0 .. Len(s) /\ t + PacketSize <= Len(s)
      /\ values \in [Channel -> Byte]
  BY DetectorAssumption DEF Parsed, Packet
<1>2. StartSet(s, Len(s), Starts(s))
  BY <1>1, StartsFacts
<1>3. Starts(s) \subseteq 1 .. Len(s)
  BY <1>2 DEF StartSet
<1>4. ASSUME NEW q \in Starts(s) PROVE q > t \/ q + PacketSize - 1 <= t
  BY DEF Parsed
<1>5. d \in Starts(s)
  <2>1. \A q \in Starts(s) : ~Covers(q, d)
    BY <1>1, <1>3, <1>4 DEF Covers
  <2>2. d \in 1 .. Len(s)
    BY <1>1
  <2> QED BY <1>2, <2>1, <2>2 DEF StartSet
<1>6. ASSUME NEW p \in Starts(s), p <= t + PacketSize, p # d
      PROVE  p <= t
  <2>1. ~Covers(d, p)
    BY <1>2, <1>3, <1>5 DEF StartSet
  <2> QED BY <1>1, <1>3, <1>6, <2>1 DEF Covers
<1>7. ASSUME NEW p \in Starts(s)
      PROVE  p > t + PacketSize \/ p + PacketSize - 1 <= t + PacketSize
  BY <1>1, <1>3, <1>4, <1>6
<1>8. ASSUME NEW p \in 1 .. t + PacketSize
      PROVE  p + PacketSize - 1 <= Len(s) \/ \E q \in Starts(s) : Covers(q, p)
  <2>1. CASE p <= t
    BY <1>1, <2>1 DEF Parsed
  <2>2. CASE p = d
    BY <1>1, <2>2
  <2>3. CASE p > d
    BY <1>1, <1>5, <2>3 DEF Covers
  <2> QED BY <1>1, <2>1, <2>2, <2>3
<1>9. s[t + 3] \in Byte /\ s[t + PacketSize] \in Byte
      /\ d + 2 = t + 3 /\ d + PacketSize - 1 = t + PacketSize
  BY <1>1
<1>10. ASSUME NEW channel \in Channel
       PROVE  LastData(s, t + PacketSize, channel, new[channel])
  <2> DEFINE own == Own(s, t, channel)
             own2 == Own(s, t + PacketSize, channel)
  <2>1. \A p \in Starts(s) :
          p <= t + PacketSize <=> p <= t \/ p = d
    BY <1>1, <1>3, <1>6
  <2>2. LastData(s, t, channel, values[channel])
    BY DEF Parsed
  <2>3. \A p \in own : p <= t /\ p \in Int
    BY <1>3 DEF Own
  <2>4. CASE channel = s[t + 3]
    <3>1. d \in own2 /\ \A q \in own2 : q <= d
      BY <1>1, <1>3, <1>5, <1>9, <2>1, <2>4 DEF Own
    <3>2. new[channel] = s[d + PacketSize - 1]
      BY <1>1, <1>9, <2>4
    <3> HIDE DEF new, d
    <3> QED BY <3>1, <3>2 DEF LastData
  <2>5. CASE channel # s[t + 3]
    <3>1. own2 = own
      <4>1. s[d + 2] # channel
        BY <1>9, <2>5
      <4> HIDE DEF d
      <4> QED BY <2>1, <4>1 DEF Own
    <3>2. new[channel] = values[channel]
      BY <1>1, <2>5
    <3> HIDE DEF new, d
    <3> QED BY <2>2, <3>1, <3>2 DEF LastData
  <2> QED BY <2>4, <2>5
<1>11. t + PacketSize \in 0 .. Len(s) /\ new \in [Channel -> Byte]
  BY <1>1, <1>9
<1> HIDE DEF new
<1>12. Parsed(s, t + PacketSize, new)
  BY <1>7, <1>8, <1>10, <1>11 DEF Parsed
<1> QED BY <1>12 DEF new

-----------------------------------------------------------------------------
(* detector_fifo holds the end of the stream.                              *)

\* f holds the last bytes of stream s, oldest at end.
Holds(f, s) ==
  /\ f \in F!Fifo
  /\ f.head = F!Offset(f.end, F!Used(f))
  /\ F!Used(f) <= Len(s)
  /\ \A k \in 1 .. F!Used(f) :
       f.buffer[F!Offset(f.end, k - 1)] = s[Len(s) - F!Used(f) + k]

LEMMA OffsetInSlot ==
  ASSUME NEW idx \in F!Slot, NEW m \in 0 .. BufferSize
  PROVE  F!Offset(idx, m) \in F!Slot
  BY DetectorAssumption DEF F!Slot, F!Offset

LEMMA OffsetSum ==
  ASSUME NEW idx \in F!Slot, NEW m \in Nat, NEW n \in Nat, m + n <= BufferSize
  PROVE  F!Offset(F!Offset(idx, m), n) = F!Offset(idx, m + n)
  BY DetectorAssumption DEF F!Slot, F!Offset

LEMMA DistanceWalked ==
  ASSUME NEW idx \in F!Slot, NEW m \in 0 .. BufferSize,
         NEW n \in 0 .. BufferSize - 1
  PROVE  F!Distance(F!Offset(idx, m), F!Offset(idx, n))
           = IF m <= n THEN n - m ELSE n + BufferSize - m
  BY DetectorAssumption DEF F!Slot, F!Offset, F!Distance

LEMMA FifoFacts ==
  ASSUME NEW f \in F!Fifo
  PROVE  /\ f.size \in 0 .. BufferSize
         /\ F!Used(f) = BufferSize - f.size
         /\ F!Used(f) \in 0 .. BufferSize /\ F!Used(f) \in Nat
         /\ BufferSize \in Nat \ {0}
         /\ f.end \in F!Slot /\ f.head \in F!Slot
         /\ f.buffer \in [F!Slot -> Byte]
  BY DetectorAssumption DEF F!Fifo, F!Used

LEMMA HoldsNothing == Holds(F!EmptyFifo, <<>>) /\ F!Used(F!EmptyFifo) = 0
<1>1. F!EmptyFifo \in F!Fifo
  BY DetectorAssumption DEF F!EmptyFifo, F!Fifo, F!Slot, F!Execution, Byte
<1>2. /\ F!EmptyFifo.size = BufferSize
      /\ F!EmptyFifo.head = 0 /\ F!EmptyFifo.end = 0
  BY DEF F!EmptyFifo
<1>3. F!Used(F!EmptyFifo) = 0
  BY <1>1, <1>2, FifoFacts
<1>4. F!Offset(0, 0) = 0
  BY DetectorAssumption DEF F!Offset
<1> QED BY <1>1, <1>2, <1>3, <1>4 DEF Holds

\* What a write of d leaves in the buffer of f.
Written(f, d) ==
  [x \in F!Slot |-> IF F!Distance(f.head, x) < Len(d)
                      THEN d[F!Distance(f.head, x) + 1]
                      ELSE f.buffer[x]]

\* A write that is not refused.
LEMMA WriteFields ==
  ASSUME NEW f \in F!Fifo, NEW d \in Seq(Byte),
         F!WriteState(f, d) = "FIFO_SUCCESS"
  PROVE  LET g == F!Write(f, d)
         IN  /\ g \in F!Fifo /\ g.execution = f.execution /\ g.end = f.end
             /\ g.head = F!Offset(f.head, Len(d))
             /\ g.size = f.size - Len(d) /\ Len(d) <= f.size
             /\ g.buffer = Written(f, d)
<1> DEFINE g == F!Write(f, d)
           l == Len(d)
           b == Written(f, d)
<1>1. /\ f.size \in 0 .. BufferSize /\ BufferSize \in Nat \ {0}
      /\ f.head \in F!Slot /\ f.buffer \in [F!Slot -> Byte]
  BY FifoFacts
<1>2. l \in Nat /\ l <= f.size
  BY <1>1 DEF F!WriteState
<1>3. g = [f EXCEPT !.buffer = b, !.head = F!Offset(f.head, l),
                    !.size = f.size - l]
  BY DEF F!Write, Written
<1>4. b \in [F!Slot -> Byte]
  <2> SUFFICES ASSUME NEW x \in F!Slot, F!Distance(f.head, x) < l
               PROVE  d[F!Distance(f.head, x) + 1] \in Byte
    BY <1>1 DEF Written
  <2>1. F!Distance(f.head, x) \in Nat
    BY SMTT(20), <1>1 DEF F!Distance, F!Slot
  <2>2. F!Distance(f.head, x) + 1 \in 1 .. Len(d)
    BY <1>2, <2>1
  <2> QED BY <2>2
<1>5. l \in 0 .. BufferSize /\ f.size - l \in 0 .. BufferSize
  BY <1>1, <1>2
<1>6. F!Offset(f.head, l) \in F!Slot
  BY <1>1, <1>5, OffsetInSlot
<1> HIDE DEF g, b, l
<1>7. /\ g \in F!Fifo /\ g.execution = f.execution /\ g.end = f.end
      /\ g.head = F!Offset(f.head, l) /\ g.size = f.size - l
      /\ g.buffer = b
  BY <1>3, <1>4, <1>5, <1>6 DEF F!Fifo
<1> QED BY <1>2, <1>7 DEF g, b, l

\* fifo_write_buffer appends what it accepts to the stream.
LEMMA HoldsWritten ==
  ASSUME NEW f, NEW s \in Seq(Byte), NEW d \in Seq(Byte), Holds(f, s),
         Len(d) <= f.size, NEW g \in F!Fifo, g.end = f.end,
         g.head = F!Offset(f.head, Len(d)), g.size = f.size - Len(d),
         g.buffer = Written(f, d)
  PROVE  /\ Holds(g, s \o d)
         /\ F!Used(g) = F!Used(f) + Len(d)
<1> DEFINE n == s \o d
           u == F!Used(f)
           l == Len(d)
           b == Written(f, d)
<1>1. /\ f \in F!Fifo /\ f.head = F!Offset(f.end, u)
      /\ u <= Len(s)
      /\ \A k \in 1 .. u :
           f.buffer[F!Offset(f.end, k - 1)] = s[Len(s) - u + k]
  BY DEF Holds
<1>2. /\ f.size \in 0 .. BufferSize /\ u = BufferSize - f.size
      /\ u \in 0 .. BufferSize /\ BufferSize \in Nat \ {0}
      /\ f.end \in F!Slot /\ f.head \in F!Slot
  BY <1>1, FifoFacts
<1>3. l \in Nat /\ l <= f.size /\ Len(s) \in Nat
  OBVIOUS
<1>4. /\ g.end = f.end /\ g.head = F!Offset(f.head, l) /\ g.size = f.size - l
      /\ g.buffer = b
  OBVIOUS
<1>5. /\ Len(n) = Len(s) + l
      /\ \A k \in 1 .. Len(s) : n[k] = s[k]
      /\ \A k \in 1 .. l : n[Len(s) + k] = d[k]
  BY <1>3
<1> HIDE DEF u, l, n, b
<1>6. ASSUME NEW j \in 0 .. BufferSize - 1
      PROVE  /\ F!Offset(f.end, j) \in F!Slot
             /\ F!Distance(f.head, F!Offset(f.end, j))
                  = IF u <= j THEN j - u ELSE j + BufferSize - u
  <2>1. j \in 0 .. BufferSize
    BY <1>2
  <2>2. F!Offset(f.end, j) \in F!Slot
    BY <1>2, <2>1, OffsetInSlot
  <2>3. F!Distance(F!Offset(f.end, u), F!Offset(f.end, j))
          = IF u <= j THEN j - u ELSE j + BufferSize - u
    BY <1>2, DistanceWalked
  <2> QED BY <1>1, <2>2, <2>3
<1>7. g.head = F!Offset(f.end, u + l)
  <2>1. l \in Nat /\ u \in Nat /\ u + l <= BufferSize
    BY <1>2, <1>3
  <2>2. F!Offset(F!Offset(f.end, u), l) = F!Offset(f.end, u + l)
    BY <1>2, <2>1, OffsetSum
  <2> QED BY <1>1, <1>4, <2>2
<1>8. F!Used(g) = u + l
  <2>1. F!Used(g) = BufferSize - g.size
    BY FifoFacts
  <2> QED BY <1>2, <1>3, <1>4, <2>1
<1>9. ASSUME NEW k \in 1 .. u + l
      PROVE  b[F!Offset(f.end, k - 1)] = n[Len(n) - (u + l) + k]
  <2>1. /\ k - 1 \in 0 .. BufferSize - 1 /\ u + l <= BufferSize
        /\ u \in Nat /\ l \in Nat /\ BufferSize \in Nat
        /\ u <= Len(s) /\ Len(s) \in Nat /\ Len(n) = Len(s) + l
    <3>1. /\ u \in 0 .. BufferSize /\ u = BufferSize - f.size
          /\ f.size \in 0 .. BufferSize /\ BufferSize \in Nat
      BY <1>2
    <3>2. f.size \in Int /\ u \in Nat
      BY <3>1
    <3>3. l \in Nat /\ l <= f.size
      BY <1>3
    <3>4. u + l <= BufferSize
      BY <3>1, <3>2, <3>3
    <3>5. k - 1 \in 0 .. BufferSize - 1
      BY <3>1, <3>2, <3>3, <3>4
    <3>6. u <= Len(s) /\ Len(s) \in Nat /\ Len(n) = Len(s) + l
      BY <1>1, <1>3, <1>5
    <3> QED BY <3>1, <3>2, <3>3, <3>4, <3>5, <3>6
  <2>2. CASE k <= u
    <3>1. ~(F!Distance(f.head, F!Offset(f.end, k - 1)) < l)
      <4>1. ~(u <= k - 1)
        BY <2>1, <2>2
      <4>2. F!Distance(f.head, F!Offset(f.end, k - 1))
              = (k - 1) + BufferSize - u
        BY <1>6, <2>1, <4>1
      <4> QED BY <2>1, <4>2
    <3>2. b[F!Offset(f.end, k - 1)] = f.buffer[F!Offset(f.end, k - 1)]
      BY <1>6, <2>1, <3>1 DEF b, l, Written
    <3>3. /\ k \in 1 .. u /\ Len(n) - (u + l) + k = Len(s) - u + k
          /\ Len(s) - u + k \in 1 .. Len(s)
      BY <2>1, <2>2
    <3> QED BY <1>1, <1>5, <3>2, <3>3
  <2>3. CASE ~(k <= u)
    <3>1. /\ F!Distance(f.head, F!Offset(f.end, k - 1)) = k - 1 - u
          /\ k - 1 - u < l /\ k - 1 - u + 1 = k - u
      <4>1. u <= k - 1
        BY <2>1, <2>3
      <4>2. F!Distance(f.head, F!Offset(f.end, k - 1)) = (k - 1) - u
        BY <1>6, <2>1, <4>1
      <4> QED BY <2>1, <4>1, <4>2
    <3>2. b[F!Offset(f.end, k - 1)] = d[k - u]
      BY <1>6, <2>1, <3>1 DEF b, l, Written
    <3>3. /\ Len(n) - (u + l) + k = Len(s) + (k - u)
          /\ k - u \in 1 .. l
      BY <2>1, <2>3
    <3> QED BY <1>5, <3>2, <3>3
  <2> QED BY <2>2, <2>3
<1>10. u + l <= Len(n)
  BY <1>1, <1>2, <1>3, <1>5
<1>11. Holds(g, n)
  BY <1>4, <1>7, <1>8, <1>9, <1>10 DEF Holds
<1> QED BY <1>8, <1>11 DEF n, u, l

\* Moving the end and giving the room back leaves the later bytes.
LEMMA HoldsMoved ==
  ASSUME NEW f, NEW s \in Seq(Byte), Holds(f, s), NEW n \in 0 .. F!Used(f),
         NEW g \in F!Fifo, g.end = F!Offset(f.end, n), g.head = f.head,
         g.size = f.size + n, g.buffer = f.buffer
  PROVE  Holds(g, s) /\ F!Used(g) = F!Used(f) - n
<1> DEFINE u == F!Used(f)
<1>1. /\ f \in F!Fifo /\ f.head = F!Offset(f.end, u)
      /\ u <= Len(s) /\ Len(s) \in Nat
      /\ \A k \in 1 .. u :
           f.buffer[F!Offset(f.end, k - 1)] = s[Len(s) - u + k]
  BY DEF Holds
<1>2. /\ f.size \in 0 .. BufferSize /\ u = BufferSize - f.size
      /\ u \in 0 .. BufferSize /\ BufferSize \in Nat \ {0}
      /\ f.end \in F!Slot /\ n \in 0 .. u
  BY <1>1, FifoFacts
<1> HIDE DEF u
<1>3. n \in 0 .. BufferSize /\ n \in Nat
  BY <1>2
<1>4. \A k \in Nat : n + k <= BufferSize =>
        F!Offset(F!Offset(f.end, n), k) = F!Offset(f.end, n + k)
  BY <1>2, <1>3, OffsetSum
<1>5. F!Used(g) = u - n
  BY <1>2, <1>3, FifoFacts
<1>6. f.head = F!Offset(F!Offset(f.end, n), u - n)
  <2>1. u - n \in Nat /\ n + (u - n) = u /\ u <= BufferSize
    BY <1>2
  <2> QED BY <1>1, <1>4, <2>1
<1>7. ASSUME NEW k \in 1 .. u - n
      PROVE  f.buffer[F!Offset(F!Offset(f.end, n), k - 1)]
               = s[Len(s) - (u - n) + k]
  <2>1. /\ k - 1 \in Nat /\ n + (k - 1) <= BufferSize
        /\ n + (k - 1) = (n + k) - 1 /\ n + k \in 1 .. u
        /\ Len(s) - (u - n) + k = Len(s) - u + (n + k)
    <3>1. Len(s) \in Nat
      OBVIOUS
    <3>2. u \in Nat /\ n \in Nat /\ n <= u /\ u <= BufferSize /\ BufferSize \in Nat
      BY <1>2
    <3>3. k \in Nat /\ 1 <= k /\ k <= u - n
      BY <3>2
    <3> QED BY <3>1, <3>2, <3>3
  <2>2. F!Offset(F!Offset(f.end, n), k - 1) = F!Offset(f.end, (n + k) - 1)
    BY <1>4, <2>1
  <2> QED BY <1>1, <2>1, <2>2
<1>8. u - n <= Len(s)
  BY <1>1, <1>2
<1>9. Holds(g, s)
  BY <1>5, <1>6, <1>7, <1>8 DEF Holds
<1> QED BY <1>5, <1>9 DEF u

\* A packet of the stream and its bytes.
LEMMA PacketBytes ==
  ASSUME NEW s \in Seq(Byte), NEW t \in Nat, t + PacketSize <= Len(s)
  PROVE  LET p == SubSeq(s, t + 1, t + PacketSize)
         IN  /\ p \in Seq(Byte) /\ Len(p) = PacketSize
             /\ \A i \in 1 .. PacketSize : p[i] = s[t + i]
<1> DEFINE e == t + PacketSize
<1>1. /\ t + 1 \in Int /\ e \in Int /\ t + 1 <= e /\ PacketSize \in Nat
      /\ e - (t + 1) + 1 = PacketSize /\ Len(s) \in Nat
  BY DetectorAssumption
<1>2. \A i \in t + 1 .. e : s[i] \in Byte
  BY <1>1
<1> HIDE DEF e
<1>3. /\ SubSeq(s, t + 1, e) \in Seq(Byte)
      /\ Len(SubSeq(s, t + 1, e)) = PacketSize
      /\ \A i \in 1 .. PacketSize : SubSeq(s, t + 1, e)[i] = s[(t + 1) + i - 1]
  BY <1>1, <1>2, SubSeqProperties
<1>4. \A i \in 1 .. PacketSize : (t + 1) + i - 1 = t + i
  BY <1>1
<1> QED BY <1>3, <1>4 DEF e

-----------------------------------------------------------------------------
(* The invariant. *)

\* The fifo f when the n bytes of a discard under way are given back.
Settled(f, n) == [f EXCEPT !.size = @ + n]

LEMMA SettledFields ==
  ASSUME NEW f \in F!Fifo, NEW n, f.size + n \in 0 .. BufferSize
  PROVE  LET g == Settled(f, n)
         IN  /\ g \in F!Fifo /\ g.end = f.end /\ g.head = f.head
             /\ g.size = f.size + n /\ g.buffer = f.buffer
  BY DEF Settled, F!Fifo

\* Where the bytes are, and that a chunk is never written beside more than an
\* incomplete packet.
BytesInv ==
  /\ custom \in BOOLEAN
  /\ transport \in Seq(Byte) /\ chunk \in Seq(Byte) /\ accepted \in Seq(Byte)
  /\ Len(transport) <= BufferSize /\ Len(chunk) <= BufferSize
  /\ Len(accepted) + Len(chunk) + Len(transport) <= MaxBytes
  /\ custom => transport = <<>> /\ chunk = <<>> /\ pc # "write"
  /\ pc \in {"idle", "write"} /\ ~custom => F!Used(fifo) < PacketSize

\* What the steps of the analysis hold in their hands.  An interrupt only lowers
\* size, so what was there to be read or discarded still is.
StepInv ==
  /\ pc \in {"idle", "write", "look", "copy", "decide", "store"}
  /\ fifo \in F!Fifo /\ "FIFO_WRITE" \notin fifo.execution
  /\ parameter \in [Channel -> Byte]
  /\ lost \in BOOLEAN /\ outside \in BOOLEAN
  /\ packet \in Seq(Byte) /\ Len(packet) <= PacketSize
  /\ pc \in {"copy", "decide"} => PacketSize <= F!Used(fifo)
  /\ pc = "copy" => Len(packet) < PacketSize
  /\ pc = "decide" => Len(packet) = PacketSize
  /\ pc \notin {"copy", "decide"} => packet = <<>>
  /\ read_length \in {0, 1, PacketSize} /\ room \in 0 .. BufferSize
  /\ IF pc = "store" THEN fifo.size <= room /\ room + read_length <= BufferSize
                     ELSE read_length = 0

\* While no count is lost, detector_fifo holds the end of the stream, the bytes
\* taken are parsed, and the packet looked at is the next of the stream.
StreamInv ==
  /\ Holds(Settled(fifo, read_length), accepted)
  /\ Parsed(accepted, Taken, parameter)
  /\ \A i \in 1 .. Len(packet) : packet[i] = accepted[Taken + i]

DetectorInv ==
  /\ BytesInv
  /\ StepInv
  /\ ~lost => StreamInv

\* The numbers of the model.
LEMMA DetectorFacts ==
  ASSUME DetectorInv
  PROVE  /\ accepted \in Seq(Byte) /\ Len(accepted) \in Nat
         /\ fifo \in F!Fifo /\ fifo.size \in 0 .. BufferSize
         /\ F!Used(fifo) \in Nat /\ F!Used(fifo) = BufferSize - fifo.size
         /\ read_length \in Nat
         /\ fifo.size + read_length \in 0 .. BufferSize
         /\ PacketSize \in Nat /\ PacketSize >= 5
         /\ BufferSize \in Nat /\ BufferSize >= PacketSize
         /\ MaxBytes \in Nat
<1>1. /\ PacketSize \in Nat /\ PacketSize >= 5 /\ MaxBytes \in Nat
      /\ BufferSize \in Nat /\ BufferSize >= PacketSize
  BY DetectorAssumption
<1>2. accepted \in Seq(Byte) /\ Len(accepted) \in Nat
  BY DEF DetectorInv, BytesInv
<1>3. /\ fifo \in F!Fifo /\ read_length \in Nat /\ room \in 0 .. BufferSize
      /\ pc = "store" => fifo.size <= room /\ room + read_length <= BufferSize
      /\ pc # "store" => read_length = 0
  BY <1>1 DEF DetectorInv, StepInv
<1>4. /\ fifo.size \in 0 .. BufferSize /\ F!Used(fifo) \in Nat
      /\ F!Used(fifo) = BufferSize - fifo.size
  BY <1>3, FifoFacts
<1>5. fifo.size + read_length \in 0 .. BufferSize
  BY <1>1, <1>3, <1>4
<1> QED BY <1>1, <1>2, <1>3, <1>4, <1>5

LEMMA StreamFacts ==
  ASSUME DetectorInv, ~lost
  PROVE  LET f == Settled(fifo, read_length)
         IN  /\ f \in F!Fifo /\ Holds(f, accepted)
             /\ f.end = fifo.end /\ f.head = fifo.head
             /\ f.size = fifo.size + read_length /\ f.buffer = fifo.buffer
             /\ F!Used(f) = F!Used(fifo) - read_length /\ F!Used(f) \in Nat
             /\ F!Used(f) <= Len(accepted)
             /\ Taken = Len(accepted) - F!Used(f) /\ Taken \in Nat
             /\ Parsed(accepted, Taken, parameter)
             /\ \A i \in 1 .. Len(packet) : packet[i] = accepted[Taken + i]
<1> DEFINE f == Settled(fifo, read_length)
<1>1. /\ f \in F!Fifo /\ f.end = fifo.end /\ f.head = fifo.head
      /\ f.size = fifo.size + read_length /\ f.buffer = fifo.buffer
  BY DetectorFacts, SettledFields
<1>2. StreamInv
  BY DEF DetectorInv
<1>3. Holds(f, accepted) /\ Parsed(accepted, Taken, parameter)
      /\ \A i \in 1 .. Len(packet) : packet[i] = accepted[Taken + i]
  BY <1>2 DEF StreamInv
<1> HIDE DEF f
<1>4. F!Used(f) = BufferSize - f.size /\ F!Used(f) \in Nat
  BY <1>1, FifoFacts
<1>5. F!Used(f) = F!Used(fifo) - read_length
  BY <1>1, <1>4, DetectorFacts
<1>6. F!Used(f) <= Len(accepted)
  BY <1>3 DEF Holds
<1>7. Taken = Len(accepted) - F!Used(f) /\ Taken \in Nat
  BY <1>4, <1>5, <1>6, DetectorFacts DEF Taken
<1> QED BY <1>1, <1>3, <1>4, <1>5, <1>6, <1>7 DEF f

\* A record of a fifo with the same data is as good.
LEMMA HoldsSame ==
  ASSUME NEW f, NEW s, Holds(f, s), NEW g \in F!Fifo, g.end = f.end,
         g.head = f.head, g.size = f.size, g.buffer = f.buffer
  PROVE  Holds(g, s) /\ F!Used(g) = F!Used(f)
<1>1. F!Used(g) = F!Used(f)
  BY FifoFacts DEF Holds
<1> QED BY <1>1 DEF Holds

LEMMA InitDetector == Init => DetectorInv
<1> SUFFICES ASSUME Init PROVE DetectorInv
  OBVIOUS
<1>1. /\ custom \in BOOLEAN /\ transport = <<>> /\ chunk = <<>>
      /\ fifo = F!EmptyFifo /\ pc = "idle" /\ packet = <<>>
      /\ read_length = 0 /\ room = 0 /\ lost = FALSE /\ outside = FALSE
      /\ parameter = [channel \in Channel |-> 0] /\ accepted = <<>>
  BY DEF Init
<1>2. /\ Holds(fifo, accepted) /\ F!Used(fifo) = 0 /\ fifo \in F!Fifo
      /\ fifo.size \in 0 .. BufferSize
  BY <1>1, HoldsNothing, FifoFacts DEF Holds
<1>3. Taken = 0
  BY <1>1, <1>2 DEF Taken
<1>4. Parsed(accepted, Taken, parameter)
  BY <1>1, <1>3, ParsedNothing
<1>5. BytesInv
  BY <1>1, <1>2, DetectorAssumption DEF BytesInv
<1>6. StepInv
  <2>1. fifo.execution = {}
    BY <1>1 DEF F!EmptyFifo
  <2>2. 0 \in Byte
    BY DetectorAssumption DEF Byte
  <2>3. parameter \in [Channel -> Byte]
    BY <1>1, <2>2
  <2>4. packet \in Seq(Byte) /\ Len(packet) = 0
    BY <1>1
  <2>5. PacketSize \in Nat /\ BufferSize \in Nat
    BY DetectorAssumption
  <2>6. read_length \in {0, 1, PacketSize} /\ room \in 0 .. BufferSize
        /\ Len(packet) <= PacketSize /\ read_length = 0
    BY <1>1, <2>4, <2>5
  <2>7. lost \in BOOLEAN /\ outside \in BOOLEAN
    BY <1>1, Zenon
  <2>8. pc = "idle" /\ packet = <<>>
    BY <1>1
  <2> QED BY <1>2, <2>1, <2>3, <2>4, <2>6, <2>7, <2>8 DEF StepInv
<1>7. Holds(Settled(fifo, read_length), accepted)
  <2>1. fifo.size + read_length = fifo.size
    BY <1>1, <1>2
  <2>2. LET g == Settled(fifo, read_length)
        IN  /\ g \in F!Fifo /\ g.end = fifo.end /\ g.head = fifo.head
            /\ g.size = fifo.size /\ g.buffer = fifo.buffer
    BY <1>2, <2>1, SettledFields
  <2> QED BY <1>2, <2>2, HoldsSame
<1>8. StreamInv
  BY <1>1, <1>4, <1>7 DEF StreamInv
<1> QED BY <1>5, <1>6, <1>8 DEF DetectorInv

-----------------------------------------------------------------------------
(* The steps. *)

\* A write by the main loop or by the interrupt: what it accepts follows in the
\* stream, and nothing of what was there moves, also in the middle of a discard.
LEMMA StreamWritten ==
  ASSUME DetectorInv, NEW d \in Seq(Byte), WriteFifo(d),
         UNCHANGED <<packet, read_length, parameter, lost>>
  PROVE  /\ fifo' \in F!Fifo /\ fifo'.execution = fifo.execution
         /\ fifo'.size \in 0 .. BufferSize /\ fifo'.size <= fifo.size
         /\ F!Used(fifo') >= F!Used(fifo)
         /\ accepted' \in Seq(Byte) /\ Len(accepted') <= Len(accepted) + Len(d)
         /\ ~lost => StreamInv'
<1>1. CASE F!WriteState(fifo, d) = "FIFO_SUCCESS"
  <2>1. fifo' = F!Write(fifo, d) /\ accepted' = accepted \o d
    BY <1>1 DEF WriteFifo
  <2>2. /\ fifo' \in F!Fifo /\ fifo'.execution = fifo.execution
        /\ fifo'.end = fifo.end
        /\ fifo'.head = F!Offset(fifo.head, Len(d))
        /\ fifo'.size = fifo.size - Len(d) /\ Len(d) <= fifo.size
        /\ fifo'.buffer = Written(fifo, d)
    BY <1>1, <2>1, DetectorFacts, WriteFields
  <2>3. fifo'.size \in 0 .. BufferSize /\ F!Used(fifo') = BufferSize - fifo'.size
    BY <2>2, FifoFacts
  <2>4. /\ accepted' \in Seq(Byte) /\ Len(d) \in Nat
        /\ Len(accepted') = Len(accepted) + Len(d)
        /\ \A i \in 1 .. Len(accepted) : accepted'[i] = accepted[i]
    BY <2>1, DetectorFacts
  <2>5. fifo'.size <= fifo.size /\ F!Used(fifo') = F!Used(fifo) + Len(d)
    <3>1. /\ fifo.size \in Nat /\ BufferSize \in Nat
          /\ F!Used(fifo) = BufferSize - fifo.size
      BY DetectorFacts
    <3> QED BY <2>2, <2>3, <2>4, <3>1
  <2>6. ASSUME ~lost PROVE StreamInv'
    <3> DEFINE f == Settled(fifo, read_length)
               g == Settled(fifo', read_length)
    <3>1. /\ Holds(f, accepted) /\ f.end = fifo.end /\ f.head = fifo.head
          /\ f.size = fifo.size + read_length /\ f.buffer = fifo.buffer
          /\ F!Used(f) = F!Used(fifo) - read_length /\ F!Used(f) \in Nat
          /\ Taken \in Nat /\ F!Used(f) <= Len(accepted)
          /\ Taken = Len(accepted) - F!Used(f)
          /\ Parsed(accepted, Taken, parameter)
          /\ \A i \in 1 .. Len(packet) : packet[i] = accepted[Taken + i]
      BY <2>6, StreamFacts
    <3>2. fifo'.size + read_length \in 0 .. BufferSize
      <4>1. /\ fifo.size + read_length \in 0 .. BufferSize /\ read_length \in Nat
            /\ fifo.size \in Nat /\ BufferSize \in Nat
        BY DetectorFacts
      <4> QED BY <2>3, <2>5, <4>1
    <3>3. /\ g \in F!Fifo /\ g.end = fifo'.end /\ g.head = fifo'.head
          /\ g.size = fifo'.size + read_length /\ g.buffer = fifo'.buffer
      BY <2>2, <3>2, SettledFields
    <3> HIDE DEF f, g
    <3>4. Written(f, d) = Written(fifo, d)
      BY <3>1 DEF Written
    <3>5. g.size = f.size - Len(d) /\ Len(d) <= f.size
      <4>1. fifo.size \in Nat /\ read_length \in Nat
        BY DetectorFacts
      <4> QED BY <2>2, <2>4, <3>1, <3>3, <4>1
    <3>6. /\ g.end = f.end /\ g.head = F!Offset(f.head, Len(d))
          /\ g.buffer = Written(f, d)
      BY <2>2, <3>1, <3>3, <3>4
    <3>7. Holds(g, accepted \o d)
      BY <3>1, <3>3, <3>5, <3>6, DetectorFacts, HoldsWritten
    <3>8. Taken' = Taken
      <4>1. Taken' = Len(accepted') - (F!Used(fifo') - read_length)
        BY DEF Taken
      <4>2. Taken = Len(accepted) - (F!Used(fifo) - read_length)
        BY DEF Taken
      <4>3. /\ F!Used(fifo) \in Nat /\ read_length \in Nat
            /\ Len(accepted) \in Nat
        BY DetectorFacts
      <4> QED BY <2>4, <2>5, <4>1, <4>2, <4>3
    <3>9. Parsed(accepted', Taken, parameter)
      BY <2>1, <3>1, DetectorFacts, ParsedGrows
    <3>10. \A i \in 1 .. Len(packet) : packet[i] = accepted'[Taken + i]
      <4>1. Taken + Len(packet) <= Len(accepted) /\ Len(packet) \in Nat
        <5>1. Len(packet) <= F!Used(f) /\ Len(packet) \in Nat
          <6>1. CASE pc \in {"copy", "decide"}
            <7>1. pc # "store" /\ PacketSize <= F!Used(fifo)
                  /\ Len(packet) <= PacketSize /\ Len(packet) \in Nat
                  /\ read_length = 0
              BY <6>1 DEF DetectorInv, StepInv
            <7> QED BY <3>1, <7>1, DetectorFacts
          <6>2. CASE pc \notin {"copy", "decide"}
            <7>1. Len(packet) = 0
              BY <6>2 DEF DetectorInv, StepInv
            <7> QED BY <3>1, <7>1
          <6> QED BY <6>1, <6>2
        <5>2. /\ Taken = Len(accepted) - F!Used(f) /\ F!Used(f) \in Nat
              /\ Len(accepted) \in Nat
          BY <3>1, DetectorFacts
        <5> QED BY <5>1, <5>2
      <4>2. \A i \in 1 .. Len(packet) : Taken + i \in 1 .. Len(accepted)
        <5>1. Taken \in Nat /\ Len(accepted) \in Nat
          BY <3>1, DetectorFacts
        <5> QED BY <4>1, <5>1
      <4> QED BY <2>4, <3>1, <4>2
    <3> QED BY <2>1, <3>7, <3>8, <3>9, <3>10 DEF StreamInv, g
  <2>7. F!Used(fifo') >= F!Used(fifo) /\ Len(accepted') <= Len(accepted) + Len(d)
    BY <2>4, <2>5, DetectorFacts
  <2> QED BY <2>2, <2>3, <2>4, <2>5, <2>6, <2>7
<1>2. CASE F!WriteState(fifo, d) # "FIFO_SUCCESS"
  <2>1. fifo' = fifo /\ accepted' = accepted
    BY <1>2 DEF WriteFifo, F!Write
  <2>2. Len(d) \in Nat
    OBVIOUS
  <2>3. ~lost => StreamInv'
    BY <2>1 DEF DetectorInv, StreamInv, Taken
  <2>4. /\ fifo' \in F!Fifo /\ fifo'.execution = fifo.execution
        /\ fifo'.size \in 0 .. BufferSize /\ fifo'.size <= fifo.size
        /\ F!Used(fifo') >= F!Used(fifo)
        /\ accepted' \in Seq(Byte) /\ Len(accepted') <= Len(accepted) + Len(d)
    BY <2>1, <2>2, DetectorFacts
  <2> QED BY <2>3, <2>4
<1> QED BY <1>1, <1>2

LEMMA ReceiveDetector ==
  ASSUME DetectorInv, NEW b \in Byte, TransportReceives(b)
  PROVE  DetectorInv'
<1>1. /\ transport' = Append(transport, b) /\ ~custom
      /\ Len(transport) < BufferSize
      /\ Len(accepted) + Len(chunk) + Len(transport) < MaxBytes
      /\ UNCHANGED <<custom, chunk, fifo, pc, packet, read_length, room,
                     parameter, accepted, lost, outside>>
  BY DEF TransportReceives
<1>2. /\ transport' \in Seq(Byte) /\ Len(transport') = Len(transport) + 1
      /\ Len(transport) \in Nat /\ Len(chunk) \in Nat
  BY <1>1 DEF DetectorInv, BytesInv
<1>3. BytesInv'
  BY <1>1, <1>2, DetectorFacts DEF DetectorInv, BytesInv
<1> QED BY <1>1, <1>3 DEF DetectorInv, StepInv, StreamInv, Taken

LEMMA CustomDetector ==
  ASSUME DetectorInv, NEW d \in Seq(Byte), CustomReceives(d)
  PROVE  DetectorInv'
<1>1. /\ custom /\ Len(accepted) + Len(d) <= MaxBytes /\ WriteFifo(d)
      /\ UNCHANGED <<custom, transport, chunk, pc, packet, read_length, room,
                     parameter, lost, outside>>
  BY DEF CustomReceives
<1>2. /\ fifo' \in F!Fifo /\ fifo'.execution = fifo.execution
      /\ fifo'.size \in 0 .. BufferSize /\ fifo'.size <= fifo.size
      /\ F!Used(fifo') >= F!Used(fifo)
      /\ accepted' \in Seq(Byte) /\ Len(accepted') <= Len(accepted) + Len(d)
      /\ ~lost => StreamInv'
  BY <1>1, StreamWritten
<1>3. BytesInv'
  <2>1. /\ transport = <<>> /\ Len(transport) = 0
        /\ chunk = <<>> /\ Len(chunk) = 0 /\ Len(accepted') \in Nat
        /\ Len(d) \in Nat
    BY <1>1, <1>2 DEF DetectorInv, BytesInv
  <2>2. Len(accepted') + Len(chunk) + Len(transport) <= MaxBytes
    BY <1>1, <1>2, <2>1, DetectorFacts
  <2> QED BY <1>1, <1>2, <2>1, <2>2, DetectorFacts DEF DetectorInv, BytesInv
<1>4. StepInv'
  <2>1. F!Used(fifo') \in Nat
    BY <1>2, FifoFacts
  <2>2. PacketSize <= F!Used(fifo) => PacketSize <= F!Used(fifo')
    BY <1>2, <2>1, DetectorFacts
  <2>3. room \in 0 .. BufferSize
    BY DEF DetectorInv, StepInv
  <2>4. fifo.size <= room => fifo'.size <= room
    <3>1. fifo.size \in 0 .. BufferSize /\ BufferSize \in Nat
      BY DetectorFacts
    <3>2. fifo'.size \in 0 .. BufferSize /\ fifo'.size <= fifo.size
      BY <1>2
    <3>3. fifo.size \in Int /\ fifo'.size \in Int /\ room \in Int
      BY <2>3, <3>1, <3>2
    <3> QED BY <3>2, <3>3
  <2>5. StepInv
    BY DEF DetectorInv
  <2>6. pc' = "store" => fifo'.size <= room' /\ room' + read_length' <= BufferSize
    BY <1>1, <2>4, <2>5 DEF StepInv
  <2>7. pc' # "store" => read_length' = 0
    BY <1>1, <2>5 DEF StepInv
  <2>8. pc' \in {"copy", "decide"} => PacketSize <= F!Used(fifo')
    BY <1>1, <2>2, <2>5 DEF StepInv
  <2>9. fifo' \in F!Fifo /\ "FIFO_WRITE" \notin fifo'.execution
    BY <1>2, <2>5 DEF StepInv
  <2>10. UNCHANGED <<pc, packet, read_length, room, parameter, lost, outside>>
    BY <1>1
  <2> QED BY <2>5, <2>6, <2>7, <2>8, <2>9, <2>10 DEF StepInv
<1> QED BY <1>1, <1>2, <1>3, <1>4 DEF DetectorInv

LEMMA ReadTransportDetector ==
  ASSUME DetectorInv, ReadTransport
  PROVE  DetectorInv'
<1>1. /\ pc = "idle" /\ chunk' = transport /\ transport' = <<>>
      /\ pc' = IF transport = <<>> THEN "look" ELSE "write"
      /\ UNCHANGED <<custom, fifo, packet, read_length, room, parameter,
                     accepted, lost, outside>>
  BY DEF ReadTransport
<1>2. BytesInv'
  BY <1>1, DetectorFacts DEF DetectorInv, BytesInv
<1>3. StepInv'
  BY <1>1 DEF DetectorInv, StepInv
<1> QED BY <1>1, <1>2, <1>3 DEF DetectorInv, StreamInv, Taken

LEMMA WriteChunkDetector ==
  ASSUME DetectorInv, WriteChunk
  PROVE  DetectorInv'
<1>1. /\ pc = "write" /\ WriteFifo(chunk) /\ chunk' = <<>> /\ pc' = "look"
      /\ UNCHANGED <<custom, transport, packet, read_length, room, parameter,
                     lost, outside>>
  BY DEF WriteChunk
<1>2. chunk \in Seq(Byte) /\ Len(chunk) \in Nat /\ Len(transport) \in Nat
  BY DEF DetectorInv, BytesInv
<1>3. /\ fifo' \in F!Fifo /\ fifo'.execution = fifo.execution
      /\ fifo'.size \in 0 .. BufferSize /\ fifo'.size <= fifo.size
      /\ accepted' \in Seq(Byte) /\ Len(accepted') <= Len(accepted) + Len(chunk)
      /\ ~lost => StreamInv'
  BY <1>1, <1>2, StreamWritten
<1>4. BytesInv'
  BY <1>1, <1>2, <1>3, DetectorFacts DEF DetectorInv, BytesInv
<1>5. StepInv'
  BY <1>1, <1>3 DEF DetectorInv, StepInv
<1> QED BY <1>1, <1>3, <1>4, <1>5 DEF DetectorInv

LEMMA LookDetector ==
  ASSUME DetectorInv, Look
  PROVE  DetectorInv'
<1>1. /\ pc = "look"
      /\ IF PacketIsThere
           THEN pc' = "copy"
                  /\ fifo' = [fifo EXCEPT !.execution = @ \cup {"FIFO_READ"}]
           ELSE pc' = "idle" /\ fifo' = fifo
      /\ UNCHANGED <<custom, transport, chunk, packet, read_length, room,
                     parameter, accepted, lost, outside>>
  BY DEF Look
<1>2. /\ fifo' \in F!Fifo /\ "FIFO_WRITE" \notin fifo'.execution
      /\ fifo'.end = fifo.end /\ fifo'.head = fifo.head
      /\ fifo'.size = fifo.size /\ fifo'.buffer = fifo.buffer
  <2>1. fifo \in F!Fifo /\ "FIFO_WRITE" \notin fifo.execution
    BY DEF DetectorInv, StepInv
  <2> QED BY <1>1, <2>1 DEF F!Fifo, F!Execution
<1>3. F!Used(fifo') = F!Used(fifo)
  BY <1>2 DEF F!Used
<1>4. BytesInv'
  <2>1. BytesInv /\ PacketSize \in Nat /\ F!Used(fifo) \in Nat
    BY DetectorFacts DEF DetectorInv
  <2>2. /\ pc' \in {"copy", "idle"}
        /\ pc' = "idle" => F!Used(fifo') < PacketSize
    BY <1>1, <1>3, <2>1 DEF PacketIsThere
  <2>3. UNCHANGED <<custom, transport, chunk, parameter, accepted, lost, outside>>
    BY <1>1
  <2> QED BY <1>1, <2>1, <2>2, <2>3 DEF BytesInv
<1>5. StepInv'
  <2>1. packet = <<>> /\ Len(packet) = 0 /\ read_length = 0
    BY <1>1 DEF DetectorInv, StepInv
  <2> QED
    BY <1>1, <1>2, <1>3, <2>1, DetectorFacts DEF DetectorInv, StepInv, PacketIsThere
<1>6. ASSUME ~lost PROVE StreamInv'
  <2>1. LET f == Settled(fifo, read_length)
            g == Settled(fifo', read_length)
        IN  /\ g \in F!Fifo /\ Holds(f, accepted)
            /\ g.end = f.end /\ g.head = f.head
            /\ g.size = f.size /\ g.buffer = f.buffer
    BY <1>2, <1>6, DetectorFacts, SettledFields, StreamFacts
  <2>2. Holds(Settled(fifo', read_length), accepted)
    BY <2>1, HoldsSame
  <2>3. Taken' = Taken
    BY <1>1, <1>3 DEF Taken
  <2>4. /\ Parsed(accepted, Taken, parameter)
        /\ \A i \in 1 .. Len(packet) : packet[i] = accepted[Taken + i]
    BY <1>6, StreamFacts
  <2> QED BY <1>1, <2>2, <2>3, <2>4 DEF StreamInv
<1> QED BY <1>1, <1>4, <1>5, <1>6 DEF DetectorInv

LEMMA CopyDetector ==
  ASSUME DetectorInv, CopyByte
  PROVE  DetectorInv'
<1> DEFINE b == fifo.buffer[F!Offset(fifo.end, Len(packet))]
<1>1. /\ pc = "copy" /\ packet' = Append(packet, b)
      /\ pc' = IF Len(packet) + 1 = PacketSize THEN "decide" ELSE "copy"
      /\ UNCHANGED <<custom, transport, chunk, fifo, read_length, room,
                     parameter, accepted, lost, outside>>
  BY DEF CopyByte
<1>2. /\ packet \in Seq(Byte) /\ Len(packet) \in Nat
      /\ Len(packet) < PacketSize /\ PacketSize <= F!Used(fifo)
      /\ read_length = 0
  BY <1>1 DEF DetectorInv, StepInv
<1>3. b \in Byte
  <2>1. fifo.end \in F!Slot /\ fifo.buffer \in [F!Slot -> Byte]
    BY DetectorFacts, FifoFacts
  <2>2. Len(packet) \in 0 .. BufferSize
    BY <1>2, DetectorFacts
  <2> QED BY <2>1, <2>2, OffsetInSlot
<1> HIDE DEF b
<1>4. /\ packet' \in Seq(Byte) /\ Len(packet') = Len(packet) + 1
      /\ \A i \in 1 .. Len(packet) : packet'[i] = packet[i]
      /\ packet'[Len(packet) + 1] = b
  BY <1>1, <1>2, <1>3
<1>5. BytesInv'
  BY <1>1 DEF DetectorInv, BytesInv
<1>6. StepInv'
  BY <1>1, <1>2, <1>4, DetectorFacts DEF DetectorInv, StepInv
<1>7. ASSUME ~lost PROVE StreamInv'
  <2> DEFINE f == Settled(fifo, read_length)
  <2>1. /\ Holds(f, accepted) /\ f.end = fifo.end /\ f.buffer = fifo.buffer
        /\ F!Used(f) = F!Used(fifo) - read_length /\ F!Used(f) \in Nat
        /\ Taken = Len(accepted) - F!Used(f) /\ Taken \in Nat
        /\ Parsed(accepted, Taken, parameter)
        /\ \A i \in 1 .. Len(packet) : packet[i] = accepted[Taken + i]
    BY <1>7, StreamFacts
  <2> HIDE DEF f
  <2>2. b = accepted[Taken + (Len(packet) + 1)]
    <3> DEFINE k == Len(packet) + 1
    <3>1. k \in 1 .. F!Used(f) /\ k - 1 = Len(packet)
      BY <1>2, <2>1, DetectorFacts
    <3> HIDE DEF k
    <3>2. f.buffer[F!Offset(f.end, k - 1)] = accepted[Len(accepted) - F!Used(f) + k]
      BY <2>1, <3>1 DEF Holds
    <3> QED BY <2>1, <3>1, <3>2 DEF b, k
  <2>3. \A i \in 1 .. Len(packet') : packet'[i] = accepted[Taken + i]
    <3>1. \A i \in 1 .. Len(packet') : i \in 1 .. Len(packet) \/ i = Len(packet) + 1
      BY <1>2, <1>4
    <3> QED BY <1>4, <2>1, <2>2, <3>1
  <2>4. Taken' = Taken
    BY <1>1 DEF Taken
  <2> QED BY <1>1, <2>1, <2>3, <2>4 DEF StreamInv, f
<1> QED BY <1>1, <1>5, <1>6, <1>7 DEF DetectorInv

\* What main knows of the packet when it decides on it.
LEMMA PacketFacts ==
  ASSUME DetectorInv, pc = "decide", ~lost
  PROVE  /\ Taken + PacketSize <= Len(accepted) /\ Taken \in Nat
         /\ packet = SubSeq(accepted, Taken + 1, Taken + PacketSize)
         /\ Packet(accepted, Taken + 1) <=> Valid(packet)
         /\ packet[3] = accepted[Taken + 3]
         /\ packet[PacketSize] = accepted[Taken + PacketSize]
<1>1. /\ PacketSize <= F!Used(fifo) /\ read_length = 0
      /\ packet \in Seq(Byte) /\ Len(packet) = PacketSize
  BY DEF DetectorInv, StepInv
<1>2. /\ Taken \in Nat /\ Taken + PacketSize <= Len(accepted)
      /\ (Taken + 1) + PacketSize - 1 = Taken + PacketSize
  <2>1. /\ F!Used(fifo) \in Nat /\ PacketSize \in Nat /\ Len(accepted) \in Nat
    BY DetectorFacts
  <2>2. Taken \in Nat /\ Taken = Len(accepted) - (F!Used(fifo) - read_length)
    BY StreamFacts DEF Taken
  <2> QED BY <1>1, <2>1, <2>2
<1>3. \A i \in 1 .. PacketSize : packet[i] = accepted[Taken + i]
  BY <1>1, StreamFacts
<1> DEFINE p == SubSeq(accepted, Taken + 1, Taken + PacketSize)
<1>4. /\ p \in Seq(Byte) /\ Len(p) = PacketSize
      /\ \A i \in 1 .. PacketSize : p[i] = accepted[Taken + i]
  BY <1>2, DetectorFacts, PacketBytes
<1> HIDE DEF p
<1>5. \A i \in 1 .. PacketSize : packet[i] = p[i]
  BY <1>3, <1>4
<1>6. packet = p
  BY <1>1, <1>4, <1>5
<1>7. 3 \in 1 .. PacketSize /\ PacketSize \in 1 .. PacketSize
  BY DetectorFacts
<1>8. packet[3] = accepted[Taken + 3]
      /\ packet[PacketSize] = accepted[Taken + PacketSize]
  BY <1>3, <1>7
<1> QED BY <1>2, <1>6, <1>8 DEF Packet, p

LEMMA DecideDetector ==
  ASSUME DetectorInv, Decide
  PROVE  DetectorInv'
<1> DEFINE n == DiscardLength(packet)
<1>1. /\ pc = "decide" /\ pc' = "store" /\ packet' = <<>>
      /\ parameter' = IF Valid(packet) /\ packet[3] \in Channel
                        THEN [parameter EXCEPT ![packet[3]] = packet[PacketSize]]
                        ELSE parameter
      /\ read_length' = n /\ room' = fifo.size
      /\ fifo' = [fifo EXCEPT !.execution = @ \cup {"FIFO_CLEAR"},
                              !.end = F!Offset(fifo.end, n)]
      /\ UNCHANGED <<custom, transport, chunk, accepted, lost>>
  BY DEF Decide
<1>2. /\ PacketSize <= F!Used(fifo) /\ read_length = 0
      /\ packet \in Seq(Byte) /\ Len(packet) = PacketSize
  BY <1>1 DEF DetectorInv, StepInv
<1>3. n = IF Valid(packet) THEN PacketSize ELSE 1
  BY DEF DiscardLength
<1> HIDE DEF n
<1>4. /\ n \in {1, PacketSize} /\ n \in Nat /\ n \in 0 .. F!Used(fifo)
      /\ n \in 0 .. BufferSize /\ fifo.size + n \in 0 .. BufferSize
  <2>1. /\ F!Used(fifo) \in Nat /\ PacketSize \in Nat /\ PacketSize >= 5
        /\ F!Used(fifo) = BufferSize - fifo.size /\ BufferSize \in Nat
        /\ fifo.size \in 0 .. BufferSize
    BY DetectorFacts
  <2> QED BY <1>2, <1>3, <2>1
<1>5. F!Offset(fifo.end, n) \in F!Slot
  BY <1>4, DetectorFacts, FifoFacts, OffsetInSlot
<1>6. /\ fifo' \in F!Fifo /\ "FIFO_WRITE" \notin fifo'.execution
      /\ fifo'.end = F!Offset(fifo.end, n) /\ fifo'.head = fifo.head
      /\ fifo'.size = fifo.size /\ fifo'.buffer = fifo.buffer
  <2>1. fifo \in F!Fifo /\ "FIFO_WRITE" \notin fifo.execution
    BY DEF DetectorInv, StepInv
  <2> QED BY <1>1, <1>5, <2>1 DEF F!Fifo, F!Execution
<1>7. F!Used(fifo') = F!Used(fifo)
  BY <1>6 DEF F!Used
<1>8. BytesInv'
  BY <1>1 DEF DetectorInv, BytesInv
<1>9. StepInv'
  <2>1. parameter' \in [Channel -> Byte]
    <3>1. parameter \in [Channel -> Byte]
      BY DEF DetectorInv, StepInv
    <3>2. packet[PacketSize] \in Byte
      BY <1>2, DetectorFacts
    <3> QED BY <1>1, <3>1, <3>2
  <2>2. lost' \in BOOLEAN /\ outside' \in BOOLEAN
    <3>1. lost' \in BOOLEAN
      BY <1>1 DEF DetectorInv, StepInv
    <3>2. outside' \in BOOLEAN
      BY DEF Decide
    <3> QED BY <3>1, <3>2
  <2>3. packet' \in Seq(Byte) /\ Len(packet') <= PacketSize
    BY <1>1, DetectorFacts
  <2>4. /\ read_length' \in {0, 1, PacketSize} /\ room' \in 0 .. BufferSize
        /\ fifo'.size <= room' /\ room' + read_length' <= BufferSize
    <3>1. fifo.size \in 0 .. BufferSize /\ BufferSize \in Nat
      BY DetectorFacts
    <3> QED BY <1>1, <1>4, <1>6, <3>1
  <2>5. pc' = "store" /\ packet' = <<>>
    BY <1>1
  <2> QED BY <1>6, <2>1, <2>2, <2>3, <2>4, <2>5 DEF StepInv
<1>10. ASSUME ~lost PROVE StreamInv'
  <2> DEFINE f == Settled(fifo, read_length)
             g == Settled(fifo', n)
  <2>1. /\ Holds(f, accepted) /\ f.end = fifo.end /\ f.head = fifo.head
        /\ f.size = fifo.size + read_length /\ f.buffer = fifo.buffer
        /\ F!Used(f) = F!Used(fifo) - read_length
        /\ Taken = Len(accepted) - F!Used(f) /\ Taken \in Nat
        /\ Parsed(accepted, Taken, parameter)
    BY <1>10, StreamFacts
  <2>2. /\ g \in F!Fifo /\ g.end = fifo'.end /\ g.head = fifo'.head
        /\ g.size = fifo'.size + n /\ g.buffer = fifo'.buffer
    BY <1>4, <1>6, SettledFields
  <2> HIDE DEF f, g
  <2>3. f.size = fifo.size /\ F!Used(f) = F!Used(fifo)
    BY <1>2, <2>1, DetectorFacts
  <2>4. /\ n \in 0 .. F!Used(f) /\ g.end = F!Offset(f.end, n)
        /\ g.head = f.head /\ g.size = f.size + n /\ g.buffer = f.buffer
    BY <1>4, <1>6, <2>1, <2>2, <2>3
  <2>5. Holds(g, accepted)
    BY <2>1, <2>2, <2>4, DetectorFacts, HoldsMoved
  <2>6. Taken' = Taken + n
    <3>1. F!Used(fifo) \in Nat /\ Len(accepted) \in Nat
      BY DetectorFacts
    <3>2. Taken' = Len(accepted) - (F!Used(fifo) - n)
      BY <1>1, <1>7 DEF Taken
    <3> QED BY <1>4, <2>1, <2>3, <3>1, <3>2
  <2>7. Parsed(accepted, Taken', parameter')
    <3>1. /\ Taken + PacketSize <= Len(accepted)
          /\ Packet(accepted, Taken + 1) <=> Valid(packet)
          /\ packet[3] = accepted[Taken + 3]
          /\ packet[PacketSize] = accepted[Taken + PacketSize]
      BY <1>1, <1>10, PacketFacts
    <3>2. CASE Valid(packet)
      <4>1. Parsed(accepted, Taken + PacketSize,
                   IF accepted[Taken + 3] \in Channel
                     THEN [parameter EXCEPT ![accepted[Taken + 3]]
                                              = accepted[Taken + PacketSize]]
                     ELSE parameter)
        BY <2>1, <3>1, <3>2, DetectorFacts, ParsedTakes
      <4> QED BY <1>1, <1>3, <2>6, <3>1, <3>2, <4>1
    <3>3. CASE ~Valid(packet)
      <4>1. Parsed(accepted, Taken + 1, parameter)
        BY <2>1, <3>1, <3>3, DetectorFacts, ParsedSkips
      <4> QED BY <1>1, <1>3, <2>6, <3>3, <4>1
    <3> QED BY <3>2, <3>3
  <2>8. Len(packet') = 0
    BY <1>1
  <2>9. \A i \in 1 .. Len(packet') : packet'[i] = accepted'[Taken' + i]
    BY <2>8
  <2> QED BY <1>1, <2>5, <2>7, <2>9 DEF StreamInv, g
<1> QED BY <1>1, <1>8, <1>9, <1>10 DEF DetectorInv

\* The store of size either gives back exactly what was taken, or loses a count.
LEMMA DiscardDetector ==
  ASSUME DetectorInv, Discard
  PROVE  DetectorInv'
<1>1. /\ pc = "store" /\ pc' = "look"
      /\ fifo' = [fifo EXCEPT !.execution = @ \cap {"FIFO_READ"},
                              !.size = room + read_length]
      /\ read_length' = 0 /\ room' = 0
      /\ UNCHANGED <<custom, transport, chunk, packet, parameter, accepted,
                     outside>>
  BY DEF Discard
<1>2. lost' \in BOOLEAN /\ (~lost' => ~lost /\ fifo.size = room)
  BY DEF Discard
<1>3. /\ room \in 0 .. BufferSize /\ room + read_length <= BufferSize
      /\ fifo.size <= room /\ packet = <<>>
  BY <1>1 DEF DetectorInv, StepInv
<1>4. room + read_length \in 0 .. BufferSize
  BY <1>3, DetectorFacts
<1>5. /\ fifo' \in F!Fifo /\ "FIFO_WRITE" \notin fifo'.execution
      /\ fifo'.end = fifo.end /\ fifo'.head = fifo.head
      /\ fifo'.size = room + read_length /\ fifo'.buffer = fifo.buffer
  BY <1>1, <1>4, DetectorFacts DEF F!Fifo, F!Execution
<1>6. BytesInv'
  BY <1>1 DEF DetectorInv, BytesInv
<1>7. StepInv'
  <2>1. 0 \in {0, 1, PacketSize} /\ 0 \in 0 .. BufferSize
    BY DetectorFacts
  <2> QED BY <1>1, <1>2, <1>5, <2>1 DEF DetectorInv, StepInv
<1>8. ASSUME ~lost' PROVE StreamInv'
  <2> DEFINE f == Settled(fifo, read_length)
             g == Settled(fifo', 0)
  <2>1. /\ Holds(f, accepted) /\ f.end = fifo.end /\ f.head = fifo.head
        /\ f.size = fifo.size + read_length /\ f.buffer = fifo.buffer
        /\ F!Used(f) = F!Used(fifo) - read_length
        /\ Taken = Len(accepted) - F!Used(f)
        /\ Parsed(accepted, Taken, parameter)
    BY <1>2, <1>8, StreamFacts
  <2>2. fifo'.size + 0 = fifo'.size /\ fifo'.size \in 0 .. BufferSize
    BY <1>4, <1>5
  <2>3. /\ g \in F!Fifo /\ g.end = fifo'.end /\ g.head = fifo'.head
        /\ g.size = fifo'.size + 0 /\ g.buffer = fifo'.buffer
    BY <1>5, <2>2, SettledFields
  <2> HIDE DEF f, g
  <2>4. /\ g.end = f.end /\ g.head = f.head /\ g.size = f.size
        /\ g.buffer = f.buffer
    BY <1>2, <1>5, <1>8, <2>1, <2>2, <2>3
  <2>5. Holds(g, accepted) /\ F!Used(g) = F!Used(f)
    BY <2>1, <2>3, <2>4, HoldsSame
  <2>6. F!Used(fifo') = F!Used(g)
    BY <2>2, <2>3 DEF F!Used
  <2>7. Taken' = Taken
    <3>1. F!Used(fifo') \in Nat
      BY <1>5, FifoFacts
    <3>2. Taken' = Len(accepted) - (F!Used(fifo') - 0)
      BY <1>1 DEF Taken
    <3> QED BY <2>1, <2>5, <2>6, <3>1, <3>2
  <2>8. Len(packet') = 0
    BY <1>1, <1>3
  <2>9. \A i \in 1 .. Len(packet') : packet'[i] = accepted'[Taken' + i]
    BY <2>8
  <2> QED BY <1>1, <2>1, <2>5, <2>7, <2>9 DEF StreamInv, g
<1> QED BY <1>6, <1>7, <1>8 DEF DetectorInv

LEMMA DetectorInvariance == Spec => []DetectorInv
<1>1. DetectorInv /\ UNCHANGED vars => DetectorInv'
  BY DEF DetectorInv, BytesInv, StepInv, StreamInv, Taken, vars
<1>2. ASSUME DetectorInv, NEW b \in Byte, detector_custom_receive_byte(b)
      PROVE  DetectorInv'
  <2>1. <<b>> \in Seq(Byte)
    OBVIOUS
  <2> QED BY <1>2, <2>1, CustomDetector DEF detector_custom_receive_byte
<1>3. ASSUME DetectorInv, NEW buff \in [1 .. BurstSize -> Byte],
             detector_custom_receive(buff)
      PROVE  DetectorInv'
  <2>1. buff \in Seq(Byte)
    BY DetectorAssumption
  <2> QED BY <1>3, <2>1, CustomDetector DEF detector_custom_receive
<1>4. DetectorInv /\ [Next]_vars => DetectorInv'
  BY <1>1, <1>2, <1>3, ReceiveDetector, ReadTransportDetector,
     WriteChunkDetector, LookDetector, CopyDetector, DecideDetector,
     DiscardDetector
     DEF Next, detector_data_analysis
<1> QED BY <1>4, InitDetector, PTL DEF Spec

-----------------------------------------------------------------------------
\* What the invariant says of the properties.
LEMMA InvTypes ==
  ASSUME DetectorInv
  PROVE  TypeOK
<1>1. BytesInv /\ StepInv
  BY DEF DetectorInv
<1>2. Len(accepted) <= MaxBytes
  <2>1. Len(chunk) \in Nat /\ Len(transport) \in Nat
    BY <1>1 DEF BytesInv
  <2> QED BY <1>1, <2>1, DetectorFacts DEF BytesInv
<1>3. Len(packet) \in 0 .. PacketSize
  <2>1. Len(packet) \in Nat /\ Len(packet) <= PacketSize
    BY <1>1 DEF StepInv
  <2> QED BY <2>1, DetectorFacts
<1> QED BY <1>1, <1>2, <1>3 DEF BytesInv, StepInv, TypeOK

LEMMA InvFollows ==
  ASSUME DetectorInv
  PROVE  ParametersFollowStream
<1> SUFFICES ASSUME ~lost
             PROVE  ParametersFollowStream
  BY DEF ParametersFollowStream
<1>1. PacketStarts = Starts(accepted)
  BY StartsAreStarts
<1>2. Parsed(accepted, Taken, parameter)
  BY StreamFacts
<1>3. \A p \in PacketStarts : p > Taken \/ p + PacketSize - 1 <= Taken
  BY <1>1, <1>2 DEF Parsed
<1>4. Starts(accepted) \subseteq Nat
  <2>1. StartSet(accepted, Len(accepted), Starts(accepted))
    BY DetectorFacts, StartsFacts
  <2> QED BY <2>1, DetectorFacts DEF StartSet
<1>5. ASSUME NEW channel \in Channel
      PROVE  LET own == {p \in PacketStarts :
                           p <= Taken /\ accepted[p + 2] = channel}
                 last == CHOOSE p \in own : \A q \in own : q <= p
             IN  parameter[channel] =
                   IF own = {} THEN 0 ELSE accepted[last + PacketSize - 1]
  <2> DEFINE own == {p \in PacketStarts :
                       p <= Taken /\ accepted[p + 2] = channel}
             last == CHOOSE p \in own : \A q \in own : q <= p
  <2>1. own = Own(accepted, Taken, channel)
    BY <1>1 DEF Own
  <2>2. LastData(accepted, Taken, channel, parameter[channel])
    BY <1>2 DEF Parsed
  <2>3. own \subseteq Nat
    BY <1>1, <1>4
  <2> HIDE DEF own
  <2>4. parameter[channel] =
          IF own = {} THEN 0 ELSE accepted[last + PacketSize - 1]
    <3>1. CASE own = {}
      BY <2>1, <2>2, <3>1 DEF LastData
    <3>2. CASE own # {}
      <4>1. PICK l \in own : /\ \A q \in own : q <= l
                             /\ parameter[channel] = accepted[l + PacketSize - 1]
        BY <2>1, <2>2, <3>2 DEF LastData
      <4>2. last \in own /\ \A q \in own : q <= last
        BY <4>1
      <4>3. last = l
        <5> HIDE DEF last
        <5> QED BY <2>3, <4>1, <4>2
      <4> HIDE DEF last
      <4> QED BY <3>2, <4>1, <4>3
    <3> QED BY <3>1, <3>2
  <2> QED BY <2>4 DEF own
<1> QED BY <1>3, <1>5 DEF ParametersFollowStream

LEMMA InvFits ==
  ASSUME DetectorInv
  PROVE  SmallChunkFits
<1> SUFFICES ASSUME pc = "write", Len(chunk) <= BufferSize - PacketSize + 1
             PROVE  F!WriteState(fifo, chunk) = "FIFO_SUCCESS"
  BY DEF SmallChunkFits
<1>1. F!Used(fifo) < PacketSize /\ Len(chunk) \in Nat
  BY DEF DetectorInv, BytesInv
<1>2. /\ F!Used(fifo) = BufferSize - fifo.size /\ fifo.size \in 0 .. BufferSize
      /\ BufferSize \in Nat /\ PacketSize \in Nat
  BY DetectorFacts
<1>3. fifo.size \in Int
  BY <1>2
<1>4. Len(chunk) <= fifo.size
  BY <1>1, <1>2, <1>3
<1>5. ~(fifo.size < Len(chunk))
  BY <1>1, <1>3, <1>4
<1>6. "FIFO_WRITE" \notin fifo.execution
  BY DEF DetectorInv, StepInv
<1> QED BY <1>5, <1>6 DEF F!WriteState

\* The fifo, the packet, the loaded size and the parameters keep their ranges,
\* whatever the sizes of the packet and of the buffer, also after an interrupt
\* between the load and the store of size and after the count it loses.
THEOREM DetectorTypeCorrect == Spec => []TypeOK
<1>1. DetectorInv => TypeOK
  BY InvTypes
<1> QED BY <1>1, DetectorInvariance, PTL

\* The packets found are those of the stream, for every stream, every way it
\* arrives and every place where interrupts preempt the analysis, as long as no
\* count is lost and no packet is stored outside the array: the parser never
\* cuts a packet, never takes one twice and never takes bytes of two for one,
\* and the parameter of each of the array's channels is that of its last packet.
THEOREM ParametersAlwaysFollow == Spec => []ParametersFollowStream
<1>1. DetectorInv => ParametersFollowStream
  BY InvFollows
<1> QED BY <1>1, DetectorInvariance, PTL

\* A chunk is lost only when it is longer than what an incomplete packet leaves
\* of detector_fifo.
THEOREM SmallChunksFit == Spec => []SmallChunkFits
<1>1. DetectorInv => SmallChunkFits
  BY InvFits
<1> QED BY <1>1, DetectorInvariance, PTL
=============================================================================
