-------------------------- MODULE SerialWireProofs ---------------------------
(***************************************************************************)
(* Proofs about the serial port, for every length of a command frame, every*)
(* byte time and delay and every way of advancing POKEY: the PENDING bits  *)
(* and the IRQ line are exact, no reply byte is lost or out of order, and  *)
(* command frames stay aligned; and advancing POKEY by several cycles at   *)
(* once is ticking it as often.                                            *)
(***************************************************************************)
EXTENDS SerialWire, NumberLemmas, SequenceTheorems

-----------------------------------------------------------------------------
(***************************************************************************)
(* Chips and what the operations do to their parts: the transmitter, the   *)
(* receiver and the interrupts.                                            *)
(***************************************************************************)
Chip == [irqen : SUBSET Sources, irqst : SUBSET Sources, pin : BOOLEAN,
         shift : Seq(Bytes), holding : Seq(Bytes), out_cycles : Int,
         in : Answers, in_cycles : Int, queue : Seq(Entries),
         serin : Answers, unread : BOOLEAN, overrun : BOOLEAN,
         pending : SUBSET {"tx", "rx"}, frame : Seq(Bytes), owed : Seq(Answers)]

SameOut(c, d) ==
    /\ d.shift = c.shift /\ d.holding = c.holding /\ d.out_cycles = c.out_cycles
    /\ d.frame = c.frame
    /\ "tx" \in d.pending <=> "tx" \in c.pending

SameIn(c, d) ==
    /\ d.in = c.in /\ d.in_cycles = c.in_cycles /\ d.queue = c.queue
    /\ d.serin = c.serin /\ d.unread = c.unread /\ d.overrun = c.overrun
    /\ d.owed = c.owed
    /\ "rx" \in d.pending <=> "rx" \in c.pending

SameIrq(c, d) == d.irqen = c.irqen /\ d.irqst = c.irqst /\ d.pin = c.pin

(* The interrupts of C, and what a source raised on top of them.           *)
Raised(c, d) ==
    /\ d.irqen = c.irqen /\ d.irqst \subseteq c.irqst \cup c.irqen
    /\ \/ d.irqst = c.irqst /\ d.pin = c.pin
       \/ d.irqst # {} /\ d.pin

(* Exactly the sources R were raised.                                      *)
Latched(c, d, R) ==
    /\ d.irqen = c.irqen
    /\ d.irqst = c.irqst \cup (R \cap c.irqen)
    /\ d.pin <=> (c.pin \/ R \cap c.irqen # {})

LEMMA LatchedIsRaised ==
  ASSUME NEW c \in Chip, NEW d \in Chip, NEW R, Latched(c, d, R)
  PROVE  Raised(c, d)
<1>1. c.pin \in BOOLEAN /\ d.pin \in BOOLEAN
  BY DEF Chip
<1> QED BY <1>1 DEF Latched, Raised

LEMMA LatchedTwice ==
  ASSUME NEW c, NEW d, NEW e, NEW R, NEW S, Latched(c, d, R), Latched(d, e, S)
  PROVE  Latched(c, e, R \cup S)
<1>1. (R \cup S) \cap c.irqen = (R \cap c.irqen) \cup (S \cap c.irqen)
  OBVIOUS
<1> QED BY <1>1 DEF Latched

LEMMA LatchedNone ==
  ASSUME NEW c \in Chip, NEW d \in Chip, SameIrq(c, d)
  PROVE  Latched(c, d, {})
BY DEF SameIrq, Latched

LEMMA RaiseFields ==
  ASSUME NEW c \in Chip, NEW s \in Sources
  PROVE  /\ Raise(c, s) \in Chip
         /\ SameOut(c, Raise(c, s)) /\ SameIn(c, Raise(c, s))
         /\ Latched(c, Raise(c, s), {s})
<1>1. c.irqst \cup {s} \in SUBSET Sources
  BY DEF Chip
<1>2. CASE s \in c.irqen
  <2> DEFINE d == [c EXCEPT !.irqst = c.irqst \cup {s}, !.pin = TRUE]
  <2>1. Raise(c, s) = d
    BY <1>2 DEF Raise
  <2>2. d \in Chip
    BY <1>1 DEF Chip
  <2>3. /\ d.irqst = c.irqst \cup {s} /\ d.pin /\ d.irqen = c.irqen
        /\ SameOut(c, d) /\ SameIn(c, d)
    BY DEF Chip, SameOut, SameIn
  <2> HIDE DEF d
  <2>4. {s} \cap c.irqen = {s}
    BY <1>2
  <2> QED BY <2>1, <2>2, <2>3, <2>4 DEF Latched
<1>3. CASE s \notin c.irqen
  <2>1. Raise(c, s) = c /\ {s} \cap c.irqen = {}
    BY <1>3 DEF Raise
  <2> QED BY <2>1 DEF SameOut, SameIn, Latched
<1> QED BY <1>2, <1>3

(* Interrupts add up.                                                      *)
LEMMA RaisedTwice ==
  ASSUME NEW c, NEW d, NEW e, Raised(c, d), Raised(d, e)
  PROVE  Raised(c, e)
  BY DEF Raised

(***************************************************************************)
(* The answers of a queue.                                                 *)
(***************************************************************************)
LEMMA BytesOfSeq ==
  ASSUME NEW s \in Seq(Entries)
  PROVE  /\ BytesOf(s) \in Seq(Answers) /\ Len(BytesOf(s)) = Len(s)
         /\ \A i \in 1..Len(s) : BytesOf(s)[i] = s[i].byte
<1>1. Len(s) \in Nat /\ DOMAIN s = 1..Len(s)
  BY LenProperties
<1>2. ASSUME NEW i \in 1..Len(s) PROVE s[i].byte \in Answers
  <2>1. s[i] \in Entries
    BY ElementOfSeq
  <2> QED BY <2>1 DEF Entries
<1>3. BytesOf(s) = [i \in 1..Len(s) |-> s[i].byte]
  BY <1>1 DEF BytesOf
<1>4. BytesOf(s) \in [1..Len(s) -> Answers]
  BY <1>2, <1>3
<1>5. BytesOf(s) \in Seq(Answers)
  BY <1>1, <1>4, SeqDef
<1>6. Len(BytesOf(s)) = Len(s)
  BY <1>1, <1>4, <1>5, LenProperties
<1> QED BY <1>3, <1>5, <1>6

LEMMA BytesOfConcat ==
  ASSUME NEW s \in Seq(Entries), NEW t \in Seq(Entries)
  PROVE  BytesOf(s \o t) = BytesOf(s) \o BytesOf(t)
<1> DEFINE a == BytesOf(s \o t)
           b == BytesOf(s) \o BytesOf(t)
<1>1. s \o t \in Seq(Entries) /\ Len(s \o t) = Len(s) + Len(t)
  BY ConcatProperties
<1>2. /\ BytesOf(s) \in Seq(Answers) /\ Len(BytesOf(s)) = Len(s)
      /\ BytesOf(t) \in Seq(Answers) /\ Len(BytesOf(t)) = Len(t)
      /\ Len(s) \in Nat /\ Len(t) \in Nat
  BY BytesOfSeq, LenProperties
<1>3. a \in Seq(Answers) /\ Len(a) = Len(s) + Len(t)
  BY <1>1, BytesOfSeq
<1>4. /\ b \in Seq(Answers) /\ Len(b) = Len(s) + Len(t)
      /\ \A i \in 1..(Len(s) + Len(t)) :
            b[i] = IF i <= Len(s) THEN BytesOf(s)[i] ELSE BytesOf(t)[i - Len(s)]
  <2> DEFINE u == BytesOf(s)
             v == BytesOf(t)
  <2> HIDE DEF u, v
  <2>1. u \in Seq(Answers) /\ Len(u) = Len(s) /\ v \in Seq(Answers) /\ Len(v) = Len(t)
    BY <1>2 DEF u, v
  <2>2. /\ u \o v \in Seq(Answers) /\ Len(u \o v) = Len(u) + Len(v)
        /\ \A i \in 1..(Len(u) + Len(v)) :
              (u \o v)[i] = IF i <= Len(u) THEN u[i] ELSE v[i - Len(u)]
    BY <2>1, ConcatProperties, Zenon
  <2> QED BY <2>1, <2>2 DEF u, v
<1>5. ASSUME NEW i \in 1..(Len(s) + Len(t)) PROVE a[i] = b[i]
  <2>1. a[i] = (s \o t)[i].byte
    BY <1>1, BytesOfSeq
  <2>2. CASE i <= Len(s)
    <3>1. (s \o t)[i] = s[i] /\ b[i] = BytesOf(s)[i] /\ i \in 1..Len(s)
      BY <1>2, <1>4, <2>2, ConcatProperties
    <3> QED BY <2>1, <3>1, BytesOfSeq
  <2>3. CASE i > Len(s)
    <3>1. /\ (s \o t)[i] = t[i - Len(s)] /\ b[i] = BytesOf(t)[i - Len(s)]
          /\ i - Len(s) \in 1..Len(t)
      BY <1>2, <1>4, <2>3, ConcatProperties
    <3> QED BY <2>1, <3>1, BytesOfSeq
  <2> QED BY <1>2, <2>2, <2>3
<1> HIDE DEF a, b
<1>6. a = b
  BY <1>3, <1>4, <1>5, SeqEqual
<1> QED BY <1>6 DEF a, b

(* The first of a queue and the rest.                                      *)
LEMMA BytesOfHead ==
  ASSUME NEW s \in Seq(Entries), s # <<>>
  PROVE  /\ Head(s) \in Entries /\ Tail(s) \in Seq(Entries)
         /\ Len(Tail(s)) = Len(s) - 1
         /\ BytesOf(s) = <<Head(s).byte>> \o BytesOf(Tail(s))
<1>1. Head(s) \in Entries /\ Tail(s) \in Seq(Entries) /\ Len(Tail(s)) = Len(s) - 1
  BY HeadTailProperties
<1>2. <<Head(s)>> \in Seq(Entries) /\ s = <<Head(s)>> \o Tail(s)
  OBVIOUS
<1>3. BytesOf(<<Head(s)>>) = <<Head(s).byte>>
  BY DEF BytesOf
<1>4. BytesOf(s) = BytesOf(<<Head(s)>>) \o BytesOf(Tail(s))
  BY <1>1, <1>2, BytesOfConcat
<1> QED BY <1>1, <1>3, <1>4

LEMMA BytesOfNone == BytesOf(<<>>) = <<>>
  BY DEF BytesOf

(***************************************************************************)
(* The receiver.  It is sound when the byte in flight and the queue are    *)
(* what is owed, and settled when nothing in flight is due.                *)
(***************************************************************************)
InFlight(c) == IF "rx" \in c.pending THEN <<c.in>> ELSE <<>>

SoundIn(c) ==
    /\ "rx" \in c.pending => c.in_cycles <= (ByteTime + AckDelay) + CompleteDelay
    /\ "rx" \notin c.pending => c.in_cycles = 0 /\ c.queue = <<>>
    /\ c.owed = InFlight(c) \o BytesOf(c.queue)

SettledIn(c) == SoundIn(c) /\ ("rx" \in c.pending => c.in_cycles > 0)

LEMMA GapInRange ==
  ASSUME NEW e \in Entries
  PROVE  e.gap \in Nat /\ e.gap <= AckDelay + CompleteDelay /\ e.byte \in Answers
  BY DelaysAssumption DEF Entries

(* The head of the queue takes off.                                        *)
LEMMA StartHeadFields ==
  ASSUME NEW c \in Chip, c.queue # <<>>, NEW d, d = StartHead(c)
  PROVE  /\ d \in Chip /\ SameOut(c, d) /\ SameIrq(c, d)
         /\ d.in = Head(c.queue).byte /\ d.in_cycles = Head(c.queue).gap + ByteTime
         /\ d.queue = Tail(c.queue) /\ "rx" \in d.pending
         /\ d.owed = c.owed /\ d.serin = c.serin /\ d.unread = c.unread
         /\ d.overrun = c.overrun
         /\ InFlight(d) \o BytesOf(d.queue) = BytesOf(c.queue)
<1> DEFINE h == Head(c.queue)
           q == Tail(c.queue)
           p == c.pending \cup {"rx"}
<1>1. c.queue \in Seq(Entries)
  BY DEF Chip
<1>2. h \in Entries /\ q \in Seq(Entries) /\ BytesOf(c.queue) = <<h.byte>> \o BytesOf(q)
  BY <1>1, BytesOfHead
<1>3. h.byte \in Answers /\ h.gap + ByteTime \in Int
  BY <1>2, GapInRange, DelaysAssumption
<1>4. p \in SUBSET {"tx", "rx"}
  BY DEF Chip
<1>5. d = [c EXCEPT !.in = h.byte, !.in_cycles = h.gap + ByteTime, !.queue = q, !.pending = p]
  BY DEF StartHead
<1> HIDE DEF h, q
<1>6. d \in Chip
  BY <1>2, <1>3, <1>4, <1>5, ZenonT(30) DEF Chip
<1>7. SameOut(c, d) /\ SameIrq(c, d)
  BY <1>5 DEF Chip, SameOut, SameIrq
<1>8. /\ d.in = h.byte /\ d.in_cycles = h.gap + ByteTime /\ d.queue = q /\ d.pending = p
      /\ d.owed = c.owed /\ d.serin = c.serin /\ d.unread = c.unread
      /\ d.overrun = c.overrun
  BY <1>5 DEF Chip
<1>9. "rx" \in d.pending
  BY <1>8
<1>10. InFlight(d) \o BytesOf(d.queue) = BytesOf(c.queue)
  BY <1>2, <1>8, <1>9 DEF InFlight
<1> QED BY <1>6, <1>7, <1>8, <1>9, <1>10 DEF h, q

(* A drive's reply, if there is one, begins after the ACK delay.           *)
LEMMA ReplyType ==
  ASSUME NEW f
  PROVE  /\ Reply(f) \in Seq(Entries)
         /\ Reply(f) # <<>> => Head(Reply(f)).gap = AckDelay
<1> DEFINE E(gap, b) == [gap |-> gap, byte |-> b]
<1>1. /\ \A b \in Answers : E(AckDelay, b) \in Entries /\ E(CompleteDelay, b) \in Entries
      /\ \A b \in Answers : E(0, b) \in Entries
  BY DEF Entries
<1>2. Answers = {"ACK", "COMPLETE", "ERROR", "NAK", "data", "checksum"}
  BY DEF Answers
<1>3. CASE ~Good(f) \/ (Good(f) /\ mounted /\ f[1].req = "write")
  <2>1. Reply(f) = <<E(AckDelay, "NAK")>>
    BY <1>3 DEF Reply
  <2> QED BY <1>1, <1>2, <2>1
<1>4. CASE Good(f) /\ ~mounted
  <2>1. Reply(f) = <<>>
    BY <1>4 DEF Reply
  <2> QED BY <2>1, EmptySeq
<1>5. CASE Good(f) /\ mounted /\ f[1].req = "bad"
  <2>1. Reply(f) = <<E(AckDelay, "ACK"), E(CompleteDelay, "ERROR")>>
    BY <1>5 DEF Reply
  <2> QED BY <1>1, <1>2, <2>1
<1>6. CASE Good(f) /\ mounted /\ f[1].req # "write" /\ f[1].req # "bad"
  <2>1. Reply(f) = <<E(AckDelay, "ACK"), E(CompleteDelay, "COMPLETE")>>
                   \o <<E(0, "data"), E(0, "checksum")>>
    BY <1>6 DEF Reply
  <2>2. /\ <<E(AckDelay, "ACK"), E(CompleteDelay, "COMPLETE")>> \in Seq(Entries)
        /\ <<E(0, "data"), E(0, "checksum")>> \in Seq(Entries)
    BY <1>1, <1>2
  <2> HIDE DEF E
  <2>3. Reply(f) \in Seq(Entries) /\ Reply(f) # <<>> /\ Head(Reply(f)) = E(AckDelay, "ACK")
    BY <2>1, <2>2
  <2> QED BY <2>3 DEF E
<1> QED BY <1>3, <1>4, <1>5, <1>6

(* What a reply R changes of the receiver: it joins the queue, or its head *)
(* takes off.                                                              *)
InQueued(c, d, r) ==
    /\ r = <<>> => SameIn(c, d)
    /\ d.serin = c.serin /\ d.unread = c.unread /\ d.overrun = c.overrun
    /\ r # <<>> => "rx" \in d.pending
    /\ r # <<>> /\ "rx" \in c.pending =>
          d.in = c.in /\ d.in_cycles = c.in_cycles /\ d.queue = c.queue \o r
    /\ r # <<>> /\ "rx" \notin c.pending =>
          /\ d.in = Head(r).byte /\ d.in_cycles = Head(r).gap + ByteTime
          /\ d.queue = Tail(r)

(* What is queued joins what is owed; if nothing was in flight, its head   *)
(* takes off.                                                              *)
LEMMA QueueInFields ==
  ASSUME NEW c \in Chip, SettledIn(c), NEW entries \in Seq(Entries),
         NEW d, d = QueueIn(c, entries)
  PROVE  /\ d \in Chip /\ SameOut(c, d) /\ SameIrq(c, d) /\ SettledIn(d)
         /\ InQueued(c, d, entries)
<1> DEFINE q == c.queue \o entries
           o == c.owed \o BytesOf(entries)
           e == [c EXCEPT !.queue = q, !.owed = o]
<1>1. c.queue \in Seq(Entries) /\ c.owed \in Seq(Answers) /\ c.in \in Answers
  BY DEF Chip
<1>2. /\ BytesOf(entries) \in Seq(Answers) /\ BytesOf(c.queue) \in Seq(Answers)
      /\ BytesOf(q) = BytesOf(c.queue) \o BytesOf(entries) /\ q \in Seq(Entries)
  BY <1>1, BytesOfSeq, BytesOfConcat, ConcatProperties
<1>3. o \in Seq(Answers)
  BY <1>1, <1>2, ConcatProperties
<1>4. o = InFlight(c) \o BytesOf(q)
  <2>1. InFlight(c) \in Seq(Answers) /\ c.owed = InFlight(c) \o BytesOf(c.queue)
    BY <1>1 DEF InFlight, SettledIn, SoundIn
  <2>2. (InFlight(c) \o BytesOf(c.queue)) \o BytesOf(entries)
           = InFlight(c) \o (BytesOf(c.queue) \o BytesOf(entries))
    <3>1. /\ InFlight(c) \in Seq(Answers) /\ BytesOf(c.queue) \in Seq(Answers)
          /\ BytesOf(entries) \in Seq(Answers)
      BY <1>2, <2>1
    <3> QED BY <3>1, ConcatAssociative, SMTT(30)
  <2> QED BY <1>2, <2>1, <2>2
<1> HIDE DEF q, o
<1>5. /\ e \in Chip /\ e.queue = q /\ e.owed = o
      /\ e.in = c.in /\ e.in_cycles = c.in_cycles /\ e.serin = c.serin
      /\ e.unread = c.unread /\ e.overrun = c.overrun /\ e.pending = c.pending
      /\ SameOut(c, e) /\ SameIrq(c, e)
  BY <1>2, <1>3 DEF Chip, SameOut, SameIrq
<1>6. d = IF entries # <<>> /\ c.in_cycles = 0 THEN StartHead(e) ELSE e
  BY DEF QueueIn, q, o
<1>7. c.in_cycles = 0 <=> "rx" \notin c.pending
  BY DEF SettledIn, SoundIn, Chip
<1> HIDE DEF e
<1>8. CASE "rx" \in c.pending \/ entries = <<>>
  <2>1. d = e
    BY <1>6, <1>7, <1>8
  <2>2. "rx" \notin c.pending => q = <<>>
    BY <1>1, <1>8, ConcatEmptySeq DEF SettledIn, SoundIn, q
  <2>3. InFlight(e) = InFlight(c)
    BY <1>5 DEF InFlight
  <2>4. SettledIn(e)
    BY <1>4, <1>5, <2>2, <2>3 DEF SettledIn, SoundIn
  <2>5. "rx" \in e.pending <=> "rx" \in c.pending
    BY <1>5
  <2>6. entries = <<>> => q = c.queue /\ o = c.owed
    BY <1>1, BytesOfNone, ConcatEmptySeq DEF q, o
  <2>7. InQueued(c, d, entries)
    BY <1>5, <1>8, <2>1, <2>5, <2>6 DEF InQueued, SameIn, q
  <2> QED BY <1>5, <2>1, <2>4, <2>7
<1>9. CASE "rx" \notin c.pending /\ entries # <<>>
  <2>1. d = StartHead(e)
    BY <1>6, <1>7, <1>9
  <2>2. c.queue = <<>> /\ InFlight(c) = <<>>
    BY <1>9 DEF SettledIn, SoundIn, InFlight
  <2>3. q = entries /\ o = BytesOf(entries)
    <3>1. q = entries
      BY <2>2, ConcatEmptySeq DEF q
    <3> QED BY <1>2, <1>4, <2>2, <3>1, ConcatEmptySeq
  <2>4. /\ d \in Chip /\ SameOut(e, d) /\ SameIrq(e, d)
        /\ d.in = Head(entries).byte /\ d.in_cycles = Head(entries).gap + ByteTime
        /\ d.queue = Tail(entries) /\ "rx" \in d.pending
        /\ d.owed = o /\ d.serin = c.serin /\ d.unread = c.unread
        /\ d.overrun = c.overrun
        /\ InFlight(d) \o BytesOf(d.queue) = BytesOf(entries)
    <3>1. /\ e.queue = entries /\ e.owed = o /\ e.serin = c.serin
          /\ e.unread = c.unread /\ e.overrun = c.overrun
          /\ e \in Chip /\ e.queue # <<>>
      BY <1>5, <1>9, <2>3
    <3>2. /\ d \in Chip /\ SameOut(e, d) /\ SameIrq(e, d)
          /\ d.in = Head(e.queue).byte /\ d.in_cycles = Head(e.queue).gap + ByteTime
          /\ d.queue = Tail(e.queue) /\ "rx" \in d.pending
          /\ d.owed = e.owed /\ d.serin = e.serin /\ d.unread = e.unread
          /\ d.overrun = e.overrun
          /\ InFlight(d) \o BytesOf(d.queue) = BytesOf(e.queue)
      BY <2>1, <3>1, StartHeadFields
    <3> QED BY <3>1, <3>2
  <2>5. Head(entries) \in Entries
    BY <1>9, BytesOfHead
  <2>6. SettledIn(d)
    <3>1. d.in_cycles > 0 /\ d.in_cycles <= (ByteTime + AckDelay) + CompleteDelay
      BY <2>4, <2>5, GapInRange, DelaysAssumption
    <3> QED BY <2>3, <2>4, <3>1 DEF SettledIn, SoundIn
  <2>7. SameOut(c, d) /\ SameIrq(c, d)
    BY <1>5, <2>4 DEF SameOut, SameIrq
  <2>8. InQueued(c, d, entries)
    BY <1>9, <2>4 DEF InQueued
  <2> QED BY <2>4, <2>6, <2>7, <2>8
<1> QED BY <1>8, <1>9

(* The byte in flight lands, and the next of the queue takes off.          *)
LEMMA InLandsFields ==
  ASSUME NEW c \in Chip, SoundIn(c), "rx" \in c.pending, c.in_cycles <= 0,
         NEW d, d = InLands(c)
  PROVE  /\ d \in Chip /\ SameOut(c, d) /\ Latched(c, d, {"ready"}) /\ SoundIn(d)
         /\ d.owed = Tail(c.owed) /\ d.serin = c.in /\ d.unread = TRUE
         /\ d.overrun = (c.overrun \/ c.unread)
         /\ c.queue # <<>> =>
              /\ d.in = Head(c.queue).byte /\ d.queue = Tail(c.queue) /\ "rx" \in d.pending
              /\ d.in_cycles = (Head(c.queue).gap + ByteTime) + c.in_cycles
         /\ c.queue = <<>> => /\ d.in = c.in /\ d.queue = <<>> /\ d.in_cycles = 0
                             /\ "rx" \notin d.pending
<1> DEFINE t == Tail(c.owed)
           overrun == c.overrun \/ c.unread
           e == [c EXCEPT !.overrun = overrun, !.serin = c.in, !.unread = TRUE, !.owed = t]
           f == Raise(e, "ready")
           g == StartHead(f)
<1>1. /\ c.queue \in Seq(Entries) /\ c.in \in Answers /\ BytesOf(c.queue) \in Seq(Answers)
      /\ overrun \in BOOLEAN
  BY BytesOfSeq DEF Chip
<1>2. c.owed = <<c.in>> \o BytesOf(c.queue)
  BY DEF SoundIn, InFlight
<1>3. t = BytesOf(c.queue)
  BY <1>1, <1>2
<1>4. d = IF c.queue # <<>> THEN [g EXCEPT !.in_cycles = @ + c.in_cycles]
          ELSE [f EXCEPT !.in_cycles = 0, !.pending = @ \ {"rx"}]
  BY DEF InLands
<1> HIDE DEF t, overrun
<1>5. /\ e \in Chip /\ e.owed = t /\ e.serin = c.in /\ e.queue = c.queue
      /\ e.in = c.in /\ e.unread = TRUE /\ e.overrun = overrun
      /\ SameOut(c, e) /\ SameIrq(c, e)
  BY <1>1, <1>3 DEF Chip, SameOut, SameIrq
<1> HIDE DEF e
<1>6. f \in Chip /\ SameOut(e, f) /\ SameIn(e, f) /\ Latched(e, f, {"ready"})
  BY <1>5, RaiseFields DEF Sources
<1>7. /\ SameOut(c, f) /\ Latched(c, f, {"ready"})
      /\ f.owed = t /\ f.serin = c.in /\ f.queue = c.queue
      /\ f.in = c.in /\ f.unread = TRUE /\ f.overrun = overrun
  BY <1>5, <1>6 DEF SameOut, SameIn, SameIrq, Latched
<1> HIDE DEF f
<1>8. CASE c.queue # <<>>
  <2> DEFINE h == Head(c.queue)
  <2>1. /\ g \in Chip /\ SameOut(f, g) /\ SameIrq(f, g)
        /\ g.in = Head(f.queue).byte /\ g.in_cycles = Head(f.queue).gap + ByteTime
        /\ g.queue = Tail(f.queue) /\ "rx" \in g.pending
        /\ g.owed = f.owed /\ g.serin = f.serin /\ g.unread = f.unread
        /\ g.overrun = f.overrun
        /\ InFlight(g) \o BytesOf(g.queue) = BytesOf(f.queue)
    BY <1>6, <1>7, <1>8, StartHeadFields
  <2>2. h \in Entries /\ h.gap \in Nat /\ h.gap <= AckDelay + CompleteDelay
    BY <1>1, <1>8, BytesOfHead, GapInRange
  <2>3. /\ g.in = h.byte /\ g.in_cycles = h.gap + ByteTime /\ g.queue = Tail(c.queue)
        /\ g.owed = t /\ g.serin = c.in /\ g.unread = TRUE /\ g.overrun = overrun
        /\ InFlight(g) \o BytesOf(g.queue) = t
    BY <1>3, <1>7, <2>1
  <2> HIDE DEF g, h
  <2>4. d = [g EXCEPT !.in_cycles = (h.gap + ByteTime) + c.in_cycles]
    BY <1>4, <1>8, <2>1, <2>3 DEF Chip
  <2>5. (h.gap + ByteTime) + c.in_cycles \in Int
    BY <2>2, DelaysAssumption DEF Chip
  <2>6. /\ d \in Chip /\ SameOut(g, d) /\ SameIrq(g, d) /\ d.in = g.in /\ d.queue = g.queue
        /\ d.pending = g.pending /\ d.owed = g.owed /\ d.serin = g.serin
        /\ d.unread = g.unread /\ d.overrun = g.overrun
        /\ d.in_cycles = (h.gap + ByteTime) + c.in_cycles
    BY <2>1, <2>4, <2>5 DEF Chip, SameOut, SameIrq
  <2>7. InFlight(d) = InFlight(g) /\ d.owed = InFlight(d) \o BytesOf(d.queue)
    BY <2>3, <2>6 DEF InFlight
  <2>8. d.in_cycles <= (ByteTime + AckDelay) + CompleteDelay
    <3>1. c.in_cycles \in Int
      BY DEF Chip
    <3> QED BY <2>2, <2>6, <3>1, DelaysAssumption
  <2>9. SoundIn(d)
    BY <2>1, <2>6, <2>7, <2>8 DEF SoundIn
  <2>10. SameOut(c, d) /\ Latched(c, d, {"ready"})
    BY <1>7, <2>1, <2>6 DEF SameOut, SameIrq, Latched
  <2>11. /\ d.owed = t /\ d.serin = c.in /\ d.in = h.byte /\ d.queue = Tail(c.queue)
         /\ "rx" \in d.pending /\ d.unread = TRUE /\ d.overrun = overrun
    BY <2>1, <2>3, <2>6
  <2> QED BY <1>8, <2>6, <2>9, <2>10, <2>11 DEF t, h, overrun
<1>9. CASE c.queue = <<>>
  <2> DEFINE p == f.pending \ {"rx"}
  <2>1. d = [f EXCEPT !.in_cycles = 0, !.pending = p]
    BY <1>4, <1>9
  <2>2. /\ d \in Chip /\ SameOut(f, d) /\ SameIrq(f, d) /\ d.in_cycles = 0
        /\ "rx" \notin d.pending /\ d.queue = f.queue /\ d.owed = f.owed /\ d.serin = f.serin
        /\ d.in = f.in /\ d.unread = f.unread /\ d.overrun = f.overrun
    <3>1. p \in SUBSET {"tx", "rx"} /\ "rx" \notin p /\ ("tx" \in p <=> "tx" \in f.pending)
      BY <1>6 DEF Chip
    <3> HIDE DEF p
    <3>2. /\ d.in_cycles = 0 /\ d.pending = p /\ d.queue = f.queue /\ d.owed = f.owed
          /\ d.serin = f.serin /\ SameIrq(f, d) /\ d.shift = f.shift
          /\ d.holding = f.holding /\ d.out_cycles = f.out_cycles /\ d.frame = f.frame
          /\ d.in = f.in /\ d.unread = f.unread /\ d.overrun = f.overrun
      BY <1>6, <2>1 DEF Chip, SameIrq
    <3>3. d \in Chip
      <4> DEFINE z == 0
      <4>1. z \in Int /\ d = [f EXCEPT !.in_cycles = z, !.pending = p]
        BY <2>1
      <4> HIDE DEF z
      <4> QED BY <1>6, <3>1, <4>1 DEF Chip
    <3> QED BY <3>1, <3>2, <3>3 DEF SameOut
  <2>3. /\ d.queue = <<>> /\ d.owed = <<>> /\ d.owed = t /\ d.serin = c.in
        /\ d.in = c.in /\ d.unread = TRUE /\ d.overrun = overrun
    BY <1>3, <1>7, <1>9, <2>2, BytesOfNone
  <2>4. SoundIn(d)
    BY <2>2, <2>3, BytesOfNone DEF SoundIn, InFlight
  <2>5. SameOut(c, d) /\ Latched(c, d, {"ready"})
    BY <1>7, <2>2 DEF SameOut, SameIrq, Latched
  <2> QED BY <1>9, <2>2, <2>3, <2>4, <2>5 DEF t, overrun
<1> QED BY <1>8, <1>9

(* One turn of the receiver's loop: it is settled, or one byte less is     *)
(* waiting.                                                                *)
LEMMA InSettleFields ==
  ASSUME NEW c \in Chip, SoundIn(c), NEW d, d = InSettle(c)
  PROVE  /\ d \in Chip /\ SameOut(c, d) /\ Raised(c, d) /\ SoundIn(d)
         /\ SettledIn(c) => d = c
         /\ SettledIn(d) \/ (c.queue # <<>> /\ d.queue = Tail(c.queue))
<1>1. CASE c.in_cycles > 0 \/ "rx" \notin c.pending
  <2>1. d = c /\ SettledIn(c)
    BY <1>1 DEF InSettle, SettledIn
  <2> QED BY <2>1 DEF SameOut, Raised
<1>2. CASE ~ (c.in_cycles > 0) /\ "rx" \in c.pending
  <2>1. d = InLands(c) /\ ~SettledIn(c)
    BY <1>2 DEF InSettle, SettledIn
  <2>2. c.in_cycles <= 0
    BY <1>2 DEF Chip
  <2>3. /\ d \in Chip /\ SameOut(c, d) /\ Latched(c, d, {"ready"}) /\ SoundIn(d)
        /\ c.queue # <<>> => d.queue = Tail(c.queue)
        /\ c.queue = <<>> => "rx" \notin d.pending
    BY <1>2, <2>1, <2>2, InLandsFields
  <2>4. Raised(c, d)
    BY <2>3, LatchedIsRaised
  <2> QED BY <2>1, <2>3, <2>4 DEF SettledIn
<1> QED BY <1>1, <1>2

(* The loop, turn by turn.                                                 *)
SoundChips == {c \in Chip : SoundIn(c)}

LEMMA InSettledIsIteration ==
  ASSUME NEW c \in SoundChips, NEW m \in Nat, m = Len(c.queue) + 1
  PROVE  /\ InSettled(c) \in [0..m -> SoundChips] /\ InSettled(c)[0] = c
         /\ \A i \in 1..m : InSettled(c)[i] = InSettle(InSettled(c)[i - 1])
<1> DEFINE Defines(f) == f = [i \in 0..m |-> IF i = 0 THEN c ELSE InSettle(f[i - 1])]
           G == [d \in SoundChips |-> InSettle(d)]
<1>1. G \in [SoundChips -> SoundChips]
  BY InSettleFields DEF SoundChips
<1>2. PICK f \in [0..m -> SoundChips] : IsIteration(f, m, c, G)
  BY <1>1, Iteration
<1>3. ASSUME NEW i \in 1..m PROVE f[i] = InSettle(f[i - 1])
  <2>1. f[i - 1] \in SoundChips
    <3>1. i - 1 \in 0..m
      BY <1>3
    <3> QED BY <3>1
  <2>2. f[i] = G[f[i - 1]]
    BY <1>2, <1>3 DEF IsIteration
  <2> QED BY <2>1, <2>2
<1>4. f[0] = c
  BY <1>2 DEF IsIteration
<1>5. Defines(f)
  <2> DEFINE g == [i \in 0..m |-> IF i = 0 THEN c ELSE InSettle(f[i - 1])]
  <2>1. ASSUME NEW i \in 0..m PROVE f[i] = g[i]
    BY <1>3, <1>4
  <2>2. DOMAIN f = 0..m /\ f = [i \in 0..m |-> f[i]]
    OBVIOUS
  <2> QED BY <2>1, <2>2
<1>6. InSettled(c) = CHOOSE settled : Defines(settled)
  BY DEF InSettled
<1> DEFINE w == InSettled(c)
<1>7. Defines(w)
  <2> HIDE DEF Defines
  <2> QED BY <1>5, <1>6
<1>8. /\ w[0] = c /\ \A i \in 1..m : w[i] = InSettle(w[i - 1])
      /\ w = [i \in 0..m |-> w[i]]
  <2> DEFINE g == [i \in 0..m |-> IF i = 0 THEN c ELSE InSettle(w[i - 1])]
  <2>1. w = g
    BY <1>7
  <2> HIDE DEF w
  <2>2. /\ g[0] = c /\ \A i \in 1..m : g[i] = InSettle(w[i - 1])
        /\ g = [i \in 0..m |-> g[i]]
    OBVIOUS
  <2> HIDE DEF g
  <2> QED BY <2>1, <2>2, Zenon
<1> HIDE DEF w
<1>9. w = f
  <2> DEFINE H == {i \in 0..m : w[i] = f[i]}
  <2>1. 0 \in H
    BY <1>4, <1>8
  <2>2. ASSUME NEW i \in 1..m, i - 1 \in H PROVE i \in H
    <3>1. w[i - 1] = f[i - 1] /\ i \in 0..m
      BY <2>2
    <3>2. w[i] = InSettle(w[i - 1]) /\ f[i] = InSettle(f[i - 1])
      BY <1>3, <1>8
    <3>3. w[i] = f[i]
      BY <3>1, <3>2, Zenon
    <3> QED BY <3>1, <3>3
  <2>3. \A i \in 0..m : i \in H
    <3> HIDE DEF H
    <3> QED BY <2>1, <2>2, Induction
  <2>4. w = [i \in 0..m |-> w[i]] /\ f = [i \in 0..m |-> f[i]]
    BY <1>8
  <2>5. \A i \in 0..m : w[i] = f[i]
    BY <2>3
  <2> QED BY <2>4, <2>5
<1> QED BY <1>8, <1>9 DEF w

(* The loop ends with the receiver settled.                                *)
LEMMA InSettledFields ==
  ASSUME NEW c \in SoundChips, NEW d, d = InSettled(c)[Len(c.queue) + 1]
  PROVE  d \in Chip /\ SameOut(c, d) /\ Raised(c, d) /\ SettledIn(d)
<1> DEFINE L == Len(c.queue)
           m == L + 1
           w == InSettled(c)
           Left(i) == SettledIn(w[i]) \/ Len(w[i].queue) = L - i
           H == {i \in 0..m : SameOut(c, w[i]) /\ Raised(c, w[i]) /\ Left(i)}
<1>1. L \in Nat /\ m \in Nat
  BY LenProperties DEF SoundChips, Chip
<1>2. /\ w \in [0..m -> SoundChips] /\ w[0] = c
      /\ \A i \in 1..m : w[i] = InSettle(w[i - 1])
  BY <1>1, InSettledIsIteration
<1>3. \A i \in 0..m : w[i] \in Chip /\ SoundIn(w[i])
  BY <1>2 DEF SoundChips
<1> HIDE DEF w
<1>4. 0 \in H
  BY <1>1, <1>2 DEF SameOut, Raised
<1>5. ASSUME NEW i \in 1..m, i - 1 \in H PROVE i \in H
  <2> DEFINE a == w[i - 1]
             b == w[i]
  <2>1. a \in Chip /\ SoundIn(a) /\ b = InSettle(a) /\ SameOut(c, a) /\ Raised(c, a)
    BY <1>1, <1>2, <1>3, <1>5
  <2> HIDE DEF a, b
  <2>2. /\ b \in Chip /\ SameOut(a, b) /\ Raised(a, b) /\ (SettledIn(a) => b = a)
        /\ SettledIn(b) \/ (a.queue # <<>> /\ b.queue = Tail(a.queue))
    BY <2>1, InSettleFields
  <2>3. SameOut(c, b) /\ Raised(c, b)
    BY <2>1, <2>2, RaisedTwice DEF SameOut
  <2>4. SettledIn(b) \/ Len(b.queue) = Len(a.queue) - 1
    <3>1. a.queue \in Seq(Entries)
      BY <2>1 DEF Chip
    <3> QED BY <2>2, <3>1, HeadTailProperties
  <2>5. SettledIn(a) \/ Len(a.queue) = L - (i - 1)
    BY <1>5 DEF a
  <2>6. SettledIn(b) \/ Len(b.queue) = L - i
    BY <1>1, <2>2, <2>4, <2>5
  <2> QED BY <1>1, <2>3, <2>6 DEF b
<1>6. m \in H
  <2> HIDE DEF H
  <2>1. \A i \in 0..m : i \in H
    BY <1>1, <1>4, <1>5, Induction
  <2> QED BY <1>1, <2>1
<1>7. w[m] \in Chip /\ Len(w[m].queue) # L - m
  <2>1. w[m] \in Chip
    BY <1>1, <1>3
  <2>2. Len(w[m].queue) \in Nat
    BY <2>1, LenProperties DEF Chip
  <2> QED BY <1>1, <2>1, <2>2
<1>8. d = w[m]
  BY DEF w
<1> QED BY <1>6, <1>7, <1>8

LEMMA InAdvanceFields ==
  ASSUME NEW c \in Chip, SettledIn(c), "rx" \in c.pending, NEW n \in Nat,
         NEW d, d = InAdvance(c, n)
  PROVE  d \in Chip /\ SameOut(c, d) /\ Raised(c, d) /\ SettledIn(d)
<1> DEFINE k == c.in_cycles - n
           e == [c EXCEPT !.in_cycles = k]
<1>1. c.in_cycles \in Int /\ k \in Int /\ k <= c.in_cycles
  BY DEF Chip
<1>2. d = InSettled(e)[Len(c.queue) + 1]
  BY DEF InAdvance
<1> HIDE DEF k
<1>3. /\ e \in Chip /\ e.in_cycles = k /\ e.queue = c.queue /\ e.in = c.in
      /\ e.pending = c.pending /\ e.owed = c.owed /\ SameOut(c, e) /\ SameIrq(c, e)
  BY <1>1 DEF Chip, SameOut, SameIrq
<1> HIDE DEF e
<1>4. SoundIn(e)
  <2>1. InFlight(e) = InFlight(c)
    BY <1>3 DEF InFlight
  <2>2. /\ c.in_cycles <= (ByteTime + AckDelay) + CompleteDelay
        /\ c.owed = InFlight(c) \o BytesOf(c.queue)
    BY DEF SettledIn, SoundIn
  <2>3. k <= (ByteTime + AckDelay) + CompleteDelay
    BY <1>1, <2>2, DelaysAssumption
  <2> QED BY <1>3, <2>1, <2>2, <2>3 DEF SoundIn
<1>5. e \in SoundChips /\ d = InSettled(e)[Len(e.queue) + 1]
  BY <1>2, <1>3, <1>4 DEF SoundChips
<1>6. d \in Chip /\ SameOut(e, d) /\ Raised(e, d) /\ SettledIn(d)
  BY <1>5, InSettledFields
<1> QED BY <1>3, <1>6 DEF SameOut, SameIrq, Raised

(***************************************************************************)
(* The transmitter.  It is sound when the byte held waits behind the one   *)
(* that is being shifted out and "tx" tells that there is one, and settled *)
(* when that one has cycles to go.                                         *)
(***************************************************************************)
SoundOut(c) ==
    /\ Len(c.shift) <= 1 /\ Len(c.holding) <= 1
    /\ c.shift = <<>> => c.holding = <<>> /\ c.out_cycles = 0
    /\ "tx" \in c.pending <=> c.shift # <<>>
    /\ c.out_cycles <= ByteTime
    /\ Len(c.frame) < FrameLen

SettledOut(c) == SoundOut(c) /\ (c.shift # <<>> => c.out_cycles > 0)

(* What SIO-WIRE-BYTE leaves of the accumulator F and a byte B, and what   *)
(* the drive answers to them.                                              *)
FrameAfter(f, b) == IF Len(f) + 1 < FrameLen THEN Append(f, b) ELSE <<>>
AnswerTo(f, b)   == IF Len(f) + 1 < FrameLen THEN <<>> ELSE Reply(Append(f, b))

LEMMA WireByteFields ==
  ASSUME NEW c \in Chip, SettledIn(c), NEW b \in Bytes, NEW d, d = WireByte(c, b)
  PROVE  /\ d \in Chip /\ SettledIn(d) /\ SameIrq(c, d)
         /\ d.shift = c.shift /\ d.holding = c.holding /\ d.out_cycles = c.out_cycles
         /\ "tx" \in d.pending <=> "tx" \in c.pending
         /\ d.frame = FrameAfter(c.frame, b)
         /\ InQueued(c, d, AnswerTo(c.frame, b))
<1> DEFINE f == Append(c.frame, b)
<1>1. c.frame \in Seq(Bytes) /\ f \in Seq(Bytes) /\ Len(f) = Len(c.frame) + 1
  BY AppendProperties DEF Chip
<1>2. d = IF Len(f) < FrameLen THEN [c EXCEPT !.frame = f]
          ELSE QueueIn([c EXCEPT !.frame = <<>>], Reply(f))
  BY DEF WireByte
<1>3. ASSUME NEW g \in Seq(Bytes), NEW e, e = [c EXCEPT !.frame = g]
      PROVE  /\ e \in Chip /\ SameIn(c, e) /\ SameIrq(c, e) /\ SettledIn(e) /\ e.frame = g
             /\ e.shift = c.shift /\ e.holding = c.holding /\ e.out_cycles = c.out_cycles
             /\ e.pending = c.pending
  <2>1. /\ e \in Chip /\ SameIn(c, e) /\ SameIrq(c, e) /\ e.frame = g
        /\ e.shift = c.shift /\ e.holding = c.holding /\ e.out_cycles = c.out_cycles
        /\ e.pending = c.pending
    BY <1>3 DEF Chip, SameIn, SameIrq
  <2>2. SettledIn(e)
    BY <2>1 DEF SameIn, SettledIn, SoundIn, InFlight
  <2> QED BY <2>1, <2>2
<1>4. CASE Len(f) < FrameLen
  <2>1. d = [c EXCEPT !.frame = f]
    BY <1>2, <1>4
  <2>2. FrameAfter(c.frame, b) = f /\ AnswerTo(c.frame, b) = <<>>
    BY <1>1, <1>4 DEF FrameAfter, AnswerTo
  <2> HIDE DEF f
  <2>3. /\ d \in Chip /\ SameIn(c, d) /\ SameIrq(c, d) /\ SettledIn(d) /\ d.frame = f
        /\ d.shift = c.shift /\ d.holding = c.holding /\ d.out_cycles = c.out_cycles
        /\ d.pending = c.pending
    BY <1>1, <1>3, <2>1
  <2>4. InQueued(c, d, <<>>)
    BY <2>3 DEF InQueued, SameIn
  <2> QED BY <2>2, <2>3, <2>4
<1>5. CASE ~ (Len(f) < FrameLen)
  <2> DEFINE e == [c EXCEPT !.frame = <<>>]
             r == Reply(f)
  <2>1. d = QueueIn(e, r) /\ FrameAfter(c.frame, b) = <<>> /\ AnswerTo(c.frame, b) = r
    BY <1>1, <1>2, <1>5 DEF FrameAfter, AnswerTo
  <2>2. r \in Seq(Entries)
    BY ReplyType
  <2>3. /\ e \in Chip /\ SameIn(c, e) /\ SameIrq(c, e) /\ SettledIn(e) /\ e.frame = <<>>
        /\ e.shift = c.shift /\ e.holding = c.holding /\ e.out_cycles = c.out_cycles
        /\ e.pending = c.pending
    <3>1. <<>> \in Seq(Bytes)
      BY EmptySeq
    <3> QED BY <1>3, <3>1
  <2> HIDE DEF e, r
  <2>4. d \in Chip /\ SameOut(e, d) /\ SameIrq(e, d) /\ SettledIn(d) /\ InQueued(e, d, r)
    BY <2>1, <2>2, <2>3, QueueInFields
  <2>5. InQueued(c, d, r)
    BY <2>3, <2>4 DEF SameIn, InQueued
  <2> QED BY <2>1, <2>3, <2>4, <2>5 DEF SameOut, SameIrq
<1> QED BY <1>4, <1>5

(***************************************************************************)
(* What is on its way to the drive: the accumulator and the transmitter.   *)
(***************************************************************************)
OutgoingOf(c) == c.frame \o c.shift \o c.holding

InPlace(s) ==
    \A i \in DOMAIN s : (s[i].skew + s[i].pos) % FrameLen = i % FrameLen /\ s[i].fresh

AlignedAt(c, k) == InPlace(OutgoingOf(c)) /\ Len(OutgoingOf(c)) % FrameLen = k

LEMMA OutgoingType ==
  ASSUME NEW c \in Chip
  PROVE  /\ OutgoingOf(c) \in Seq(Bytes)
         /\ Len(OutgoingOf(c)) = (Len(c.frame) + Len(c.shift)) + Len(c.holding)
         /\ Len(OutgoingOf(c)) \in Nat
<1>1. c.frame \in Seq(Bytes) /\ c.shift \in Seq(Bytes) /\ c.holding \in Seq(Bytes)
  BY DEF Chip
<1>2. c.frame \o c.shift \in Seq(Bytes) /\ Len(c.frame \o c.shift) = Len(c.frame) + Len(c.shift)
  BY <1>1, ConcatProperties
<1>3. /\ OutgoingOf(c) \in Seq(Bytes)
      /\ Len(OutgoingOf(c)) = Len(c.frame \o c.shift) + Len(c.holding)
  BY <1>1, <1>2, ConcatProperties DEF OutgoingOf
<1> QED BY <1>2, <1>3, LenProperties

(* One more byte, in its place.                                            *)
LEMMA AlignedByOne ==
  ASSUME NEW s \in Seq(Bytes), InPlace(s), NEW b \in Bytes,
         (b.skew + b.pos) % FrameLen = ((Len(s) % FrameLen) + 1) % FrameLen, b.fresh
  PROVE  /\ InPlace(Append(s, b))
         /\ Len(Append(s, b)) % FrameLen = ((Len(s) % FrameLen) + 1) % FrameLen
<1> DEFINE t == Append(s, b)
           n == Len(s)
<1>1. n \in Nat /\ FrameLen \in Nat \ {0}
  BY LenProperties, FrameAssumption
<1>2. /\ Len(t) = n + 1 /\ DOMAIN t = 1..(n + 1) /\ DOMAIN s = 1..n
      /\ t[n + 1] = b /\ \A i \in 1..n : t[i] = s[i]
  OBVIOUS
<1>3. Len(t) % FrameLen = ((n % FrameLen) + 1) % FrameLen
  BY <1>1, <1>2, RemainderStep
<1> HIDE DEF t
<1>4. ASSUME NEW i \in DOMAIN t
      PROVE  (t[i].skew + t[i].pos) % FrameLen = i % FrameLen /\ t[i].fresh
  <2>1. CASE i = n + 1
    <3>1. i % FrameLen = ((n % FrameLen) + 1) % FrameLen
      BY <1>1, <2>1, RemainderStep
    <3> QED BY <1>2, <2>1, <3>1
  <2>2. CASE i # n + 1
    <3>1. i \in DOMAIN s /\ t[i] = s[i]
      BY <1>1, <1>2, <2>2
    <3> QED BY <3>1 DEF InPlace
  <2> QED BY <2>1, <2>2
<1> QED BY <1>3, <1>4 DEF InPlace, t

(* A whole frame less.                                                     *)
LEMMA AlignedByFrame ==
  ASSUME NEW f \in Seq(Bytes), Len(f) = FrameLen, NEW h \in Seq(Bytes), Len(h) <= 1,
         InPlace(f \o h)
  PROVE  InPlace(h) /\ Len(h) % FrameLen = Len(f \o h) % FrameLen
<1> DEFINE s == f \o h
<1>1. FrameLen \in Nat \ {0} /\ Len(h) \in Nat /\ DOMAIN h = 1..Len(h)
  BY FrameAssumption, LenProperties
<1>2. /\ Len(s) = FrameLen + Len(h) /\ DOMAIN s = 1..(FrameLen + Len(h))
      /\ \A i \in 1..Len(h) : s[FrameLen + i] = h[i]
  <2>1. s \in Seq(Bytes) /\ Len(s) = FrameLen + Len(h)
    BY ConcatProperties
  <2>2. ASSUME NEW i \in 1..Len(h) PROVE s[FrameLen + i] = h[i]
    <3>1. FrameLen + i \in 1..(Len(f) + Len(h)) /\ ~ (FrameLen + i <= Len(f))
      BY <1>1
    <3>2. s[FrameLen + i] = h[(FrameLen + i) - Len(f)]
      BY <3>1, ConcatProperties
    <3> QED BY <1>1, <3>2
  <2> QED BY <2>1, <2>2, LenProperties
<1> HIDE DEF s
<1>3. ASSUME NEW i \in DOMAIN h
      PROVE  (h[i].skew + h[i].pos) % FrameLen = i % FrameLen /\ h[i].fresh
  <2>1. i = 1 /\ i \in 1..Len(h) /\ FrameLen + 1 \in DOMAIN s
    BY <1>1, <1>2
  <2>2. h[i] = s[FrameLen + 1]
    BY <1>2, <2>1
  <2>3. /\ (s[FrameLen + 1].skew + s[FrameLen + 1].pos) % FrameLen = (FrameLen + 1) % FrameLen
        /\ s[FrameLen + 1].fresh
    BY <2>1 DEF InPlace, s
  <2>4. (FrameLen + 1) % FrameLen = i % FrameLen
    BY <1>1, <2>1, RemainderAgain
  <2> QED BY <2>2, <2>3, <2>4
<1>4. Len(h) % FrameLen = Len(s) % FrameLen
  BY <1>1, <1>2, RemainderAgain
<1> QED BY <1>3, <1>4 DEF InPlace, s

(* The byte in the shift register reaches the drive, and the byte held is  *)
(* shifted out.                                                            *)
LEMMA OutLandsFields ==
  ASSUME NEW c \in Chip, SoundOut(c), SettledIn(c), c.shift # <<>>, c.out_cycles <= 0,
         NEW d, d = OutLands(c)
  PROVE  /\ d \in Chip /\ SoundOut(d) /\ SettledIn(d)
         /\ Latched(c, d, IF c.holding = <<>> THEN {"done"} ELSE {"needed"})
         /\ d.shift = c.holding /\ d.holding = <<>>
         /\ d.out_cycles = IF c.holding = <<>> THEN 0 ELSE c.out_cycles + ByteTime
         /\ d.frame = FrameAfter(c.frame, Head(c.shift))
         /\ InQueued(c, d, AnswerTo(c.frame, Head(c.shift)))
<1> DEFINE b == Head(c.shift)
           e == WireByte(c, b)
<1>1. /\ c.shift \in Seq(Bytes) /\ c.holding \in Seq(Bytes) /\ c.frame \in Seq(Bytes)
      /\ c.out_cycles \in Int /\ b \in Bytes
  <2>1. c.shift \in Seq(Bytes)
    BY DEF Chip
  <2>2. b \in Bytes
    BY <2>1, HeadTailProperties
  <2> QED BY <2>1, <2>2 DEF Chip
<1>2. Len(FrameAfter(c.frame, b)) < FrameLen
  <2>1. Len(Append(c.frame, b)) = Len(c.frame) + 1
    BY <1>1, AppendProperties
  <2> QED BY <2>1, FrameAssumption DEF FrameAfter
<1>3. /\ e \in Chip /\ SettledIn(e) /\ SameIrq(c, e)
      /\ e.shift = c.shift /\ e.holding = c.holding /\ e.out_cycles = c.out_cycles
      /\ "tx" \in e.pending <=> "tx" \in c.pending
      /\ InQueued(c, e, AnswerTo(c.frame, b))
      /\ e.frame = FrameAfter(c.frame, b)
  BY <1>1, WireByteFields
<1>4. d = IF c.holding # <<>>
          THEN Raise([e EXCEPT !.shift = c.holding, !.holding = <<>>,
                               !.out_cycles = @ + ByteTime], "needed")
          ELSE Raise([e EXCEPT !.shift = <<>>, !.out_cycles = 0,
                               !.pending = @ \ {"tx"}], "done")
  BY DEF OutLands
<1> HIDE DEF b, e
<1>5. <<>> \in Seq(Bytes)
  BY EmptySeq
<1>6. CASE c.holding # <<>>
  <2> DEFINE k == c.out_cycles + ByteTime
             g == [e EXCEPT !.shift = c.holding, !.holding = <<>>, !.out_cycles = k]
  <2>1. k \in Int /\ k <= ByteTime
    BY <1>1, DelaysAssumption
  <2>2. d = Raise(g, "needed")
    BY <1>3, <1>4, <1>6
  <2> HIDE DEF k
  <2>3. /\ g \in Chip /\ SameIn(e, g) /\ SameIrq(e, g) /\ g.shift = c.holding
        /\ g.holding = <<>> /\ g.out_cycles = k /\ g.pending = e.pending /\ g.frame = e.frame
    BY <1>1, <1>3, <1>5, <2>1 DEF Chip, SameIn, SameIrq
  <2> HIDE DEF g
  <2>4. d \in Chip /\ SameOut(g, d) /\ SameIn(g, d) /\ Latched(g, d, {"needed"})
    BY <2>2, <2>3, RaiseFields DEF Sources
  <2>5. /\ d.shift = c.holding /\ d.holding = <<>> /\ d.out_cycles = k
        /\ d.frame = FrameAfter(c.frame, b) /\ "tx" \in d.pending
    BY <1>3, <2>3, <2>4 DEF SameOut, SoundOut
  <2>6. SoundOut(d)
    BY <1>2, <1>6, <2>1, <2>5 DEF SoundOut
  <2>7. SameIn(e, d)
    BY <2>3, <2>4 DEF SameIn
  <2>8. SettledIn(d)
    BY <1>3, <2>7 DEF SameIn, SettledIn, SoundIn, InFlight
  <2>9. Latched(c, d, {"needed"})
    BY <1>3, <2>3, <2>4 DEF SameIrq, Latched
  <2>10. InQueued(c, d, AnswerTo(c.frame, b))
    BY <1>3, <2>7 DEF InQueued, SameIn
  <2> QED BY <1>6, <2>4, <2>5, <2>6, <2>8, <2>9, <2>10 DEF b, k
<1>7. CASE c.holding = <<>>
  <2> DEFINE k == 0
             p == e.pending \ {"tx"}
             g == [e EXCEPT !.shift = <<>>, !.out_cycles = k, !.pending = p]
  <2>1. /\ k = 0 /\ k \in Int /\ p \in SUBSET {"tx", "rx"} /\ "tx" \notin p
        /\ "rx" \in p <=> "rx" \in e.pending
    BY <1>3 DEF Chip
  <2>2. d = Raise(g, "done")
    BY <1>3, <1>4, <1>7
  <2> HIDE DEF k, p
  <2>3. /\ g \in Chip /\ SameIrq(e, g) /\ g.shift = <<>> /\ g.holding = e.holding
        /\ g.out_cycles = k /\ g.pending = p /\ g.frame = e.frame
        /\ g.in = e.in /\ g.in_cycles = e.in_cycles /\ g.queue = e.queue
        /\ g.owed = e.owed /\ g.serin = e.serin /\ g.unread = e.unread
        /\ g.overrun = e.overrun
    BY <1>1, <1>3, <1>5, <2>1 DEF Chip, SameIrq
  <2> HIDE DEF g
  <2>4. d \in Chip /\ SameOut(g, d) /\ SameIn(g, d) /\ Latched(g, d, {"done"})
    BY <2>2, <2>3, RaiseFields DEF Sources
  <2>5. /\ d.shift = <<>> /\ d.holding = <<>> /\ d.out_cycles = 0
        /\ d.frame = FrameAfter(c.frame, b) /\ "tx" \notin d.pending
    BY <1>3, <1>7, <2>1, <2>3, <2>4 DEF SameOut
  <2>6. SoundOut(d)
    BY <1>2, <2>5, DelaysAssumption DEF SoundOut
  <2>7. SameIn(e, d)
    BY <2>1, <2>3, <2>4 DEF SameIn
  <2>8. SettledIn(d)
    BY <1>3, <2>7 DEF SameIn, SettledIn, SoundIn, InFlight
  <2>9. Latched(c, d, {"done"})
    BY <1>3, <2>3, <2>4 DEF SameIrq, Latched
  <2>10. InQueued(c, d, AnswerTo(c.frame, b))
    BY <1>3, <2>7 DEF InQueued, SameIn
  <2> QED BY <1>7, <2>4, <2>5, <2>6, <2>8, <2>9, <2>10 DEF b
<1> QED BY <1>6, <1>7

(* What is outgoing is what it was, or one frame less.                     *)
LEMMA OutLandsAligned ==
  ASSUME NEW c \in Chip, SoundOut(c), SettledIn(c), c.shift # <<>>, c.out_cycles <= 0,
         NEW k, AlignedAt(c, k), NEW d, d = OutLands(c)
  PROVE  AlignedAt(d, k)
<1> DEFINE f == c.frame
           b == Head(c.shift)
           h == c.holding
           t == Append(f, b)
<1>1. /\ f \in Seq(Bytes) /\ h \in Seq(Bytes) /\ c.shift \in Seq(Bytes)
      /\ Len(h) <= 1 /\ Len(f) < FrameLen /\ Len(c.shift) <= 1
  BY DEF Chip, SoundOut
<1>2. b \in Bytes /\ c.shift = <<b>>
  <2> DEFINE n == Len(c.shift)
  <2>1. b \in Bytes /\ n \in Nat \ {0} /\ n <= 1
    BY <1>1, HeadTailProperties, EmptySeq
  <2> HIDE DEF n
  <2>3. n = 1
    BY <2>1
  <2>2. Len(c.shift) = 1
    BY <2>3 DEF n
  <2> QED BY <1>1, <2>1, <2>2
<1>3. d.shift = h /\ d.holding = <<>> /\ d.frame = FrameAfter(f, b)
  BY OutLandsFields
<1>4. t \in Seq(Bytes) /\ Len(t) = Len(f) + 1 /\ Len(f) \in Nat
  BY <1>1, <1>2, AppendProperties, LenProperties
<1>5. OutgoingOf(c) = t \o h
  <2>1. t = f \o c.shift
    BY <1>1, <1>2, AppendIsConcat
  <2> QED BY <2>1 DEF OutgoingOf
<1>6. OutgoingOf(d) = FrameAfter(f, b) \o h
  <2>1. FrameAfter(f, b) \in Seq(Bytes)
    BY <1>4, EmptySeq DEF FrameAfter
  <2> HIDE DEF f, h, b
  <2>2. FrameAfter(f, b) \o h \in Seq(Bytes)
    BY <1>1, <2>1, ConcatProperties
  <2> QED BY <1>3, <2>2, ConcatEmptySeq DEF OutgoingOf
<1> HIDE DEF f, b, h, t
<1>7. CASE Len(f) + 1 < FrameLen
  <2>1. OutgoingOf(d) = OutgoingOf(c)
    BY <1>5, <1>6, <1>7 DEF FrameAfter, t
  <2> QED BY <2>1 DEF AlignedAt
<1>8. CASE ~ (Len(f) + 1 < FrameLen)
  <2>1. Len(t) = FrameLen
    BY <1>1, <1>4, <1>8, FrameAssumption
  <2>2. OutgoingOf(d) = h
    <3>1. OutgoingOf(d) = <<>> \o h
      BY <1>6, <1>8 DEF FrameAfter
    <3> QED BY <1>1, <3>1, ConcatEmptySeq
  <2>3. InPlace(h) /\ Len(h) % FrameLen = Len(t \o h) % FrameLen
    BY <1>1, <1>4, <1>5, <2>1, AlignedByFrame DEF AlignedAt
  <2> QED BY <1>5, <2>2, <2>3 DEF AlignedAt
<1> QED BY <1>7, <1>8

(* One turn of the transmitter's loop.                                     *)
LEMMA OutSettleFields ==
  ASSUME NEW c \in Chip, SoundOut(c), SettledIn(c), NEW d, d = OutSettle(c)
  PROVE  /\ d \in Chip /\ SoundOut(d) /\ SettledIn(d) /\ Raised(c, d)
         /\ "rx" \in c.pending => "rx" \in d.pending
         /\ SettledOut(d) \/ d.holding = <<>>
         /\ c.holding = <<>> => SettledOut(d)
         /\ \A k : AlignedAt(c, k) => AlignedAt(d, k)
<1>1. CASE c.out_cycles > 0 \/ c.shift = <<>>
  <2>1. d = c /\ SettledOut(c)
    BY <1>1 DEF OutSettle, SettledOut
  <2> QED BY <2>1 DEF Raised
<1>2. CASE ~ (c.out_cycles > 0) /\ c.shift # <<>>
  <2>1. d = OutLands(c) /\ c.out_cycles <= 0
    BY <1>2 DEF OutSettle, Chip
  <2> DEFINE R == IF c.holding = <<>> THEN {"done"} ELSE {"needed"}
             r == AnswerTo(c.frame, Head(c.shift))
  <2>4. /\ d \in Chip /\ SoundOut(d) /\ SettledIn(d) /\ Latched(c, d, R)
        /\ d.shift = c.holding /\ d.holding = <<>> /\ InQueued(c, d, r)
    BY <1>2, <2>1, OutLandsFields
  <2> HIDE DEF R, r
  <2>2. Raised(c, d) /\ ("rx" \in c.pending => "rx" \in d.pending)
    BY <2>4, LatchedIsRaised DEF InQueued, SameIn
  <2>3. \A k : AlignedAt(c, k) => AlignedAt(d, k)
    BY <1>2, <2>1, OutLandsAligned
  <2> QED BY <2>2, <2>3, <2>4 DEF SettledOut
<1> QED BY <1>1, <1>2

LEMMA OutAdvanceFields ==
  ASSUME NEW c \in Chip, SettledOut(c), "tx" \in c.pending, SettledIn(c), NEW n \in Nat,
         NEW d, d = OutAdvance(c, n)
  PROVE  /\ d \in Chip /\ SettledOut(d) /\ SettledIn(d) /\ Raised(c, d)
         /\ "rx" \in c.pending => "rx" \in d.pending
         /\ \A k : AlignedAt(c, k) => AlignedAt(d, k)
<1> DEFINE j == c.out_cycles - n
           e == [c EXCEPT !.out_cycles = j]
           f == OutSettle(e)
<1>1. c.out_cycles \in Int /\ j \in Int /\ j <= c.out_cycles
  BY DEF Chip
<1>2. d = OutSettle(f)
  BY DEF OutAdvance
<1> HIDE DEF j
<1>3. /\ e \in Chip /\ SameIn(c, e) /\ SameIrq(c, e) /\ e.out_cycles = j
      /\ e.shift = c.shift /\ e.holding = c.holding /\ e.pending = c.pending
      /\ e.frame = c.frame
  BY <1>1 DEF Chip, SameIn, SameIrq
<1> HIDE DEF e
<1>4. SettledIn(e)
  BY <1>3 DEF SameIn, SettledIn, SoundIn, InFlight
<1>5. SoundOut(e)
  <2>1. j <= ByteTime
    BY <1>1, DelaysAssumption DEF SettledOut, SoundOut
  <2> QED BY <1>3, <2>1 DEF SettledOut, SoundOut
<1>6. OutgoingOf(e) = OutgoingOf(c) /\ Raised(c, e)
  BY <1>3 DEF OutgoingOf, SameIrq, Raised
<1>7. /\ f \in Chip /\ SoundOut(f) /\ SettledIn(f) /\ Raised(e, f)
      /\ "rx" \in e.pending => "rx" \in f.pending
      /\ SettledOut(f) \/ f.holding = <<>>
      /\ \A k : AlignedAt(e, k) => AlignedAt(f, k)
  BY <1>3, <1>4, <1>5, OutSettleFields
<1> HIDE DEF f
<1>8. /\ d \in Chip /\ SoundOut(d) /\ SettledIn(d) /\ Raised(f, d)
      /\ "rx" \in f.pending => "rx" \in d.pending
      /\ f.holding = <<>> => SettledOut(d)
      /\ \A k : AlignedAt(f, k) => AlignedAt(d, k)
  BY <1>2, <1>7, OutSettleFields
<1>9. SettledOut(f) => d = f
  BY <1>2 DEF SettledOut, OutSettle
<1>10. SettledOut(d)
  BY <1>7, <1>8, <1>9
<1>11. \A k : AlignedAt(c, k) => AlignedAt(d, k)
  BY <1>6, <1>7, <1>8 DEF AlignedAt
<1>12. Raised(c, d)
  BY <1>6, <1>7, <1>8, RaisedTwice
<1> QED BY <1>3, <1>7, <1>8, <1>10, <1>11, <1>12

-----------------------------------------------------------------------------
(***************************************************************************)
(* A sound chip stays sound, whatever is asked of it.                      *)
(***************************************************************************)
Sound(c) == c \in Chip /\ SettledOut(c) /\ SettledIn(c)

LEMMA AdvanceFields ==
  ASSUME NEW c, Sound(c), NEW n \in Nat, NEW d, d = Advance(c, n)
  PROVE  Sound(d) /\ Raised(c, d) /\ \A k : AlignedAt(c, k) => AlignedAt(d, k)
<1> DEFINE e == IF "tx" \in c.pending THEN OutAdvance(c, n) ELSE c
<1>1. d = IF "rx" \in c.pending THEN InAdvance(e, n) ELSE e
  BY DEF Advance
<1>2. /\ e \in Chip /\ SettledOut(e) /\ SettledIn(e) /\ Raised(c, e)
      /\ "rx" \in c.pending => "rx" \in e.pending
      /\ \A k : AlignedAt(c, k) => AlignedAt(e, k)
  <2>1. CASE "tx" \in c.pending
    BY <2>1, OutAdvanceFields DEF Sound
  <2>2. CASE "tx" \notin c.pending
    BY <2>2 DEF Sound, Raised
  <2> QED BY <2>1, <2>2
<1> HIDE DEF e
<1>3. CASE "rx" \in c.pending
  <2>1. d \in Chip /\ SameOut(e, d) /\ Raised(e, d) /\ SettledIn(d)
    BY <1>1, <1>2, <1>3, InAdvanceFields
  <2>2. SettledOut(d)
    BY <1>2, <2>1 DEF SameOut, SettledOut, SoundOut
  <2>3. OutgoingOf(d) = OutgoingOf(e)
    BY <2>1 DEF SameOut, OutgoingOf
  <2>4. \A k : AlignedAt(c, k) => AlignedAt(d, k)
    BY <1>2, <2>3 DEF AlignedAt
  <2> QED BY <1>2, <2>1, <2>2, <2>4, RaisedTwice DEF Sound
<1>4. CASE "rx" \notin c.pending
  BY <1>1, <1>2, <1>4 DEF Sound
<1> QED BY <1>3, <1>4

LEMMA OutWriteFields ==
  ASSUME NEW c, Sound(c), c.holding = <<>>, NEW b \in Bytes, NEW d, d = OutWrite(c, b)
  PROVE  Sound(d) /\ Raised(c, d) /\ OutgoingOf(d) = Append(OutgoingOf(c), b)
<1>1. /\ c \in Chip /\ SoundOut(c) /\ SettledOut(c) /\ SettledIn(c)
      /\ c.frame \in Seq(Bytes) /\ c.shift \in Seq(Bytes)
  BY DEF Sound, SettledOut, Chip
<1>2. <<b>> \in Seq(Bytes) /\ <<>> \in Seq(Bytes) /\ Len(<<b>>) = 1 /\ <<b>> # <<>>
  OBVIOUS
<1>3. CASE c.out_cycles > 0
  <2> DEFINE s == <<b>>
  <2>1. d = [c EXCEPT !.holding = s]
    BY <1>3 DEF OutWrite
  <2> HIDE DEF s
  <2>2. /\ d \in Chip /\ SameIn(c, d) /\ SameIrq(c, d) /\ d.shift = c.shift /\ d.holding = s
        /\ d.out_cycles = c.out_cycles /\ d.pending = c.pending /\ d.frame = c.frame
    BY <1>1, <1>2, <2>1 DEF Chip, SameIn, SameIrq, s
  <2>3. c.shift # <<>>
    BY <1>1, <1>3, DelaysAssumption DEF SoundOut
  <2>4. Len(s) <= 1
    BY <1>2 DEF s
  <2>5. SettledOut(d)
    BY <1>1, <1>3, <2>2, <2>3, <2>4 DEF SettledOut, SoundOut
  <2>6. SettledIn(d)
    BY <1>1, <2>2 DEF SameIn, SettledIn, SoundIn, InFlight
  <2>7. OutgoingOf(d) = Append(OutgoingOf(c), b)
    <3> DEFINE t == c.frame \o c.shift
    <3>1. t \in Seq(Bytes)
      BY <1>1, ConcatProperties
    <3>2. OutgoingOf(d) = t \o <<b>> /\ OutgoingOf(c) = t \o <<>>
      BY <2>2 DEF OutgoingOf, s
    <3> HIDE DEF t
    <3> QED BY <3>1, <3>2, ConcatEmptySeq, AppendIsConcat
  <2> QED BY <2>2, <2>5, <2>6, <2>7 DEF Sound, SameIrq, Raised
<1>4. CASE ~ (c.out_cycles > 0)
  <2> DEFINE s == <<b>>
             p == c.pending \cup {"tx"}
             e == [c EXCEPT !.shift = s, !.holding = <<>>, !.out_cycles = ByteTime,
                            !.pending = p]
  <2>1. d = Raise(e, "needed")
    BY <1>4 DEF OutWrite
  <2>2. /\ p \in SUBSET {"tx", "rx"} /\ "tx" \in p
        /\ "rx" \in p <=> "rx" \in c.pending
    BY <1>1 DEF Chip
  <2>3. s \in Seq(Bytes) /\ s # <<>> /\ Len(s) <= 1 /\ ByteTime \in Int
    BY <1>2, DelaysAssumption
  <2> HIDE DEF s, p
  <2>4. /\ e \in Chip /\ SameIrq(c, e) /\ e.shift = s /\ e.holding = <<>>
        /\ e.out_cycles = ByteTime /\ e.pending = p /\ e.frame = c.frame
        /\ e.in = c.in /\ e.in_cycles = c.in_cycles /\ e.queue = c.queue /\ e.owed = c.owed
    BY <1>1, <1>2, <2>2, <2>3 DEF Chip, SameIrq
  <2> HIDE DEF e
  <2>5. d \in Chip /\ SameOut(e, d) /\ SameIn(e, d) /\ Raised(e, d)
    BY <2>1, <2>4, RaiseFields, LatchedIsRaised DEF Sources
  <2>6. /\ d.shift = s /\ d.holding = <<>> /\ d.out_cycles = ByteTime /\ d.frame = c.frame
        /\ "tx" \in d.pending
    BY <2>2, <2>4, <2>5 DEF SameOut
  <2>7. SettledOut(d)
    <3>1. Len(d.holding) <= 1
      BY <2>6, EmptySeq
    <3> QED BY <1>1, <2>3, <2>6, <3>1, DelaysAssumption DEF SettledOut, SoundOut
  <2>8. /\ d.in = c.in /\ d.in_cycles = c.in_cycles /\ d.queue = c.queue
        /\ d.owed = c.owed
        /\ "rx" \in d.pending <=> "rx" \in c.pending
    BY <2>2, <2>4, <2>5 DEF SameIn
  <2>9. SettledIn(d)
    BY <1>1, <2>8 DEF SettledIn, SoundIn, InFlight
  <2>10. c.shift = <<>>
    BY <1>1, <1>4 DEF SettledOut
  <2>11. OutgoingOf(d) = Append(OutgoingOf(c), b)
    <3>1. OutgoingOf(c) = c.frame
      <4>1. c.frame \o <<>> = c.frame
        BY <1>1, ConcatEmptySeq
      <4> QED BY <2>10, <4>1 DEF OutgoingOf
    <3>2. OutgoingOf(d) = c.frame \o <<b>>
      <4>1. c.frame \o <<b>> \in Seq(Bytes)
        BY <1>1, <1>2, ConcatProperties
      <4>2. (c.frame \o <<b>>) \o <<>> = c.frame \o <<b>>
        BY <4>1, ConcatEmptySeq
      <4> QED BY <2>6, <4>2 DEF OutgoingOf, s
    <3> QED BY <1>1, <3>1, <3>2, AppendIsConcat
  <2>12. Raised(c, d)
    BY <2>4, <2>5 DEF SameIrq, Raised
  <2> QED BY <2>5, <2>7, <2>9, <2>11, <2>12 DEF Sound
<1> QED BY <1>3, <1>4

LEMMA StaleFields ==
  ASSUME NEW s \in Seq(Bytes)
  PROVE  /\ Stale(s) \in Seq(Bytes) /\ Len(Stale(s)) = Len(s)
         /\ Stale(s) = <<>> <=> s = <<>>
<1>1. Len(s) \in Nat /\ DOMAIN s = 1..Len(s)
  BY LenProperties
<1>2. ASSUME NEW i \in 1..Len(s) PROVE [s[i] EXCEPT !.fresh = FALSE] \in Bytes
  <2>1. s[i] \in Bytes
    BY ElementOfSeq
  <2> QED BY <2>1 DEF Bytes
<1>3. Stale(s) = [i \in 1..Len(s) |-> [s[i] EXCEPT !.fresh = FALSE]]
  BY <1>1 DEF Stale
<1>4. Stale(s) \in [1..Len(s) -> Bytes]
  BY <1>2, <1>3
<1>5. Stale(s) \in Seq(Bytes)
  BY <1>1, <1>4, SeqDef
<1>6. Len(Stale(s)) = Len(s)
  BY <1>1, <1>4, <1>5, LenProperties
<1> QED BY <1>5, <1>6, EmptySeq

-----------------------------------------------------------------------------
(***************************************************************************)
(* The invariant: the chip is sound, its line tells what is latched, and   *)
(* what is outgoing are the bytes the program has written of its frame.    *)
(***************************************************************************)
ProgramTypes ==
    /\ mounted \in BOOLEAN /\ req \in Requests /\ sent \in 0..(FrameLen - 1)
    /\ skew \in 0..(FrameLen - 1) /\ stray \in BOOLEAN /\ muted \in BOOLEAN

IInv ==
    /\ Sound(chip)
    /\ ProgramTypes
    /\ chip.irqst \subseteq chip.irqen
    /\ LineIsLevel
    /\ ~stray => AlignedAt(chip, (skew + sent) % FrameLen)

LEMMA Initially == Init => IInv
<1> SUFFICES ASSUME Init PROVE IInv
  OBVIOUS
<1> USE DEF Init
<1>1. FrameLen \in Nat \ {0} /\ ByteTime \in Nat \ {0}
  BY FrameAssumption, DelaysAssumption
<1>2. chip \in Chip
  <2>1. <<>> \in Seq(Bytes) /\ <<>> \in Seq(Entries) /\ <<>> \in Seq(Answers)
    BY EmptySeq
  <2> QED BY <2>1 DEF Chip, Answers
<1>3. /\ chip.shift = <<>> /\ chip.holding = <<>> /\ chip.frame = <<>> /\ chip.out_cycles = 0
      /\ chip.in_cycles = 0 /\ chip.queue = <<>> /\ chip.owed = <<>> /\ chip.pending = {}
      /\ chip.irqst = {} /\ chip.irqen = {} /\ chip.pin = FALSE /\ sent = 0 /\ skew = 0
      /\ mounted \in BOOLEAN /\ req \in Requests /\ stray = FALSE /\ muted = FALSE
  OBVIOUS
<1> HIDE DEF Init
<1>4. SettledOut(chip) /\ SettledIn(chip)
  <2>1. Len(<<>>) = 0
    BY EmptySeq
  <2> QED BY <1>1, <1>3, <2>1, BytesOfNone
           DEF SettledOut, SoundOut, SettledIn, SoundIn, InFlight
<1>5. AlignedAt(chip, (skew + sent) % FrameLen)
  <2>1. OutgoingOf(chip) = <<>>
    BY <1>3 DEF OutgoingOf
  <2>2. Len(<<>>) = 0 /\ 0 % FrameLen = 0
    BY <1>1, EmptySeq, RemainderInRange
  <2> QED BY <1>3, <2>1, <2>2 DEF AlignedAt, InPlace
<1>6. ProgramTypes
  <2>1. sent \in 0..(FrameLen - 1) /\ skew \in 0..(FrameLen - 1)
    BY <1>1, <1>3
  <2>2. stray \in BOOLEAN /\ muted \in BOOLEAN
    BY <1>3
  <2> QED BY <1>3, <2>1, <2>2 DEF ProgramTypes
<1> QED BY <1>2, <1>3, <1>4, <1>5, <1>6 DEF IInv, Sound, LineIsLevel

(* Interrupts that are raised keep the line and what is latched together.  *)
LEMMA RaisedIsLevel ==
  ASSUME chip \in Chip, chip' \in Chip, muted \in BOOLEAN,
         chip.irqst \subseteq chip.irqen, LineIsLevel,
         Raised(chip, chip'), muted' = (muted /\ ~chip'.pin)
  PROVE  chip'.irqst \subseteq chip'.irqen /\ LineIsLevel' /\ muted' \in BOOLEAN
<1>1. chip.pin \in BOOLEAN /\ chip'.pin \in BOOLEAN
  BY DEF Chip
<1>2. CASE chip'.irqst = chip.irqst /\ chip'.pin = chip.pin
  BY <1>1, <1>2 DEF Raised, LineIsLevel
<1>3. CASE chip'.irqst # {} /\ chip'.pin
  BY <1>1, <1>3 DEF Raised, LineIsLevel
<1> QED BY <1>2, <1>3 DEF Raised

(* An operation on the chip that leaves the program's side alone.          *)
LEMMA Unmoved ==
  ASSUME IInv, Sound(chip)', UNCHANGED <<mounted, req, sent, skew, stray>>,
         SameIrq(chip, chip'), muted' = muted,
         OutgoingOf(chip') = OutgoingOf(chip)
  PROVE  IInv'
BY DEF IInv, ProgramTypes, SameIrq, LineIsLevel, AlignedAt, InPlace

(* What a write to SEROUT keeps: a byte written in its place, counted with *)
(* what was given up before it, leaves what is outgoing aligned.           *)
Written(place, lead) ==
    /\ Sound(chip)' /\ chip'.irqst \subseteq chip'.irqen /\ LineIsLevel'
    /\ muted' \in BOOLEAN /\ mounted' = mounted /\ req' \in Requests
    /\ sent' \in 0..(FrameLen - 1) /\ skew' \in 0..(FrameLen - 1)
    /\ AlignedAt(chip, (lead + (place - 1)) % FrameLen)
         => AlignedAt(chip, (skew + sent) % FrameLen)'

LEMMA WriteKeeps ==
  ASSUME IInv, NEW r \in Requests, NEW place \in 1..FrameLen,
         NEW lead \in 0..(FrameLen - 1), Write(r, place, lead)
  PROVE  Written(place, lead)
<1> DEFINE b == [req |-> r, pos |-> place, skew |-> lead, fresh |-> TRUE]
           s == OutgoingOf(chip)
           x == lead + (place - 1)
<1>1. Sound(chip) /\ chip \in Chip /\ chip.irqst \subseteq chip.irqen /\ LineIsLevel /\ muted \in BOOLEAN
  BY DEF IInv, Sound, ProgramTypes
<1>2. /\ chip.holding = <<>> /\ req' = r /\ sent' = place % FrameLen /\ skew' = lead
      /\ chip' = OutWrite(chip, b) /\ muted' = (muted /\ ~chip'.pin) /\ mounted' = mounted
  BY DEF Write
<1>3. /\ FrameLen \in Nat \ {0} /\ place \in Nat /\ lead \in Nat
      /\ x \in Nat /\ x + 1 = lead + place
  BY FrameAssumption
<1>4. b \in Bytes /\ b.pos = place /\ b.skew = lead /\ b.fresh
  BY DEF Bytes
<1> HIDE DEF b, x
<1>5. Sound(chip') /\ Raised(chip, chip') /\ OutgoingOf(chip') = Append(s, b)
  BY <1>1, <1>2, <1>4, OutWriteFields
<1>6. s \in Seq(Bytes)
  BY <1>1, OutgoingType
<1> HIDE DEF s
<1>7. chip'.irqst \subseteq chip'.irqen /\ LineIsLevel' /\ muted' \in BOOLEAN
  BY <1>1, <1>2, <1>5, RaisedIsLevel DEF Sound
<1>8. ASSUME AlignedAt(chip, x % FrameLen) PROVE AlignedAt(chip', (skew' + sent') % FrameLen)
  <2>1. InPlace(s) /\ Len(s) % FrameLen = x % FrameLen
    BY <1>8 DEF AlignedAt, s
  <2>2. (lead + place) % FrameLen = ((x % FrameLen) + 1) % FrameLen
    BY <1>3, RemainderStep
  <2>3. InPlace(Append(s, b)) /\ Len(Append(s, b)) % FrameLen = (lead + place) % FrameLen
    BY <1>4, <1>6, <2>1, <2>2, AlignedByOne
  <2>4. (skew' + sent') % FrameLen = (lead + place) % FrameLen
    BY <1>2, <1>3, RemainderOfSum
  <2> QED BY <1>5, <2>3, <2>4 DEF AlignedAt
<1>9. sent' \in 0..(FrameLen - 1) /\ skew' \in 0..(FrameLen - 1)
  BY <1>2, <1>3, Division
<1> QED BY <1>2, <1>5, <1>7, <1>8, <1>9 DEF Written, Sound, AlignedAt, InPlace, x

LEMMA Stepwise == IInv /\ [Next]_vars => IInv'
<1> SUFFICES ASSUME IInv, [Next]_vars PROVE IInv'
  OBVIOUS
<1>1. /\ Sound(chip) /\ chip \in Chip /\ ProgramTypes /\ chip.irqst \subseteq chip.irqen
      /\ LineIsLevel /\ (~stray => AlignedAt(chip, (skew + sent) % FrameLen))
      /\ skew \in 0..(FrameLen - 1) /\ sent \in 0..(FrameLen - 1) /\ muted \in BOOLEAN
  BY DEF IInv, Sound, ProgramTypes
<1>2. CASE Continue
  <2>1. sent \in 1..(FrameLen - 1) /\ sent + 1 \in 1..FrameLen /\ (sent + 1) - 1 = sent
    BY <1>1, <1>2, FrameAssumption DEF Continue, ProgramTypes
  <2>2. Write(req, sent + 1, skew) /\ stray' = stray /\ req \in Requests
    BY <1>1, <1>2 DEF Continue, ProgramTypes
  <2>3. Written(sent + 1, skew)
    BY <1>1, <2>1, <2>2, WriteKeeps
  <2> QED BY <1>1, <2>1, <2>2, <2>3 DEF Written, IInv, ProgramTypes
<1>9. ASSUME NEW r \in Requests, BeginFrame(r) PROVE IInv'
  <2> DEFINE lead == IF Outgoing = <<>> \/ stray THEN 0 ELSE (skew + sent) % FrameLen
  <2>1. /\ FrameLen \in Nat \ {0} /\ 1 \in 1..FrameLen
        /\ \A x \in 0..(FrameLen - 1) : x + (1 - 1) = x /\ x % FrameLen = x
    BY FrameAssumption, RemainderInRange
  <2>2. Write(r, 1, lead) /\ stray' = (stray /\ Outgoing # <<>>)
    BY <1>9 DEF BeginFrame
  <2>3. lead \in 0..(FrameLen - 1)
    <3>1. skew + sent \in Nat /\ 0 \in 0..(FrameLen - 1)
      BY <1>1, <2>1
    <3>2. (skew + sent) % FrameLen \in 0..(FrameLen - 1)
      BY <2>1, <3>1, Division
    <3> QED BY <3>1, <3>2
  <2>4. ASSUME ~stray' PROVE AlignedAt(chip, lead)
    <3>1. CASE Outgoing = <<>>
      <4>1. lead = 0 /\ OutgoingOf(chip) = <<>> /\ Len(<<>>) = 0 /\ 0 % FrameLen = 0
        BY <2>1, <3>1, EmptySeq DEF Outgoing, OutgoingOf
      <4> QED BY <4>1 DEF AlignedAt, InPlace
    <3>2. CASE Outgoing # <<>>
      <4>1. ~stray /\ lead = (skew + sent) % FrameLen
        BY <1>1, <2>2, <2>4, <3>2 DEF ProgramTypes
      <4> QED BY <1>1, <4>1
    <3> QED BY <3>1, <3>2
  <2>5. stray' \in BOOLEAN
    BY <2>2
  <2> HIDE DEF lead
  <2>6. Written(1, lead)
    BY <2>1, <2>2, <2>3, WriteKeeps
  <2>7. (lead + (1 - 1)) % FrameLen = lead
    BY <2>1, <2>3
  <2> QED BY <2>4, <2>5, <2>6, <2>7 DEF Written, IInv, ProgramTypes
<1>3. ASSUME NEW e \in Masks, Enable(e) PROVE IInv'
  <2> DEFINE q == chip.irqst \cap e
             p == (q # {})
  <2>1. /\ chip' = [chip EXCEPT !.irqen = e, !.irqst = q, !.pin = p]
        /\ muted' = FALSE /\ UNCHANGED <<mounted, req, sent, skew, stray>>
    BY <1>3 DEF Enable
  <2>2. e \in SUBSET Sources /\ q \in SUBSET Sources /\ p \in BOOLEAN /\ q \subseteq e
    BY <1>1, MasksAssumption DEF Sources, Chip
  <2>3. p <=> q # {}
    OBVIOUS
  <2> HIDE DEF p, q
  <2>4. /\ chip' \in Chip /\ SameOut(chip, chip') /\ SameIn(chip, chip')
        /\ chip'.irqen = e /\ chip'.irqst = q /\ chip'.pin = p
    BY <1>1, <2>1, <2>2 DEF Chip, SameOut, SameIn
  <2>5. SettledOut(chip')
    BY <1>1, <2>4 DEF Sound, SameOut, SettledOut, SoundOut
  <2>6. SettledIn(chip')
    BY <1>1, <2>4 DEF Sound, SameIn, SettledIn, SoundIn, InFlight
  <2>7. OutgoingOf(chip') = OutgoingOf(chip)
    BY <2>4 DEF SameOut, OutgoingOf
  <2>8. LineIsLevel'
    BY <2>1, <2>3, <2>4 DEF LineIsLevel
  <2> QED BY <1>1, <2>1, <2>2, <2>4, <2>5, <2>6, <2>7, <2>8
           DEF IInv, Sound, ProgramTypes, AlignedAt
<1>4. ASSUME NEW n \in Chunks, Elapse(n) PROVE IInv'
  <2>1. /\ chip' = Advance(chip, n) /\ muted' = (muted /\ ~chip'.pin)
        /\ UNCHANGED <<mounted, req, sent, skew, stray>>
    BY <1>4 DEF Elapse
  <2>2. n \in Nat
    BY ChunksAssumption
  <2>3. /\ Sound(chip') /\ Raised(chip, chip')
        /\ \A k : AlignedAt(chip, k) => AlignedAt(chip', k)
    BY <1>1, <2>1, <2>2, AdvanceFields
  <2>4. chip'.irqst \subseteq chip'.irqen /\ LineIsLevel' /\ muted' \in BOOLEAN
    BY <1>1, <2>1, <2>3, RaisedIsLevel DEF Sound
  <2> QED BY <1>1, <2>1, <2>3, <2>4 DEF IInv, ProgramTypes
<1>5. ASSUME ReadSerin \/ Skrest PROVE IInv'
  <2>1. /\ \/ chip' = [chip EXCEPT !.unread = FALSE]
           \/ chip' = [chip EXCEPT !.overrun = FALSE]
        /\ UNCHANGED <<mounted, req, sent, skew, stray>> /\ muted' = muted
    BY <1>5 DEF ReadSerin, Skrest
  <2>2. /\ chip' \in Chip /\ SameOut(chip, chip') /\ SameIrq(chip, chip')
        /\ chip'.in = chip.in /\ chip'.in_cycles = chip.in_cycles
        /\ chip'.queue = chip.queue /\ chip'.owed = chip.owed
        /\ chip'.pending = chip.pending
    BY <1>1, <2>1 DEF Chip, SameOut, SameIrq
  <2>3. SettledOut(chip')
    BY <1>1, <2>2 DEF Sound, SameOut, SettledOut, SoundOut
  <2>4. SettledIn(chip')
    BY <1>1, <2>2 DEF Sound, SettledIn, SoundIn, InFlight
  <2>5. OutgoingOf(chip') = OutgoingOf(chip)
    BY <2>2 DEF SameOut, OutgoingOf
  <2> QED BY <2>1, <2>2, <2>3, <2>4, <2>5, Unmoved DEF Sound
<1>6. CASE Mount
  <2>1. /\ mounted' = ~mounted
        /\ UNCHANGED <<chip, req, sent, skew, stray, muted>>
    BY <1>6 DEF Mount
  <2> QED BY <1>1, <2>1 DEF IInv, ProgramTypes, LineIsLevel
<1>7. CASE ColdReset
  <2> DEFINE s == Stale(chip.shift)
             h == Stale(chip.holding)
  <2>1. /\ chip' = [chip EXCEPT !.frame = <<>>, !.pin = FALSE, !.shift = s, !.holding = h]
        /\ sent' = 0 /\ skew' = 0 /\ stray' = (chip.shift # <<>>)
        /\ muted' = (chip.irqst # {})
        /\ mounted' = mounted /\ req' = req
    BY <1>7 DEF ColdReset
  <2>2. /\ s \in Seq(Bytes) /\ Len(s) = Len(chip.shift) /\ (s = <<>> <=> chip.shift = <<>>)
        /\ h \in Seq(Bytes) /\ Len(h) = Len(chip.holding)
        /\ (h = <<>> <=> chip.holding = <<>>)
    <3>1. chip.shift \in Seq(Bytes) /\ chip.holding \in Seq(Bytes)
      BY <1>1 DEF Chip
    <3> QED BY <3>1, StaleFields
  <2>3. /\ <<>> \in Seq(Bytes) /\ Len(<<>>) = 0 /\ FrameLen \in Nat \ {0}
        /\ 0 \in 0..(FrameLen - 1) /\ 0 % FrameLen = 0
    BY EmptySeq, FrameAssumption, RemainderInRange
  <2> HIDE DEF s, h
  <2>4. /\ chip' \in Chip /\ SameIn(chip, chip') /\ chip'.irqen = chip.irqen
        /\ chip'.irqst = chip.irqst /\ chip'.pin = FALSE /\ chip'.frame = <<>>
        /\ chip'.shift = s /\ chip'.holding = h /\ chip'.out_cycles = chip.out_cycles
        /\ chip'.pending = chip.pending
    BY <1>1, <2>1, <2>2, <2>3 DEF Chip, SameIn
  <2>5. SettledOut(chip')
    BY <1>1, <2>2, <2>3, <2>4 DEF Sound, SettledOut, SoundOut
  <2>6. SettledIn(chip')
    BY <1>1, <2>4 DEF Sound, SameIn, SettledIn, SoundIn, InFlight
  <2>7. ~stray' => AlignedAt(chip', (skew' + sent') % FrameLen)
    <3> SUFFICES ASSUME chip.shift = <<>> PROVE AlignedAt(chip', 0)
      <4>1. skew' + sent' = 0
        BY <2>1
      <4> QED BY <2>1, <2>3, <4>1
    <3>1. chip.holding = <<>>
      BY <1>1 DEF Sound, SettledOut, SoundOut
    <3>2. OutgoingOf(chip') = <<>>
      BY <2>2, <2>4, <3>1 DEF OutgoingOf
    <3> QED BY <2>3, <3>2 DEF AlignedAt, InPlace
  <2>8. LineIsLevel' /\ muted' \in BOOLEAN /\ stray' \in BOOLEAN
    BY <2>1, <2>4 DEF LineIsLevel
  <2> QED BY <1>1, <2>1, <2>3, <2>4, <2>5, <2>6, <2>7, <2>8 DEF IInv, Sound, ProgramTypes
<1>8. CASE UNCHANGED vars
  <2>1. UNCHANGED <<chip, mounted, req, sent, skew, stray, muted>>
    BY <1>8 DEF vars
  <2> QED BY <1>1, <2>1 DEF IInv, ProgramTypes, LineIsLevel
<1> QED BY <1>2, <1>3, <1>4, <1>5, <1>6, <1>7, <1>8, <1>9 DEF Next

(* The serial port's invariant, of every program that sends command frames *)
(* and however POKEY is advanced.                                          *)
THEOREM SerialInvariant == Spec => []IInv
BY Initially, Stepwise, PTL DEF Spec

(* Types.                                                                  *)
THEOREM TypeCorrect == Spec => []TypeOK
<1>1. IInv => TypeOK
  <2> SUFFICES ASSUME IInv PROVE TypeOK
    OBVIOUS
  <2>1. /\ chip \in Chip /\ SettledOut(chip) /\ SettledIn(chip) /\ ProgramTypes
        /\ chip.irqst \subseteq chip.irqen
    BY DEF IInv, Sound
  <2>2. ASSUME NEW s \in Seq(Bytes), Len(s) <= 1 PROVE s \in BoundedSeq(Bytes, 1)
    <3> DEFINE n == Len(s)
    <3>1. n \in Nat /\ n <= 1 /\ s \in [1..n -> Bytes]
      BY <2>2, LenProperties
    <3> HIDE DEF n
    <3>2. n \in 0..1
      BY <3>1
    <3> QED BY <3>1, <3>2 DEF BoundedSeq, SeqOf
  <2>3. chip.shift \in BoundedSeq(Bytes, 1) /\ chip.holding \in BoundedSeq(Bytes, 1)
    BY <2>1, <2>2 DEF Chip, SettledOut, SoundOut
  <2>4. /\ chip.out_cycles \in 0..ByteTime
        /\ chip.in_cycles \in 0..(ByteTime + AckDelay + CompleteDelay)
    <3>1. chip.out_cycles \in Int /\ chip.in_cycles \in Int
      BY <2>1 DEF Chip
    <3>2. chip.out_cycles >= 0 /\ chip.out_cycles <= ByteTime
      BY <2>1, <3>1 DEF SettledOut, SoundOut
    <3>3. chip.in_cycles >= 0 /\ chip.in_cycles <= (ByteTime + AckDelay) + CompleteDelay
      BY <2>1, <3>1, DelaysAssumption DEF SettledIn, SoundIn
    <3> QED BY <3>1, <3>2, <3>3, DelaysAssumption
  <2>5. /\ \A i \in DOMAIN chip.queue : chip.queue[i] \in Entries
        /\ \A i \in DOMAIN chip.frame : chip.frame[i] \in Bytes
    <3>1. chip.queue \in Seq(Entries) /\ chip.frame \in Seq(Bytes)
      BY <2>1 DEF Chip
    <3> QED BY <3>1
  <2> QED BY <2>1, <2>3, <2>4, <2>5
           DEF TypeOK, Chip, SettledOut, SoundOut, ProgramTypes
<1> QED BY <1>1, SerialInvariant, PTL

(* A transfer is under way exactly while its PENDING bit says so.          *)
THEOREM PendingTellsTransfers == Spec => []PendingIsExact
<1>1. IInv => PendingIsExact
  <2> SUFFICES ASSUME IInv PROVE PendingIsExact
    OBVIOUS
  <2>1. chip.out_cycles \in Int /\ chip.in_cycles \in Int
    BY DEF IInv, Sound, Chip
  <2> QED BY <2>1 DEF IInv, Sound, SettledOut, SoundOut, SettledIn, SoundIn, PendingIsExact
<1> QED BY <1>1, SerialInvariant, PTL

(* The IRQ line is up exactly while an enabled source is latched, but for  *)
(* what a cold reset muted.                                                *)
THEOREM LineTellsLatches == Spec => []LineIsLevel
<1>1. IInv => LineIsLevel
  BY DEF IInv
<1> QED BY <1>1, SerialInvariant, PTL

(* The replies land byte by byte, none lost, doubled or out of order,      *)
(* whatever the program sends meanwhile.                                   *)
THEOREM RepliesArriveWhole == Spec => []NoReplyByteLost
<1>1. IInv => NoReplyByteLost
  <2> SUFFICES ASSUME IInv PROVE NoReplyByteLost
    OBVIOUS
  <2>1. chip.in_cycles \in Int /\ SettledIn(chip)
    BY DEF IInv, Sound, Chip
  <2>2. "rx" \in chip.pending <=> chip.in_cycles > 0
    BY <2>1 DEF SettledIn, SoundIn
  <2>3. chip.owed = InFlight(chip) \o BytesOf(chip.queue)
    BY <2>1 DEF SettledIn, SoundIn
  <2> QED BY <2>2, <2>3 DEF NoReplyByteLost, InFlight
<1> QED BY <1>1, SerialInvariant, PTL

(* Each byte of a command frame is collected in its place, displaced by    *)
(* the bytes of frames given up before it and by nothing else, for every   *)
(* frame length, every point at which one is given up and every reply,     *)
(* until a cold reset finds a byte on its way out.                         *)
THEOREM FramesStayAligned == Spec => []FramesAligned
<1>1. IInv => FramesAligned
  <2>1. Outgoing = OutgoingOf(chip)
    BY DEF Outgoing, OutgoingOf
  <2> QED BY <2>1 DEF IInv, FramesAligned, AlignedAt, InPlace
<1> QED BY <1>1, SerialInvariant, PTL

-----------------------------------------------------------------------------
(***************************************************************************)
(* One advance and its ticks.  What the transmitter is after I cycles has  *)
(* a closed form: no byte has left it, or the one in the shift register, or*)
(* the one held as well.                                                   *)
(***************************************************************************)
Landed1(c, i) == c.shift # <<>> /\ c.out_cycles <= i
Landed2(c, i) == c.holding # <<>> /\ c.out_cycles + ByteTime <= i

RaisedAt(c, i) ==
    IF Landed2(c, i) THEN {"needed", "done"}
    ELSE IF ~Landed1(c, i) THEN {}
    ELSE IF c.holding = <<>> THEN {"done"} ELSE {"needed"}

Frame1(c) == FrameAfter(c.frame, Head(c.shift))

AnswerAt(c, i) ==
    IF ~Landed1(c, i) THEN <<>>
    ELSE IF Len(c.frame) + 1 = FrameLen THEN AnswerTo(c.frame, Head(c.shift))
    ELSE IF Landed2(c, i) THEN AnswerTo(Frame1(c), Head(c.holding)) ELSE <<>>

OutIs(c, i, d) ==
    /\ ~Landed1(c, i) =>
          /\ d.shift = c.shift /\ d.holding = c.holding /\ d.frame = c.frame
          /\ d.out_cycles = IF c.shift = <<>> THEN 0 ELSE c.out_cycles - i
    /\ Landed1(c, i) /\ ~Landed2(c, i) =>
          /\ d.shift = c.holding /\ d.holding = <<>> /\ d.frame = Frame1(c)
          /\ d.out_cycles = IF c.holding = <<>> THEN 0 ELSE (c.out_cycles + ByteTime) - i
    /\ Landed2(c, i) =>
          /\ d.shift = <<>> /\ d.holding = <<>> /\ d.out_cycles = 0
          /\ d.frame = FrameAfter(Frame1(c), Head(c.holding))

(* A sound transmitter, as numbers.                                        *)
LEMMA OutNumbers ==
  ASSUME NEW c, Sound(c)
  PROVE  /\ c.out_cycles \in Int /\ ByteTime \in Nat \ {0} /\ FrameLen \in Nat /\ FrameLen > 2
         /\ c.shift # <<>> => c.out_cycles >= 1
         /\ c.shift = <<>> => c.holding = <<>> /\ c.out_cycles = 0
         /\ c.frame \in Seq(Bytes) /\ Len(c.frame) \in Nat /\ Len(c.frame) < FrameLen
         /\ c.shift # <<>> => Head(c.shift) \in Bytes
         /\ c.holding # <<>> => Head(c.holding) \in Bytes
<1>1. c \in Chip /\ SettledOut(c)
  BY DEF Sound
<1>2. c.out_cycles \in Int /\ c.frame \in Seq(Bytes) /\ c.shift \in Seq(Bytes)
      /\ c.holding \in Seq(Bytes)
  BY <1>1 DEF Chip
<1>3. Len(c.frame) \in Nat
  BY <1>2, LenProperties
<1>4. /\ c.shift # <<>> => Head(c.shift) \in Bytes
      /\ c.holding # <<>> => Head(c.holding) \in Bytes
  BY <1>2, HeadTailProperties
<1>5. /\ c.shift # <<>> => c.out_cycles >= 1
      /\ c.shift = <<>> => c.holding = <<>> /\ c.out_cycles = 0
      /\ Len(c.frame) < FrameLen
  BY <1>1, <1>2 DEF SettledOut, SoundOut
<1> QED BY <1>2, <1>3, <1>4, <1>5, DelaysAssumption, FrameAssumption

(* The accumulator grows by one, or is emptied and answered.               *)
LEMMA FrameAfterLen ==
  ASSUME NEW f \in Seq(Bytes), NEW b \in Bytes, Len(f) < FrameLen
  PROVE  /\ FrameAfter(f, b) \in Seq(Bytes)
         /\ Len(f) + 1 < FrameLen => Len(FrameAfter(f, b)) = Len(f) + 1 /\ AnswerTo(f, b) = <<>>
         /\ Len(f) + 1 = FrameLen => FrameAfter(f, b) = <<>> /\ Len(FrameAfter(f, b)) = 0
<1>1. Append(f, b) \in Seq(Bytes) /\ Len(Append(f, b)) = Len(f) + 1 /\ Len(f) \in Nat
  BY AppendProperties, LenProperties
<1>2. <<>> \in Seq(Bytes) /\ Len(<<>>) = 0
  BY EmptySeq
<1> QED BY <1>1, <1>2, FrameAssumption DEF FrameAfter, AnswerTo

(* A tick more.                                                            *)
LEMMA OutAdds ==
  ASSUME NEW c, Sound(c), NEW i \in Nat, NEW b, Sound(b), OutIs(c, i, b),
         NEW e, OutIs(b, 1, e)
  PROVE  /\ OutIs(c, i + 1, e)
         /\ RaisedAt(c, i) \cup RaisedAt(b, 1) = RaisedAt(c, i + 1)
         /\ \/ AnswerAt(b, 1) = <<>> /\ AnswerAt(c, i + 1) = AnswerAt(c, i)
            \/ AnswerAt(c, i) = <<>> /\ AnswerAt(c, i + 1) = AnswerAt(b, 1)
<1>1. /\ c.out_cycles \in Int /\ ByteTime \in Nat \ {0} /\ FrameLen \in Nat /\ FrameLen > 2
      /\ c.shift # <<>> => c.out_cycles >= 1
      /\ c.shift = <<>> => c.holding = <<>> /\ c.out_cycles = 0
      /\ c.frame \in Seq(Bytes) /\ Len(c.frame) \in Nat /\ Len(c.frame) < FrameLen
      /\ c.shift # <<>> => Head(c.shift) \in Bytes
      /\ c.holding # <<>> => Head(c.holding) \in Bytes
  BY OutNumbers
<1>2. CASE ~Landed1(c, i)
  <2>1. /\ b.shift = c.shift /\ b.holding = c.holding /\ b.frame = c.frame
        /\ b.out_cycles = IF c.shift = <<>> THEN 0 ELSE c.out_cycles - i
    BY <1>2 DEF OutIs
  <2>2. ~Landed2(c, i) /\ ~Landed2(c, i + 1) /\ ~Landed2(b, 1)
    BY <1>1, <1>2, <2>1 DEF Landed1, Landed2
  <2>3. Landed1(b, 1) <=> Landed1(c, i + 1)
    BY <1>1, <2>1 DEF Landed1
  <2>4. Frame1(b) = Frame1(c)
    BY <2>1 DEF Frame1
  <2>5. RaisedAt(c, i) = {} /\ RaisedAt(c, i + 1) = RaisedAt(b, 1)
    BY <1>2, <2>1, <2>2, <2>3 DEF RaisedAt
  <2>6. AnswerAt(c, i) = <<>> /\ AnswerAt(c, i + 1) = AnswerAt(b, 1)
    BY <1>2, <2>1, <2>2, <2>3, <2>4 DEF AnswerAt
  <2>7. OutIs(c, i + 1, e)
    <3>1. CASE Landed1(b, 1)
      <4>1. /\ e.shift = c.holding /\ e.holding = <<>> /\ e.frame = Frame1(c)
            /\ e.out_cycles = IF c.holding = <<>> THEN 0 ELSE (b.out_cycles + ByteTime) - 1
        BY <2>1, <2>2, <2>4, <3>1 DEF OutIs
      <4>2. c.shift # <<>>
        BY <2>1, <3>1 DEF Landed1
      <4>3. (b.out_cycles + ByteTime) - 1 = (c.out_cycles + ByteTime) - (i + 1)
        BY <1>1, <2>1, <4>2
      <4> QED BY <2>2, <2>3, <3>1, <4>1, <4>3 DEF OutIs
    <3>2. CASE ~Landed1(b, 1)
      <4>1. /\ e.shift = c.shift /\ e.holding = c.holding /\ e.frame = c.frame
            /\ e.out_cycles = IF c.shift = <<>> THEN 0 ELSE b.out_cycles - 1
        BY <2>1, <3>2 DEF OutIs
      <4>2. c.shift # <<>> => b.out_cycles - 1 = c.out_cycles - (i + 1)
        BY <1>1, <2>1
      <4> QED BY <2>2, <2>3, <3>2, <4>1, <4>2 DEF OutIs
    <3> QED BY <3>1, <3>2
  <2> QED BY <2>5, <2>6, <2>7
<1>3. CASE Landed1(c, i) /\ ~Landed2(c, i)
  <2>1. /\ b.shift = c.holding /\ b.holding = <<>> /\ b.frame = Frame1(c)
        /\ b.out_cycles = IF c.holding = <<>> THEN 0 ELSE (c.out_cycles + ByteTime) - i
        /\ c.shift # <<>>
    BY <1>3 DEF OutIs, Landed1
  <2>2. Landed1(c, i + 1) /\ ~Landed2(b, 1)
    BY <1>1, <1>3, <2>1 DEF Landed1, Landed2
  <2>3. Landed1(b, 1) <=> Landed2(c, i + 1)
    BY <1>1, <2>1 DEF Landed1, Landed2
  <2>4. RaisedAt(c, i) \cup RaisedAt(b, 1) = RaisedAt(c, i + 1)
    <3>1. RaisedAt(c, i) = IF c.holding = <<>> THEN {"done"} ELSE {"needed"}
      BY <1>3 DEF RaisedAt
    <3>2. RaisedAt(b, 1) = IF Landed2(c, i + 1) THEN {"done"} ELSE {}
      BY <2>1, <2>2, <2>3 DEF RaisedAt
    <3>3. RaisedAt(c, i + 1) = IF Landed2(c, i + 1) THEN {"needed", "done"}
                               ELSE IF c.holding = <<>> THEN {"done"} ELSE {"needed"}
      BY <2>2 DEF RaisedAt
    <3>4. Landed2(c, i + 1) => c.holding # <<>>
      BY DEF Landed2
    <3>5. {"needed"} \cup {"done"} = {"needed", "done"}
      OBVIOUS
    <3> QED BY <3>1, <3>2, <3>3, <3>4, <3>5
  <2>5. \/ AnswerAt(b, 1) = <<>> /\ AnswerAt(c, i + 1) = AnswerAt(c, i)
        \/ AnswerAt(c, i) = <<>> /\ AnswerAt(c, i + 1) = AnswerAt(b, 1)
    <3>1. CASE Len(c.frame) + 1 = FrameLen
      <4>1. AnswerAt(c, i + 1) = AnswerAt(c, i)
        BY <1>3, <2>2, <3>1 DEF AnswerAt
      <4>2. Len(b.frame) = 0 /\ b.frame \in Seq(Bytes)
        BY <1>1, <2>1, <3>1, FrameAfterLen DEF Frame1
      <4>3. AnswerAt(b, 1) = <<>>
        BY <1>1, <2>2, <4>2 DEF AnswerAt
      <4> QED BY <4>1, <4>3
    <3>2. CASE Len(c.frame) + 1 # FrameLen
      <4>1. AnswerAt(c, i) = <<>>
        BY <1>3, <3>2 DEF AnswerAt
      <4>2. AnswerAt(c, i + 1) = IF Landed2(c, i + 1)
                                 THEN AnswerTo(b.frame, Head(b.shift)) ELSE <<>>
        BY <2>1, <2>2, <3>2 DEF AnswerAt
      <4>3. AnswerAt(b, 1) = IF Landed2(c, i + 1)
                             THEN AnswerTo(b.frame, Head(b.shift)) ELSE <<>>
        <5>1. CASE ~Landed1(b, 1)
          BY <2>3, <5>1 DEF AnswerAt
        <5>2. CASE Landed1(b, 1) /\ Len(b.frame) + 1 = FrameLen
          BY <2>3, <5>2 DEF AnswerAt
        <5>3. CASE Landed1(b, 1) /\ Len(b.frame) + 1 # FrameLen
          <6>1. AnswerAt(b, 1) = <<>>
            BY <2>2, <5>3 DEF AnswerAt
          <6>2. b.shift # <<>>
            BY <5>3 DEF Landed1
          <6>3. /\ b.frame \in Seq(Bytes) /\ Len(b.frame) \in Nat /\ Len(b.frame) < FrameLen
                /\ Head(b.shift) \in Bytes
            BY <6>2, OutNumbers
          <6>4. Len(b.frame) + 1 < FrameLen
            BY <1>1, <5>3, <6>3
          <6>5. AnswerTo(b.frame, Head(b.shift)) = <<>>
            BY <6>3, <6>4, FrameAfterLen
          <6> QED BY <6>1, <6>5
        <5> QED BY <5>1, <5>2, <5>3
      <4> QED BY <4>1, <4>2, <4>3
    <3> QED BY <3>1, <3>2
  <2>6. OutIs(c, i + 1, e)
    <3>1. CASE Landed1(b, 1)
      <4>1. /\ e.shift = <<>> /\ e.holding = <<>> /\ e.frame = Frame1(b) /\ e.out_cycles = 0
        BY <2>1, <2>2, <3>1 DEF OutIs
      <4>2. Frame1(b) = FrameAfter(Frame1(c), Head(c.holding))
        BY <2>1 DEF Frame1
      <4> QED BY <2>2, <2>3, <3>1, <4>1, <4>2 DEF OutIs
    <3>2. CASE ~Landed1(b, 1)
      <4>1. /\ e.shift = c.holding /\ e.holding = <<>> /\ e.frame = Frame1(c)
            /\ e.out_cycles = IF c.holding = <<>> THEN 0 ELSE b.out_cycles - 1
        BY <2>1, <3>2 DEF OutIs
      <4>2. c.holding # <<>> => b.out_cycles - 1 = (c.out_cycles + ByteTime) - (i + 1)
        BY <1>1, <2>1, SMTT(30)
      <4> QED BY <2>2, <2>3, <3>2, <4>1, <4>2 DEF OutIs
    <3> QED BY <3>1, <3>2
  <2> QED BY <2>4, <2>5, <2>6
<1>4. CASE Landed2(c, i)
  <2>1. /\ b.shift = <<>> /\ b.holding = <<>> /\ b.out_cycles = 0
        /\ b.frame = FrameAfter(Frame1(c), Head(c.holding))
    BY <1>4 DEF OutIs
  <2>2. ~Landed1(b, 1) /\ ~Landed2(b, 1)
    BY <2>1 DEF Landed1, Landed2
  <2>3. Landed2(c, i + 1) /\ Landed1(c, i + 1) /\ Landed1(c, i)
    BY <1>1, <1>4 DEF Landed1, Landed2
  <2>4. RaisedAt(b, 1) = {} /\ AnswerAt(b, 1) = <<>>
    BY <2>2 DEF RaisedAt, AnswerAt
  <2>5. RaisedAt(c, i + 1) = RaisedAt(c, i) /\ AnswerAt(c, i + 1) = AnswerAt(c, i)
    BY <1>4, <2>3 DEF RaisedAt, AnswerAt
  <2>6. e.shift = <<>> /\ e.holding = <<>> /\ e.out_cycles = 0 /\ e.frame = b.frame
    BY <2>1, <2>2 DEF OutIs
  <2>7. OutIs(c, i + 1, e)
    BY <2>1, <2>3, <2>6 DEF OutIs
  <2> QED BY <2>4, <2>5, <2>7
<1> QED BY <1>2, <1>3, <1>4

(* Replies that join the queue one after the other, when one is silent.    *)
LEMMA InQueuedTwice ==
  ASSUME NEW c, NEW d, NEW e, NEW r, NEW s,
         InQueued(c, d, r), InQueued(d, e, s), r = <<>> \/ s = <<>>
  PROVE  InQueued(c, e, IF s = <<>> THEN r ELSE s)
<1>1. CASE s = <<>>
  BY <1>1 DEF InQueued, SameIn
<1>2. CASE s # <<>> /\ r = <<>>
  BY <1>2 DEF InQueued, SameIn
<1> QED BY <1>1, <1>2

(* %SERIAL-OUT-ADVANCE has the closed form.                                *)
LEMMA OutAdvanceIs ==
  ASSUME NEW c, Sound(c), "tx" \in c.pending, NEW n \in Nat, NEW d, d = OutAdvance(c, n)
  PROVE  OutIs(c, n, d) /\ Latched(c, d, RaisedAt(c, n)) /\ InQueued(c, d, AnswerAt(c, n))
<1> DEFINE j == c.out_cycles - n
           e == [c EXCEPT !.out_cycles = j]
           f == OutSettle(e)
           r == AnswerTo(c.frame, Head(c.shift))
           s == AnswerTo(Frame1(c), Head(c.holding))
<1>1. /\ c.out_cycles \in Int /\ ByteTime \in Nat \ {0} /\ FrameLen \in Nat /\ FrameLen > 2
      /\ c.shift # <<>> => c.out_cycles >= 1
      /\ c.shift = <<>> => c.holding = <<>> /\ c.out_cycles = 0
      /\ c.frame \in Seq(Bytes) /\ Len(c.frame) \in Nat /\ Len(c.frame) < FrameLen
      /\ c.shift # <<>> => Head(c.shift) \in Bytes
      /\ c.holding # <<>> => Head(c.holding) \in Bytes
  BY OutNumbers
<1>2. c \in Chip /\ c.shift # <<>> /\ SoundOut(c) /\ SettledIn(c) /\ j \in Int /\ j <= c.out_cycles
  BY <1>1 DEF Sound, SettledOut, SoundOut
<1>3. d = OutSettle(f)
  BY DEF OutAdvance
<1>4. Landed1(c, n) <=> j <= 0
  BY <1>1, <1>2 DEF Landed1
<1>5. Landed2(c, n) <=> c.holding # <<>> /\ j + ByteTime <= 0
  BY <1>1, <1>2 DEF Landed2
<1> HIDE DEF j
<1>6. /\ e \in Chip /\ SameIn(c, e) /\ SameIrq(c, e) /\ e.out_cycles = j
      /\ e.shift = c.shift /\ e.holding = c.holding /\ e.pending = c.pending
      /\ e.frame = c.frame
  BY <1>2 DEF Chip, SameIn, SameIrq
<1> HIDE DEF e
<1>7. SettledIn(e) /\ Latched(c, e, {}) /\ InQueued(c, e, <<>>)
  BY <1>2, <1>6, LatchedNone DEF SameIn, SettledIn, SoundIn, InFlight, InQueued
<1>8. SoundOut(e)
  <2>1. c.out_cycles <= ByteTime
    BY <1>2 DEF SoundOut
  <2>2. j <= ByteTime
    BY <1>1, <1>2, <2>1
  <2> QED BY <1>2, <1>6, <2>2 DEF SoundOut
<1>9. CASE ~Landed1(c, n)
  <2>1. f = e /\ d = e
    BY <1>2, <1>3, <1>4, <1>6, <1>9 DEF OutSettle
  <2>2. ~Landed2(c, n)
    BY <1>1, <1>2, <1>4, <1>5, <1>9
  <2>3. RaisedAt(c, n) = {} /\ AnswerAt(c, n) = <<>>
    BY <1>9, <2>2 DEF RaisedAt, AnswerAt
  <2>4. OutIs(c, n, d)
    BY <1>2, <1>6, <1>9, <2>1, <2>2 DEF OutIs, j
  <2> QED BY <1>7, <2>1, <2>3, <2>4
<1>10. CASE Landed1(c, n)
  <2> DEFINE R == IF c.holding = <<>> THEN {"done"} ELSE {"needed"}
  <2>1. f = OutLands(e)
    BY <1>2, <1>4, <1>6, <1>10 DEF OutSettle
  <2>2. /\ f \in Chip /\ SoundOut(f) /\ SettledIn(f) /\ Latched(e, f, R)
        /\ f.shift = c.holding /\ f.holding = <<>> /\ f.frame = Frame1(c)
        /\ f.out_cycles = IF c.holding = <<>> THEN 0 ELSE j + ByteTime
        /\ InQueued(e, f, r)
    <3>1. j <= 0
      BY <1>4, <1>10
    <3>2. /\ f \in Chip /\ SoundOut(f) /\ SettledIn(f)
          /\ Latched(e, f, IF e.holding = <<>> THEN {"done"} ELSE {"needed"})
          /\ f.shift = e.holding /\ f.holding = <<>>
          /\ f.out_cycles = IF e.holding = <<>> THEN 0 ELSE e.out_cycles + ByteTime
          /\ f.frame = FrameAfter(e.frame, Head(e.shift))
          /\ InQueued(e, f, AnswerTo(e.frame, Head(e.shift)))
      <4> HIDE DEF f
      <4> QED BY <1>2, <1>6, <1>7, <1>8, <2>1, <3>1, OutLandsFields
    <3> QED BY <1>6, <3>2 DEF Frame1
  <2> HIDE DEF f
  <2>3. Latched(c, f, R) /\ InQueued(c, f, r)
    <3>1. {} \cup R = R
      OBVIOUS
    <3>2. Latched(c, f, {} \cup R)
      BY <1>7, <2>2, LatchedTwice
    <3>3. InQueued(c, f, IF r = <<>> THEN <<>> ELSE r)
      <4> HIDE DEF r
      <4> QED BY <1>7, <2>2, InQueuedTwice
    <3>4. (IF r = <<>> THEN <<>> ELSE r) = r
      OBVIOUS
    <3> QED BY <3>1, <3>2, <3>3, <3>4
  <2>4. Len(c.frame) + 1 = FrameLen => s = <<>>
    <3>1. CASE c.holding # <<>>
      <4>1. Len(c.frame) + 1 = FrameLen => Frame1(c) \in Seq(Bytes) /\ Len(Frame1(c)) = 0
        BY <1>1, <1>2, FrameAfterLen DEF Frame1
      <4>2. Head(c.holding) \in Bytes /\ 0 < FrameLen /\ 0 + 1 < FrameLen
        BY <1>1, <3>1
      <4>3. ASSUME NEW g \in Seq(Bytes), NEW b \in Bytes, Len(g) = 0 PROVE AnswerTo(g, b) = <<>>
        BY <4>2, <4>3, FrameAfterLen
      <4> QED BY <4>1, <4>2, <4>3
    <3>2. CASE c.holding = <<>>
      <4>1. Len(c.frame) + 1 = FrameLen => Len(Frame1(c)) = 0
        BY <1>1, <1>2, FrameAfterLen DEF Frame1
      <4> QED BY <1>1, <4>1 DEF AnswerTo
    <3> QED BY <3>1, <3>2
  <2>5. Len(c.frame) + 1 # FrameLen => r = <<>>
    BY <1>1, <1>2, FrameAfterLen
  <2>6. CASE ~Landed2(c, n)
    <3>1. d = f
      BY <1>1, <1>2, <1>3, <1>5, <2>2, <2>6 DEF OutSettle
    <3>2. RaisedAt(c, n) = R
      BY <1>10, <2>6 DEF RaisedAt
    <3>3. AnswerAt(c, n) = r
      BY <1>10, <2>5, <2>6 DEF AnswerAt
    <3>4. c.holding # <<>> => (c.out_cycles + ByteTime) - n = j + ByteTime
      BY <1>1 DEF j
    <3>5. OutIs(c, n, d)
      BY <1>10, <2>2, <2>6, <3>1, <3>4 DEF OutIs
    <3> QED BY <2>3, <3>1, <3>2, <3>3, <3>5
  <2>7. CASE Landed2(c, n)
    <3>1. d = OutLands(f) /\ c.holding # <<>> /\ f.out_cycles <= 0 /\ f.shift # <<>>
      BY <1>1, <1>2, <1>3, <1>5, <2>2, <2>7 DEF OutSettle
    <3>2. /\ d \in Chip /\ Latched(f, d, {"done"})
          /\ d.shift = <<>> /\ d.holding = <<>> /\ d.out_cycles = 0
          /\ d.frame = FrameAfter(Frame1(c), Head(c.holding))
          /\ InQueued(f, d, s)
      BY <2>2, <3>1, OutLandsFields
    <3>3. RaisedAt(c, n) = R \cup {"done"}
      <4>1. R = {"needed"}
        BY <3>1
      <4>2. RaisedAt(c, n) = {"needed", "done"}
        BY <2>7 DEF RaisedAt
      <4> QED BY <4>1, <4>2
    <3>4. Latched(c, d, R \cup {"done"})
      <4> HIDE DEF R
      <4> QED BY <2>3, <3>2, LatchedTwice
    <3>5. AnswerAt(c, n) = IF s = <<>> THEN r ELSE s
      BY <1>10, <2>4, <2>5, <2>7 DEF AnswerAt
    <3>6. InQueued(c, d, IF s = <<>> THEN r ELSE s)
      <4> HIDE DEF r, s
      <4> QED BY <2>3, <2>4, <2>5, <3>2, InQueuedTwice
    <3>7. OutIs(c, n, d)
      BY <1>10, <2>7, <3>2 DEF OutIs
    <3> QED BY <3>3, <3>4, <3>5, <3>6, <3>7
  <2> QED BY <2>6, <2>7
<1> QED BY <1>9, <1>10

(* A transmitter at rest has the closed form as well.                      *)
LEMMA OutRestIs ==
  ASSUME NEW c, Sound(c), "tx" \notin c.pending, NEW n \in Nat
  PROVE  OutIs(c, n, c) /\ RaisedAt(c, n) = {} /\ AnswerAt(c, n) = <<>>
         /\ Latched(c, c, {}) /\ InQueued(c, c, <<>>)
<1>1. c.shift = <<>> /\ c.holding = <<>> /\ c.out_cycles = 0 /\ c \in Chip
  BY DEF Sound, SettledOut, SoundOut
<1>2. ~Landed1(c, n) /\ ~Landed2(c, n)
  BY <1>1 DEF Landed1, Landed2
<1> QED BY <1>1, <1>2, LatchedNone
        DEF OutIs, RaisedAt, AnswerAt, InQueued, SameIn, SameIrq

(* A chip is its three parts.                                              *)
LEMMA ChipEqual ==
  ASSUME NEW c \in Chip, NEW d \in Chip, SameOut(c, d), SameIn(c, d), SameIrq(c, d)
  PROVE  c = d
<1>1. c.pending = d.pending
  <2>1. c.pending \in SUBSET {"tx", "rx"} /\ d.pending \in SUBSET {"tx", "rx"}
    BY DEF Chip
  <2>2. "tx" \in d.pending <=> "tx" \in c.pending
    BY DEF SameOut
  <2>3. "rx" \in d.pending <=> "rx" \in c.pending
    BY DEF SameIn
  <2> QED BY <2>1, <2>2, <2>3
<1>2. /\ c.irqen = d.irqen /\ c.irqst = d.irqst /\ c.pin = d.pin
      /\ c.shift = d.shift /\ c.holding = d.holding /\ c.out_cycles = d.out_cycles
      /\ c.frame = d.frame /\ c.in = d.in /\ c.in_cycles = d.in_cycles
      /\ c.queue = d.queue /\ c.serin = d.serin /\ c.unread = d.unread
      /\ c.overrun = d.overrun /\ c.owed = d.owed
  BY DEF SameOut, SameIn, SameIrq
<1>3. ASSUME NEW x \in Chip
      PROVE  x = [irqen |-> x.irqen, irqst |-> x.irqst, pin |-> x.pin,
                  shift |-> x.shift, holding |-> x.holding, out_cycles |-> x.out_cycles,
                  in |-> x.in, in_cycles |-> x.in_cycles, queue |-> x.queue,
                  serin |-> x.serin, unread |-> x.unread, overrun |-> x.overrun,
                  pending |-> x.pending, frame |-> x.frame, owed |-> x.owed]
  BY <1>3 DEF Chip
<1>4. /\ c = [irqen |-> c.irqen, irqst |-> c.irqst, pin |-> c.pin,
              shift |-> c.shift, holding |-> c.holding, out_cycles |-> c.out_cycles,
              in |-> c.in, in_cycles |-> c.in_cycles, queue |-> c.queue,
              serin |-> c.serin, unread |-> c.unread, overrun |-> c.overrun,
              pending |-> c.pending, frame |-> c.frame, owed |-> c.owed]
      /\ d = [irqen |-> d.irqen, irqst |-> d.irqst, pin |-> d.pin,
              shift |-> d.shift, holding |-> d.holding, out_cycles |-> d.out_cycles,
              in |-> d.in, in_cycles |-> d.in_cycles, queue |-> d.queue,
              serin |-> d.serin, unread |-> d.unread, overrun |-> d.overrun,
              pending |-> d.pending, frame |-> d.frame, owed |-> d.owed]
  BY <1>3, Zenon
<1> QED BY <1>1, <1>2, <1>4

(* The receiver with its countdown at K.                                   *)
Counted(c, k) == [c EXCEPT !.in_cycles = k]

LEMMA CountedFields ==
  ASSUME NEW c \in Chip, SoundIn(c), "rx" \in c.pending, NEW k \in Int, k <= c.in_cycles,
         NEW d, d = Counted(c, k)
  PROVE  /\ d \in Chip /\ SoundIn(d) /\ SameOut(c, d) /\ SameIrq(c, d)
         /\ d.in = c.in /\ d.in_cycles = k /\ d.queue = c.queue /\ d.owed = c.owed
         /\ d.serin = c.serin /\ d.unread = c.unread /\ d.overrun = c.overrun
         /\ "rx" \in d.pending
<1>1. /\ d \in Chip /\ SameOut(c, d) /\ SameIrq(c, d) /\ d.pending = c.pending
      /\ d.in = c.in /\ d.in_cycles = k /\ d.queue = c.queue /\ d.owed = c.owed
      /\ d.serin = c.serin /\ d.unread = c.unread /\ d.overrun = c.overrun
  BY DEF Counted, Chip, SameOut, SameIrq
<1>2. InFlight(d) = InFlight(c)
  BY <1>1 DEF InFlight
<1>3. c.in_cycles \in Int /\ c.in_cycles <= (ByteTime + AckDelay) + CompleteDelay
  BY DEF Chip, SoundIn
<1>4. k <= (ByteTime + AckDelay) + CompleteDelay
  BY <1>3, DelaysAssumption
<1>5. c.owed = InFlight(c) \o BytesOf(c.queue)
  BY DEF SoundIn
<1>6. SoundIn(d)
  BY <1>1, <1>2, <1>4, <1>5 DEF SoundIn
<1> QED BY <1>1, <1>6

(* The byte lands a cycle earlier, and the next is a cycle further.        *)
LEMMA LandsEarlier ==
  ASSUME NEW c \in Chip, SoundIn(c), "rx" \in c.pending, c.in_cycles <= 0,
         NEW d, d = InLands(c), NEW e, e = InLands(Counted(c, c.in_cycles - 1))
  PROVE  /\ "rx" \notin d.pending => e = d
         /\ "rx" \in d.pending => e = Counted(d, d.in_cycles - 1)
<1> DEFINE b == Counted(c, c.in_cycles - 1)
<1>1. c.in_cycles \in Int /\ c.in_cycles - 1 \in Int /\ c.in_cycles - 1 <= c.in_cycles
      /\ c.in_cycles - 1 <= 0
  BY DEF Chip
<1>2. /\ b \in Chip /\ SoundIn(b) /\ SameOut(c, b) /\ SameIrq(c, b)
      /\ b.in = c.in /\ b.in_cycles = c.in_cycles - 1 /\ b.queue = c.queue /\ b.owed = c.owed
      /\ b.serin = c.serin /\ b.unread = c.unread /\ b.overrun = c.overrun
      /\ "rx" \in b.pending
  BY <1>1, CountedFields
<1> HIDE DEF b
<1>3. /\ d \in Chip /\ SameOut(c, d) /\ Latched(c, d, {"ready"}) /\ SoundIn(d)
      /\ d.owed = Tail(c.owed) /\ d.serin = c.in /\ d.unread = TRUE
      /\ d.overrun = (c.overrun \/ c.unread)
      /\ c.queue # <<>> =>
           /\ d.in = Head(c.queue).byte /\ d.queue = Tail(c.queue) /\ "rx" \in d.pending
           /\ d.in_cycles = (Head(c.queue).gap + ByteTime) + c.in_cycles
      /\ c.queue = <<>> => /\ d.in = c.in /\ d.queue = <<>> /\ d.in_cycles = 0
                          /\ "rx" \notin d.pending
  <2>1. /\ d \in Chip /\ SameOut(c, d) /\ Latched(c, d, {"ready"}) /\ SoundIn(d)
        /\ d.owed = Tail(c.owed) /\ d.serin = c.in /\ d.unread = TRUE
        /\ d.overrun = (c.overrun \/ c.unread)
    BY InLandsFields
  <2>2. /\ c.queue # <<>> =>
             /\ d.in = Head(c.queue).byte /\ d.queue = Tail(c.queue) /\ "rx" \in d.pending
             /\ d.in_cycles = (Head(c.queue).gap + ByteTime) + c.in_cycles
        /\ c.queue = <<>> => /\ d.in = c.in /\ d.queue = <<>> /\ d.in_cycles = 0
                            /\ "rx" \notin d.pending
    BY InLandsFields, ZenonT(30)
  <2> QED BY <2>1, <2>2, Zenon
<1>4. /\ e \in Chip /\ SameOut(b, e) /\ Latched(b, e, {"ready"}) /\ SoundIn(e)
      /\ e.owed = Tail(b.owed) /\ e.serin = b.in /\ e.unread = TRUE
      /\ e.overrun = (b.overrun \/ b.unread)
      /\ b.queue # <<>> =>
           /\ e.in = Head(b.queue).byte /\ e.queue = Tail(b.queue) /\ "rx" \in e.pending
           /\ e.in_cycles = (Head(b.queue).gap + ByteTime) + b.in_cycles
      /\ b.queue = <<>> => /\ e.in = b.in /\ e.queue = <<>> /\ e.in_cycles = 0
                          /\ "rx" \notin e.pending
  <2>1. e = InLands(b) /\ b.in_cycles <= 0
    BY <1>1, <1>2 DEF b
  <2> QED BY <1>2, <2>1, InLandsFields
<1>5. SameOut(d, e)
  BY <1>2, <1>3, <1>4 DEF SameOut
<1>6. SameIrq(d, e)
  <2>1. d.pin \in BOOLEAN /\ e.pin \in BOOLEAN
    BY <1>3, <1>4 DEF Chip
  <2> QED BY <1>2, <1>3, <1>4, <2>1 DEF SameIrq, Latched
<1>7. CASE c.queue = <<>>
  <2>1. SameIn(d, e)
    BY <1>2, <1>3, <1>4, <1>7 DEF SameIn
  <2>2. d = e
    BY <1>3, <1>4, <1>5, <1>6, <2>1, ChipEqual
  <2> QED BY <1>3, <1>7, <2>2
<1>8. CASE c.queue # <<>>
  <2> DEFINE f == Counted(d, d.in_cycles - 1)
  <2>1. d.in_cycles \in Int /\ d.in_cycles - 1 \in Int /\ d.in_cycles - 1 <= d.in_cycles
    <3>1. d \in Chip
      BY <1>3
    <3>2. d.in_cycles \in Int
      BY <3>1 DEF Chip
    <3> QED BY <3>2
  <2>2. "rx" \in d.pending
    BY <1>3, <1>8
  <2>3. /\ f \in Chip /\ SameOut(d, f) /\ SameIrq(d, f)
        /\ f.in = d.in /\ f.in_cycles = d.in_cycles - 1 /\ f.queue = d.queue
        /\ f.owed = d.owed /\ f.serin = d.serin /\ f.unread = d.unread
        /\ f.overrun = d.overrun /\ "rx" \in f.pending
    BY <1>3, <2>1, <2>2, CountedFields
  <2> HIDE DEF f
  <2>4. Head(c.queue).gap + ByteTime \in Int
    <3>1. c.queue \in Seq(Entries)
      BY DEF Chip
    <3>2. Head(c.queue) \in Entries
      BY <1>8, <3>1, BytesOfHead
    <3> QED BY <3>2, GapInRange, DelaysAssumption
  <2>5. e.in_cycles = f.in_cycles
    <3>1. /\ d.in_cycles = (Head(c.queue).gap + ByteTime) + c.in_cycles
          /\ e.in_cycles = (Head(c.queue).gap + ByteTime) + (c.in_cycles - 1)
      BY <1>2, <1>3, <1>4, <1>8
    <3> QED BY <1>1, <2>3, <2>4, <3>1
  <2>6. SameIn(f, e)
    <3>1. /\ f.in = e.in /\ f.queue = e.queue /\ "rx" \in e.pending /\ "rx" \in f.pending
      BY <1>2, <1>3, <1>4, <1>8, <2>3
    <3>2. /\ f.serin = e.serin /\ f.unread = e.unread /\ f.overrun = e.overrun
          /\ f.owed = e.owed
      BY <1>2, <1>3, <1>4, <2>3, ZenonT(30)
    <3> QED BY <2>5, <3>1, <3>2 DEF SameIn
  <2>7. SameOut(f, e) /\ SameIrq(f, e)
    BY <1>5, <1>6, <2>3 DEF SameOut, SameIrq
  <2>8. f = e
    BY <1>4, <2>3, <2>6, <2>7, ChipEqual
  <2> QED BY <2>2, <2>8 DEF f
<1> QED BY <1>7, <1>8

Earlier(c) == Counted(c, c.in_cycles - 1)

LEMMA EarlierFields ==
  ASSUME NEW c \in Chip, SoundIn(c), "rx" \in c.pending, NEW d, d = Earlier(c)
  PROVE  /\ d \in Chip /\ SoundIn(d) /\ SameOut(c, d) /\ SameIrq(c, d)
         /\ d.in = c.in /\ d.in_cycles = c.in_cycles - 1 /\ d.queue = c.queue
         /\ d.owed = c.owed /\ d.serin = c.serin /\ d.unread = c.unread
         /\ d.overrun = c.overrun /\ "rx" \in d.pending
<1>1. c.in_cycles \in Int
  BY DEF Chip
<1>2. c.in_cycles - 1 \in Int /\ c.in_cycles - 1 <= c.in_cycles
  BY <1>1
<1> QED BY <1>2, CountedFields DEF Earlier

(* A settled receiver a cycle later is settled by one turn.                *)
LEMMA EarlierSettles ==
  ASSUME NEW c \in Chip, SettledIn(c), "rx" \in c.pending, NEW b, b = Earlier(c)
  PROVE  /\ SettledIn(InSettle(b)) /\ InSettle(b) \in Chip
         /\ c.in_cycles > 1 => InSettle(b) = b
         /\ c.in_cycles = 1 => InSettle(b) = InLands(b)
<1>1. c.in_cycles \in Int /\ c.in_cycles > 0 /\ SoundIn(c)
  BY DEF Chip, SettledIn
<1>2. /\ b \in Chip /\ SoundIn(b) /\ b.in_cycles = c.in_cycles - 1 /\ b.queue = c.queue
      /\ "rx" \in b.pending
  BY <1>1, EarlierFields
<1>3. CASE c.in_cycles > 1
  <2>1. b.in_cycles > 0
    BY <1>1, <1>2, <1>3
  <2>2. InSettle(b) = b
    BY <2>1 DEF InSettle
  <2> QED BY <1>1, <1>2, <1>3, <2>1, <2>2 DEF SettledIn
<1>4. CASE c.in_cycles = 1
  <2> DEFINE d == InLands(b)
  <2>1. b.in_cycles = 0 /\ b.in_cycles <= 0
    BY <1>2, <1>4
  <2>2. InSettle(b) = d
    BY <1>2, <2>1 DEF InSettle
  <2>3. d \in Chip /\ SoundIn(d)
    BY <1>2, <2>1, InLandsFields
  <2>4. /\ b.queue # <<>> => d.in_cycles = (Head(b.queue).gap + ByteTime) + b.in_cycles
        /\ b.queue = <<>> => "rx" \notin d.pending
    BY <1>2, <2>1, InLandsFields
  <2>5. b.queue # <<>> => d.in_cycles > 0
    <3> SUFFICES ASSUME b.queue # <<>> PROVE d.in_cycles > 0
      OBVIOUS
    <3>1. b.queue \in Seq(Entries)
      BY <1>2 DEF Chip
    <3>2. Head(b.queue) \in Entries
      BY <3>1, BytesOfHead
    <3>3. Head(b.queue).gap \in Nat
      BY <3>2, GapInRange
    <3> HIDE DEF d
    <3> QED BY <2>1, <2>4, <3>3, DelaysAssumption
  <2>6. SettledIn(d)
    BY <2>3, <2>4, <2>5 DEF SettledIn
  <2> QED BY <1>4, <2>2, <2>3, <2>6
<1> QED BY <1>1, <1>3, <1>4

(* The loop from a cycle later runs beside the loop: a cycle further on the*)
(* same byte, or one turn further.                                         *)
Beside(c, d) ==
    /\ "rx" \notin c.pending => d = c
    /\ "rx" \in c.pending =>
          d = Earlier(c) \/ (SettledIn(c) /\ d = InSettle(Earlier(c)))

LEMMA BesideStays ==
  ASSUME NEW c \in SoundChips, NEW d, Beside(c, d)
  PROVE  Beside(InSettle(c), InSettle(d))
<1>1. c \in Chip /\ SoundIn(c) /\ c.in_cycles \in Int
  BY DEF SoundChips, Chip
<1>2. CASE "rx" \notin c.pending
  BY <1>2 DEF Beside, InSettle
<1>3. CASE "rx" \in c.pending /\ c.in_cycles > 0
  <2>1. InSettle(c) = c /\ SettledIn(c)
    BY <1>1, <1>3 DEF InSettle, SettledIn
  <2>2. CASE d = Earlier(c)
    BY <1>3, <2>1, <2>2 DEF Beside
  <2>3. CASE d = InSettle(Earlier(c))
    <3>1. SettledIn(d)
      BY <1>1, <1>3, <2>1, <2>3, EarlierSettles
    <3>2. InSettle(d) = d
      BY <3>1 DEF SettledIn, InSettle
    <3> QED BY <1>3, <2>1, <2>3, <3>2 DEF Beside
  <2> QED BY <1>3, <2>2, <2>3 DEF Beside
<1>4. CASE "rx" \in c.pending /\ c.in_cycles <= 0
  <2>1. d = Earlier(c)
    BY <1>1, <1>4 DEF Beside, SettledIn
  <2>2. d.in_cycles = c.in_cycles - 1 /\ "rx" \in d.pending
    BY <1>1, <1>4, <2>1, EarlierFields
  <2>3. InSettle(c) = InLands(c) /\ InSettle(d) = InLands(d)
    BY <1>1, <1>4, <2>2 DEF InSettle
  <2>4. /\ "rx" \notin InLands(c).pending => InLands(d) = InLands(c)
        /\ "rx" \in InLands(c).pending => InLands(d) = Earlier(InLands(c))
    BY <1>1, <1>4, <2>1, LandsEarlier DEF Earlier
  <2> QED BY <2>3, <2>4 DEF Beside
<1> QED BY <1>1, <1>2, <1>3, <1>4

(* Once settled, the loop stays.                                           *)
LEMMA LoopStays ==
  ASSUME NEW c \in SoundChips, NEW m \in Nat, m = Len(c.queue) + 1,
         NEW i \in 0..m, SettledIn(InSettled(c)[i])
  PROVE  InSettled(c)[m] = InSettled(c)[i]
<1> DEFINE w == InSettled(c)
           H == {j \in 0..m : j >= i => w[j] = w[i]}
<1>1. /\ w \in [0..m -> SoundChips] /\ w[0] = c
      /\ \A j \in 1..m : w[j] = InSettle(w[j - 1])
  BY InSettledIsIteration
<1>2. SettledIn(w[i])
  OBVIOUS
<1> HIDE DEF w
<1>3. InSettle(w[i]) = w[i]
  BY <1>2 DEF InSettle, SettledIn
<1>4. 0 \in H
  OBVIOUS
<1>5. ASSUME NEW j \in 1..m, j - 1 \in H PROVE j \in H
  <2>1. CASE j > i
    <3>1. w[j - 1] = w[i]
      BY <1>5, <2>1
    <3>2. w[j] = InSettle(w[j - 1])
      BY <1>1
    <3> QED BY <1>3, <3>1, <3>2
  <2>2. CASE j <= i
    BY <2>2
  <2> QED BY <2>1, <2>2
<1>6. \A j \in 0..m : j \in H
  <2> HIDE DEF H
  <2> QED BY <1>4, <1>5, Induction
<1>7. m \in 0..m /\ m >= i
  OBVIOUS
<1> QED BY <1>6, <1>7 DEF w

LEMMA InAdvanceIsLoop ==
  ASSUME NEW c \in Chip, SettledIn(c), "rx" \in c.pending, NEW n \in Nat,
         NEW e, e = Counted(c, c.in_cycles - n)
  PROVE  /\ InAdvance(c, n) = InSettled(e)[Len(c.queue) + 1]
         /\ e \in SoundChips /\ e.queue = c.queue /\ e.in_cycles = c.in_cycles - n
         /\ "rx" \in e.pending /\ Len(c.queue) + 1 \in Nat
         /\ InSettled(e) \in [0..(Len(c.queue) + 1) -> SoundChips] /\ InSettled(e)[0] = e
         /\ \A i \in 1..(Len(c.queue) + 1) : InSettled(e)[i] = InSettle(InSettled(e)[i - 1])
<1>1. c.in_cycles \in Int /\ c.queue \in Seq(Entries) /\ SoundIn(c)
  BY DEF Chip, SettledIn
<1>2. c.in_cycles - n \in Int /\ c.in_cycles - n <= c.in_cycles
  BY <1>1
<1>3. /\ e \in Chip /\ SoundIn(e) /\ e.queue = c.queue /\ e.in_cycles = c.in_cycles - n
      /\ "rx" \in e.pending
  BY <1>1, <1>2, CountedFields
<1>4. Len(c.queue) \in Nat /\ Len(c.queue) + 1 \in Nat
  BY <1>1, LenProperties
<1>5. InAdvance(c, n) = InSettled(e)[Len(c.queue) + 1]
  BY DEF InAdvance, Counted
<1>6. e \in SoundChips
  BY <1>3 DEF SoundChips
<1>7. /\ InSettled(e) \in [0..(Len(c.queue) + 1) -> SoundChips] /\ InSettled(e)[0] = e
      /\ \A i \in 1..(Len(c.queue) + 1) : InSettled(e)[i] = InSettle(InSettled(e)[i - 1])
  BY <1>3, <1>4, <1>6, InSettledIsIteration
<1> QED BY <1>3, <1>4, <1>5, <1>6, <1>7

(* No cycle, and one.                                                      *)
LEMMA NoCycle ==
  ASSUME NEW c \in Chip, SettledIn(c), "rx" \in c.pending
  PROVE  InAdvance(c, 0) = c
<1> DEFINE e == Counted(c, c.in_cycles - 0)
           m == Len(c.queue) + 1
<1>1. c.in_cycles \in Int /\ c.in_cycles - 0 = c.in_cycles
  BY DEF Chip
<1>2. /\ e \in Chip /\ SameOut(c, e) /\ SameIrq(c, e)
      /\ e.in = c.in /\ e.in_cycles = c.in_cycles - 0 /\ e.queue = c.queue /\ e.owed = c.owed
      /\ e.serin = c.serin /\ e.unread = c.unread /\ e.overrun = c.overrun
      /\ "rx" \in e.pending
  BY <1>1, CountedFields DEF SettledIn
<1>3. InAdvance(c, 0) = InSettled(e)[m] /\ e \in SoundChips /\ m \in Nat /\ InSettled(e)[0] = e
  BY InAdvanceIsLoop
<1> HIDE DEF e
<1>4. e = c
  <2>1. SameIn(c, e)
    BY <1>1, <1>2 DEF SameIn
  <2> QED BY <1>2, <2>1, ChipEqual
<1>5. InSettled(e)[m] = InSettled(e)[0]
  <2>1. SettledIn(InSettled(e)[0]) /\ 0 \in 0..m /\ m = Len(e.queue) + 1
    BY <1>2, <1>3, <1>4
  <2> QED BY <1>3, <2>1, LoopStays
<1> QED BY <1>3, <1>4, <1>5

LEMMA OneCycle ==
  ASSUME NEW c \in Chip, SettledIn(c), "rx" \in c.pending
  PROVE  InAdvance(c, 1) = InSettle(Earlier(c))
<1> DEFINE e == Counted(c, c.in_cycles - 1)
           m == Len(c.queue) + 1
           w == InSettled(e)
<1>1. e = Earlier(c)
  BY DEF Earlier
<1>2. /\ InAdvance(c, 1) = w[m] /\ e \in SoundChips /\ e.queue = c.queue /\ m \in Nat
      /\ w[0] = e /\ \A i \in 1..m : w[i] = InSettle(w[i - 1])
  <2> DEFINE k == 1
  <2>1. k \in Nat /\ e = Counted(c, c.in_cycles - k)
    OBVIOUS
  <2> HIDE DEF e, k
  <2>2. InAdvance(c, k) = w[m] /\ e \in SoundChips /\ e.queue = c.queue /\ m \in Nat
    BY <2>1, InAdvanceIsLoop
  <2>3. w[0] = e /\ \A i \in 1..m : w[i] = InSettle(w[i - 1])
    BY <2>1, InAdvanceIsLoop
  <2> QED BY <2>2, <2>3 DEF k
<1>3. SettledIn(InSettle(e))
  BY <1>1, EarlierSettles
<1>4. Len(c.queue) \in Nat /\ 1 \in 1..m /\ 1 \in 0..m /\ 1 - 1 = 0
  <2>1. Len(c.queue) \in Nat
    BY LenProperties DEF Chip
  <2> QED BY <2>1
<1> HIDE DEF e
<1>5. w[1] = InSettle(e)
  BY <1>2, <1>4
<1>6. w[m] = w[1]
  <2>1. m = Len(e.queue) + 1 /\ SettledIn(w[1])
    BY <1>2, <1>3, <1>5
  <2> QED BY <1>2, <1>4, <2>1, LoopStays
<1> QED BY <1>2, <1>5, <1>1, <1>6

(* %SERIAL-IN-ADVANCE by one cycle more is that cycle on top, for as long  *)
(* as a byte is in flight.                                                 *)
InTick(c) == IF "rx" \in c.pending THEN InAdvance(c, 1) ELSE c

LEMMA InAdvanceAdds ==
  ASSUME NEW c \in Chip, SettledIn(c), "rx" \in c.pending, NEW n \in Nat
  PROVE  InAdvance(c, n + 1) = InTick(InAdvance(c, n))
<1> DEFINE e == Counted(c, c.in_cycles - n)
           b == Counted(c, c.in_cycles - (n + 1))
           m == Len(c.queue) + 1
           w == InSettled(e)
           v == InSettled(b)
           d == w[m]
           H == {i \in 0..m : Beside(w[i], v[i])}
<1>1. c.in_cycles \in Int /\ n + 1 \in Nat /\ SoundIn(c)
      /\ c.in_cycles - n \in Int /\ c.in_cycles - n <= c.in_cycles
      /\ c.in_cycles - (n + 1) \in Int /\ c.in_cycles - (n + 1) <= c.in_cycles
      /\ (c.in_cycles - n) - 1 = c.in_cycles - (n + 1)
  BY DEF Chip, SettledIn
<1>2. /\ InAdvance(c, n) = d /\ e \in SoundChips /\ e.queue = c.queue /\ m \in Nat
      /\ e.in_cycles = c.in_cycles - n /\ "rx" \in e.pending
      /\ w \in [0..m -> SoundChips] /\ w[0] = e
      /\ \A i \in 1..m : w[i] = InSettle(w[i - 1])
  BY InAdvanceIsLoop
<1>3. /\ InAdvance(c, n + 1) = v[m] /\ b \in SoundChips /\ b.queue = c.queue
      /\ v \in [0..m -> SoundChips] /\ v[0] = b
      /\ \A i \in 1..m : v[i] = InSettle(v[i - 1])
  <2> DEFINE k == n + 1
  <2>1. k \in Nat /\ b = Counted(c, c.in_cycles - k)
    BY <1>1
  <2> HIDE DEF b, k
  <2>2. InAdvance(c, k) = v[m] /\ b \in SoundChips /\ b.queue = c.queue
    BY <2>1, InAdvanceIsLoop
  <2>3. /\ v \in [0..m -> SoundChips] /\ v[0] = b
        /\ \A i \in 1..m : v[i] = InSettle(v[i - 1])
    BY <2>1, InAdvanceIsLoop
  <2> QED BY <2>2, <2>3 DEF k
<1>4. b = Earlier(e)
  <2> DEFINE f == Earlier(e)
  <2>1. /\ b \in Chip /\ SameOut(c, b) /\ SameIrq(c, b)
        /\ b.in = c.in /\ b.in_cycles = c.in_cycles - (n + 1) /\ b.queue = c.queue
        /\ b.owed = c.owed /\ b.serin = c.serin /\ b.unread = c.unread
        /\ b.overrun = c.overrun /\ "rx" \in b.pending
    BY <1>1, CountedFields
  <2>2. /\ e \in Chip /\ SoundIn(e) /\ SameOut(c, e) /\ SameIrq(c, e)
        /\ e.in = c.in /\ e.in_cycles = c.in_cycles - n /\ e.queue = c.queue
        /\ e.owed = c.owed /\ e.serin = c.serin /\ e.unread = c.unread
        /\ e.overrun = c.overrun /\ "rx" \in e.pending
    BY <1>1, CountedFields
  <2>3. /\ f \in Chip /\ SameOut(e, f) /\ SameIrq(e, f)
        /\ f.in = e.in /\ f.in_cycles = e.in_cycles - 1 /\ f.queue = e.queue
        /\ f.owed = e.owed /\ f.serin = e.serin /\ f.unread = e.unread
        /\ f.overrun = e.overrun /\ "rx" \in f.pending
    BY <2>2, EarlierFields
  <2> HIDE DEF b, e, f
  <2>4. SameOut(f, b) /\ SameIrq(f, b)
    BY <2>1, <2>2, <2>3 DEF SameOut, SameIrq
  <2>5. SameIn(f, b)
    BY <1>1, <2>1, <2>2, <2>3 DEF SameIn
  <2>6. f = b
    BY <2>1, <2>3, <2>4, <2>5, ChipEqual
  <2> QED BY <2>6 DEF f
<1> HIDE DEF b, e
<1>5. Beside(e, b)
  BY <1>2, <1>4 DEF Beside
<1> HIDE DEF w, v
<1>6. 0 \in H
  BY <1>2, <1>3, <1>5
<1>7. ASSUME NEW i \in 1..m, i - 1 \in H PROVE i \in H
  <2>1. i - 1 \in 0..m /\ i \in 0..m /\ Beside(w[i - 1], v[i - 1])
    BY <1>7
  <2>2. w[i - 1] \in SoundChips
    BY <1>2, <2>1
  <2>3. Beside(InSettle(w[i - 1]), InSettle(v[i - 1]))
    BY <2>1, <2>2, BesideStays
  <2>4. w[i] = InSettle(w[i - 1]) /\ v[i] = InSettle(v[i - 1])
    BY <1>2, <1>3
  <2> QED BY <2>1, <2>3, <2>4
<1>8. m \in H
  <2> HIDE DEF H
  <2>1. \A i \in 0..m : i \in H
    BY <1>2, <1>6, <1>7, Induction
  <2> QED BY <1>2, <2>1
<1>9. d \in Chip /\ SettledIn(d) /\ v[m] \in Chip /\ SettledIn(v[m])
  <2>1. d \in Chip /\ SettledIn(d)
    BY <1>2, InSettledFields DEF w
  <2>2. v[m] \in Chip /\ SettledIn(v[m])
    BY <1>3, InSettledFields DEF v
  <2> QED BY <2>1, <2>2
<1>10. v[m] = InTick(d)
  <2>1. Beside(d, v[m])
    BY <1>8
  <2> HIDE DEF d
  <2>2. CASE "rx" \notin d.pending
    BY <2>1, <2>2 DEF Beside, InTick
  <2>3. CASE "rx" \in d.pending
    <3>1. InTick(d) = InSettle(Earlier(d))
      BY <1>9, <2>3, OneCycle DEF InTick
    <3>2. InSettle(v[m]) = v[m]
      BY <1>9 DEF InSettle, SettledIn
    <3> QED BY <2>1, <2>3, <3>1, <3>2 DEF Beside
  <2> QED BY <2>2, <2>3
<1> QED BY <1>2, <1>3, <1>10

(* One cycle of the receiver.                                              *)
LEMMA InTickFields ==
  ASSUME NEW c \in Chip, SettledIn(c), NEW d, d = InTick(c)
  PROVE  /\ d \in Chip /\ SettledIn(d) /\ SameOut(c, d)
         /\ "rx" \notin c.pending => d = c
         /\ "rx" \in c.pending /\ c.in_cycles > 1 => d = Earlier(c)
         /\ "rx" \in c.pending /\ c.in_cycles = 1 => d = InLands(Earlier(c))
<1>1. CASE "rx" \notin c.pending
  BY <1>1 DEF InTick, SameOut
<1>2. CASE "rx" \in c.pending
  <2>1. d = InAdvance(c, 1) /\ d = InSettle(Earlier(c))
    BY <1>2, OneCycle DEF InTick
  <2>2. d \in Chip /\ SettledIn(d) /\ SameOut(c, d)
    BY <1>2, <2>1, InAdvanceFields
  <2>3. /\ c.in_cycles > 1 => d = Earlier(c)
        /\ c.in_cycles = 1 => d = InLands(Earlier(c))
    BY <1>2, <2>1, EarlierSettles
  <2> QED BY <1>2, <2>2, <2>3
<1> QED BY <1>1, <1>2

(* It counts, or the byte lands.                                           *)
LEMMA TickCounts ==
  ASSUME NEW c \in Chip, SettledIn(c), "rx" \in c.pending, c.in_cycles > 1,
         NEW d, d = InTick(c)
  PROVE  /\ Latched(c, d, {}) /\ "rx" \in d.pending
         /\ d.in = c.in /\ d.in_cycles = c.in_cycles - 1 /\ d.queue = c.queue
         /\ d.serin = c.serin /\ d.unread = c.unread /\ d.overrun = c.overrun
<1>1. d = Earlier(c) /\ d \in Chip
  BY InTickFields
<1>2. SoundIn(c)
  BY DEF SettledIn
<1>3. /\ SameIrq(c, d) /\ "rx" \in d.pending
      /\ d.in = c.in /\ d.in_cycles = c.in_cycles - 1 /\ d.queue = c.queue
      /\ d.serin = c.serin /\ d.unread = c.unread /\ d.overrun = c.overrun
  BY <1>1, <1>2, EarlierFields
<1>4. Latched(c, d, {})
  BY <1>1, <1>3, LatchedNone
<1> QED BY <1>3, <1>4

LEMMA InLandsOverrun ==
  \A c \in Chip : SoundIn(c) /\ "rx" \in c.pending /\ c.in_cycles <= 0 =>
     InLands(c).overrun = (c.overrun \/ c.unread)
  BY InLandsFields

LEMMA TickLands ==
  ASSUME NEW c \in Chip, SettledIn(c), "rx" \in c.pending, c.in_cycles = 1,
         NEW d, d = InTick(c)
  PROVE  /\ Latched(c, d, {"ready"}) /\ d.serin = c.in /\ d.unread = TRUE
         /\ d.overrun = (c.overrun \/ c.unread)
         /\ c.queue # <<>> =>
              /\ d.in = Head(c.queue).byte /\ d.queue = Tail(c.queue) /\ "rx" \in d.pending
              /\ d.in_cycles = Head(c.queue).gap + ByteTime
         /\ c.queue = <<>> => /\ d.in = c.in /\ d.queue = <<>> /\ d.in_cycles = 0
                             /\ "rx" \notin d.pending
<1> DEFINE b == Earlier(c)
<1>1. d = InLands(b) /\ SoundIn(c)
  BY InTickFields DEF SettledIn
<1>2. /\ b \in Chip /\ SoundIn(b) /\ SameOut(c, b) /\ SameIrq(c, b)
      /\ b.in = c.in /\ b.in_cycles = c.in_cycles - 1 /\ b.queue = c.queue
      /\ b.owed = c.owed /\ b.serin = c.serin /\ b.unread = c.unread
      /\ b.overrun = c.overrun /\ "rx" \in b.pending
  BY <1>1, EarlierFields
<1>3. b.in_cycles = 0 /\ b.in_cycles <= 0
  BY <1>2
<1> HIDE DEF b
<1>8. b \in Chip /\ SoundIn(b) /\ "rx" \in b.pending /\ b.in_cycles <= 0 /\ d = InLands(b)
  BY <1>1, <1>2, <1>3
<1>4. Latched(b, d, {"ready"}) /\ d.serin = b.in /\ d.unread = TRUE
  BY <1>8, InLandsFields
<1>9. d.overrun = (b.overrun \/ b.unread)
  BY <1>8, InLandsOverrun, Zenon
<1>5. /\ b.queue # <<>> =>
           /\ d.in = Head(b.queue).byte /\ d.queue = Tail(b.queue) /\ "rx" \in d.pending
           /\ d.in_cycles = (Head(b.queue).gap + ByteTime) + b.in_cycles
      /\ b.queue = <<>> => /\ d.in = b.in /\ d.queue = <<>> /\ d.in_cycles = 0
                          /\ "rx" \notin d.pending
  BY <1>8, InLandsFields
<1>6. Latched(c, d, {"ready"})
  BY <1>2, <1>4 DEF SameIrq, Latched
<1>7. c.queue # <<>> => (Head(c.queue).gap + ByteTime) + 0 = Head(c.queue).gap + ByteTime
  <2> SUFFICES ASSUME c.queue # <<>>
               PROVE  (Head(c.queue).gap + ByteTime) + 0 = Head(c.queue).gap + ByteTime
    OBVIOUS
  <2>1. c.queue \in Seq(Entries)
    BY DEF Chip
  <2>2. Head(c.queue) \in Entries
    BY <2>1, BytesOfHead
  <2>3. Head(c.queue).gap \in Nat
    BY <2>2, GapInRange
  <2> QED BY <2>3, DelaysAssumption
<1> QED BY <1>2, <1>3, <1>4, <1>5, <1>6, <1>7, <1>9

LEMMA TickOverrun ==
  \A c \in Chip : SettledIn(c) /\ "rx" \in c.pending /\ c.in_cycles = 1 =>
     InTick(c).overrun = (c.overrun \/ c.unread)
  BY TickLands

LEMMA JoinedHead ==
  ASSUME NEW S, NEW q \in Seq(S), NEW s \in Seq(S), q # <<>>
  PROVE  q \o s # <<>> /\ Head(q \o s) = Head(q) /\ Tail(q \o s) = Tail(q) \o s
  OBVIOUS

(***************************************************************************)
(* The receiver X that was given a reply at once beside the receiver B that*)
(* gets it when its command ends.  S is what B has not got yet of it, I the*)
(* number of cycles since, GOING whether X advances at all, and DUE whether *)
(* there is a reply.                                                       *)
(***************************************************************************)
Heard(x, b) == b.serin = x.serin /\ b.unread = x.unread /\ b.overrun = x.overrun

(* They are at the same byte, and X has the reply behind its queue.        *)
Together(x, b, s, going) ==
    /\ b.in = x.in /\ b.in_cycles = x.in_cycles /\ x.queue = b.queue \o s
    /\ "rx" \in b.pending <=> "rx" \in x.pending
    /\ "rx" \in b.pending => going
    /\ s # <<>> => "rx" \in b.pending

(* X has begun the reply less than I cycles ago, or not at all.            *)
Recent(k, i) ==
    /\ k <= ByteTime + AckDelay
    /\ k = ByteTime + AckDelay \/ k >= (ByteTime + AckDelay) - (i - 1)

Ahead(x, b, s, i, going) ==
    /\ s # <<>> /\ "rx" \notin b.pending /\ "rx" \in x.pending
    /\ x.in = Head(s).byte /\ x.queue = Tail(s) /\ Recent(x.in_cycles, i)
    /\ going => i >= 1

(* Both have.                                                              *)
Begun(x, b, s, i, due) ==
    /\ due /\ s = <<>> /\ "rx" \in b.pending /\ "rx" \in x.pending
    /\ b.in = x.in /\ b.queue = x.queue
    /\ Recent(x.in_cycles, i) /\ Recent(b.in_cycles, i) /\ i >= 1

LEMMA RecentCounts ==
  ASSUME NEW k \in Int, NEW i \in Nat, i + 1 <= AckDelay, Recent(k, i)
  PROVE  /\ k > 1 /\ Recent(k, i + 1)
         /\ i >= 1 => Recent(k - 1, i + 1)
BY DelaysAssumption DEF Recent

(* A cycle of two receivers at the same byte: X goes ahead when that byte  *)
(* lands and the reply is next.                                            *)
LEMMA TogetherTicks ==
  ASSUME NEW x \in Chip, SettledIn(x), NEW b \in Chip, SettledIn(b), Heard(x, b),
         NEW s \in Seq(Entries), s # <<>> => Head(s).gap = AckDelay,
         Together(x, b, s, TRUE), "rx" \in b.pending, NEW i \in Nat
  PROVE  /\ Heard(InTick(x), InTick(b))
         /\ \E T : Latched(x, InTick(x), T) /\ Latched(b, InTick(b), T)
         /\ \/ Together(InTick(x), InTick(b), s, TRUE)
            \/ Ahead(InTick(x), InTick(b), s, i + 1, TRUE)
<1> DEFINE y == InTick(x)
           d == InTick(b)
<1>1. /\ b.in_cycles \in Int /\ b.in_cycles >= 1 /\ x.in_cycles = b.in_cycles
      /\ x.in = b.in /\ x.queue = b.queue \o s /\ "rx" \in x.pending
      /\ b.queue \in Seq(Entries)
  BY DEF Chip, SettledIn, Together
<1>2. CASE b.in_cycles > 1
  <2>1. /\ Latched(x, y, {}) /\ "rx" \in y.pending
        /\ y.in = x.in /\ y.in_cycles = x.in_cycles - 1 /\ y.queue = x.queue
        /\ y.serin = x.serin /\ y.unread = x.unread /\ y.overrun = x.overrun
    BY <1>1, <1>2, TickCounts
  <2>2. /\ Latched(b, d, {}) /\ "rx" \in d.pending
        /\ d.in = b.in /\ d.in_cycles = b.in_cycles - 1 /\ d.queue = b.queue
        /\ d.serin = b.serin /\ d.unread = b.unread /\ d.overrun = b.overrun
    BY <1>2, TickCounts
  <2> HIDE DEF y, d
  <2>3. Heard(y, d)
    BY <2>1, <2>2 DEF Heard
  <2>4. Together(y, d, s, TRUE)
    BY <1>1, <2>1, <2>2 DEF Together
  <2> QED BY <2>1, <2>2, <2>3, <2>4 DEF y, d
<1>3. CASE b.in_cycles = 1
  <2>1. Latched(x, y, {"ready"}) /\ y.serin = x.in /\ y.unread = TRUE
    BY <1>1, <1>3, TickLands
  <2>2. y.overrun = (x.overrun \/ x.unread)
    <3>1. SettledIn(x) /\ "rx" \in x.pending /\ x.in_cycles = 1
      BY <1>1, <1>3
    <3> QED BY <3>1, TickOverrun, Zenon
  <2>3. /\ x.queue # <<>> =>
             /\ y.in = Head(x.queue).byte /\ y.queue = Tail(x.queue) /\ "rx" \in y.pending
             /\ y.in_cycles = Head(x.queue).gap + ByteTime
        /\ x.queue = <<>> => /\ y.in = x.in /\ y.queue = <<>> /\ y.in_cycles = 0
                            /\ "rx" \notin y.pending
    <3>1. SettledIn(x) /\ "rx" \in x.pending /\ x.in_cycles = 1
      BY <1>1, <1>3
    <3> QED BY <3>1, TickLands, ZenonT(30)
  <2>4. Latched(b, d, {"ready"}) /\ d.serin = b.in /\ d.unread = TRUE
    BY <1>3, TickLands
  <2>5. d.overrun = (b.overrun \/ b.unread)
    BY <1>3, TickOverrun, Zenon
  <2>6. /\ b.queue # <<>> =>
             /\ d.in = Head(b.queue).byte /\ d.queue = Tail(b.queue) /\ "rx" \in d.pending
             /\ d.in_cycles = Head(b.queue).gap + ByteTime
        /\ b.queue = <<>> => /\ d.in = b.in /\ d.queue = <<>> /\ d.in_cycles = 0
                            /\ "rx" \notin d.pending
    BY <1>3, TickLands
  <2> HIDE DEF y, d
  <2>7. Heard(y, d)
    <3>1. (x.overrun \/ x.unread) = (b.overrun \/ b.unread)
      BY DEF Heard
    <3> QED BY <1>1, <2>1, <2>2, <2>4, <2>5, <3>1 DEF Heard
  <2>8. Together(y, d, s, TRUE) \/ Ahead(y, d, s, i + 1, TRUE)
    <3>1. CASE b.queue # <<>>
      <4> DEFINE q == b.queue
      <4>2. q \in Seq(Entries) /\ q # <<>> /\ x.queue = q \o s
        BY <1>1, <3>1
      <4> HIDE DEF q
      <4>3. q \o s # <<>> /\ Head(q \o s) = Head(q) /\ Tail(q \o s) = Tail(q) \o s
        BY <4>2, JoinedHead
      <4>1. x.queue # <<>> /\ Head(x.queue) = Head(b.queue) /\ Tail(x.queue) = Tail(b.queue) \o s
        BY <4>2, <4>3 DEF q
      <4> QED BY <2>3, <2>6, <3>1, <4>1 DEF Together
    <3>2. CASE b.queue = <<>> /\ s = <<>>
      <4>1. x.queue = <<>>
        BY <1>1, <3>2, ConcatEmptySeq
      <4>2. <<>> = <<>> \o s
        BY <3>2, ConcatEmptySeq
      <4> QED BY <1>1, <2>3, <2>6, <3>2, <4>1, <4>2 DEF Together
    <3>3. CASE b.queue = <<>> /\ s # <<>>
      <4>1. x.queue = s
        BY <1>1, <3>3, ConcatEmptySeq
      <4>2. y.in_cycles = AckDelay + ByteTime
        BY <2>3, <3>3, <4>1
      <4>3. Recent(y.in_cycles, i + 1) /\ i + 1 >= 1
        BY <4>2, DelaysAssumption DEF Recent
      <4> QED BY <2>3, <2>6, <3>3, <4>1, <4>3 DEF Ahead
    <3> QED BY <3>1, <3>2, <3>3
  <2> QED BY <2>1, <2>4, <2>7, <2>8 DEF y, d
<1>4. b.in_cycles > 1 \/ b.in_cycles = 1
  BY <1>1
<1> QED BY <1>2, <1>3, <1>4, Zenon

Tracks(x, b, s, i, going, due) ==
    Together(x, b, s, going) \/ Ahead(x, b, s, i, going) \/ Begun(x, b, s, i, due)

LEMMA Stays ==
  ASSUME NEW c \in Chip
  PROVE  Latched(c, c, {})
BY LatchedNone DEF SameIrq

(* The receiver that has begun the reply counts down, if it advances.      *)
LEMMA RecentTicks ==
  ASSUME NEW x \in Chip, SettledIn(x), "rx" \in x.pending, NEW i \in Nat, i + 1 <= AckDelay,
         Recent(x.in_cycles, i), NEW going \in BOOLEAN, going => i >= 1,
         NEW y, y = IF going THEN InTick(x) ELSE x
  PROVE  /\ Latched(x, y, {}) /\ "rx" \in y.pending /\ y.in = x.in /\ y.queue = x.queue
         /\ Heard(x, y) /\ Recent(y.in_cycles, i + 1)
<1>1. x.in_cycles \in Int
  BY DEF Chip
<1>2. /\ x.in_cycles > 1 /\ Recent(x.in_cycles, i + 1)
      /\ i >= 1 => Recent(x.in_cycles - 1, i + 1)
  BY <1>1, RecentCounts
<1>3. CASE going
  <2>1. y = InTick(x)
    BY <1>3
  <2>2. /\ Latched(x, y, {}) /\ "rx" \in y.pending
        /\ y.in = x.in /\ y.in_cycles = x.in_cycles - 1 /\ y.queue = x.queue
        /\ y.serin = x.serin /\ y.unread = x.unread /\ y.overrun = x.overrun
    BY <1>2, <2>1, TickCounts
  <2> QED BY <1>2, <1>3, <2>2 DEF Heard
<1>4. CASE ~going
  <2>1. y = x /\ Latched(x, x, {})
    BY <1>4, Stays
  <2> QED BY <1>2, <2>1 DEF Heard
<1> QED BY <1>3, <1>4

(* Of what is due, S, a tick delivers T and leaves U.                      *)
Delivers(s, t, u, due) ==
    /\ s \in Seq(Entries)
    /\ s # <<>> => Head(s).gap = AckDelay
    /\ s # <<>> => due
    /\ (t = <<>> /\ u = s) \/ (t = s /\ s # <<>> /\ u = <<>>)

LEMMA ReceiverTicks ==
  ASSUME NEW x \in Chip, SettledIn(x), NEW b \in Chip, SettledIn(b), Heard(x, b),
         NEW s, NEW t, NEW u, NEW due \in BOOLEAN, Delivers(s, t, u, due),
         NEW i \in Nat, i + 1 <= AckDelay, NEW going \in BOOLEAN,
         Tracks(x, b, s, i, going, due),
         NEW o \in Chip, SettledIn(o), InQueued(b, o, t),
         NEW y, y = IF going THEN InTick(x) ELSE x,
         NEW d, d = IF "rx" \in b.pending THEN InTick(o) ELSE o
  PROVE  /\ Heard(y, d) /\ Tracks(y, d, u, i + 1, going, due)
         /\ \E T : Latched(x, y, T) /\ Latched(o, d, T)
<1>0. /\ s \in Seq(Entries) /\ (s # <<>> => Head(s).gap = AckDelay) /\ (s # <<>> => due)
      /\ (t = <<>> /\ u = s) \/ (t = s /\ s # <<>> /\ u = <<>>)
  BY DEF Delivers
<1>1. Heard(b, o) /\ Heard(x, o)
  BY DEF InQueued, Heard
<1>2. Latched(x, x, {}) /\ Latched(o, o, {})
  BY Stays
<1>3. ASSUME t = <<>>
      PROVE  /\ o.in = b.in /\ o.in_cycles = b.in_cycles /\ o.queue = b.queue
             /\ "rx" \in o.pending <=> "rx" \in b.pending
  BY <1>3 DEF InQueued, SameIn
<1>4. CASE Together(x, b, s, going) /\ "rx" \in b.pending
  <2>1. going = TRUE /\ y = InTick(x) /\ d = InTick(o)
    BY <1>4 DEF Together
  <2>2. /\ x.queue = b.queue \o s /\ b.in = x.in /\ b.in_cycles = x.in_cycles
        /\ "rx" \in x.pending
    BY <1>4 DEF Together
  <2>3. /\ x.queue = o.queue \o u /\ o.in = x.in /\ o.in_cycles = x.in_cycles
        /\ "rx" \in o.pending /\ u \in Seq(Entries) /\ (u # <<>> => Head(u).gap = AckDelay)
    <3>1. CASE t = <<>> /\ u = s
      BY <1>0, <1>3, <1>4, <2>2, <3>1
    <3>2. CASE t = s /\ s # <<>> /\ u = <<>>
      <4>1. o.in = b.in /\ o.in_cycles = b.in_cycles /\ o.queue = b.queue \o s
            /\ "rx" \in o.pending
        BY <1>4, <3>2 DEF InQueued
      <4>2. x.queue \in Seq(Entries) /\ <<>> \in Seq(Entries)
        BY EmptySeq DEF Chip
      <4>3. x.queue \o <<>> = x.queue
        BY <4>2, ConcatEmptySeq
      <4> QED BY <2>2, <3>2, <4>1, <4>2, <4>3
    <3> QED BY <1>0, <3>1, <3>2
  <2>4. Together(x, o, u, TRUE)
    BY <2>2, <2>3 DEF Together
  <2>5. /\ Heard(InTick(x), InTick(o))
        /\ \E T : Latched(x, InTick(x), T) /\ Latched(o, InTick(o), T)
        /\ \/ Together(InTick(x), InTick(o), u, TRUE)
           \/ Ahead(InTick(x), InTick(o), u, i + 1, TRUE)
    BY <1>1, <2>3, <2>4, TogetherTicks
  <2> QED BY <2>1, <2>5 DEF Tracks
<1>5. CASE Together(x, b, s, going) /\ "rx" \notin b.pending
  <2>1. s = <<>> /\ t = <<>> /\ u = <<>> /\ "rx" \notin x.pending
    BY <1>0, <1>5 DEF Together
  <2>2. y = x /\ d = o
    BY <1>5, <2>1 DEF InTick
  <2>3. Together(x, o, u, going)
    BY <1>3, <1>5, <2>1 DEF Together
  <2> QED BY <1>1, <1>2, <2>2, <2>3 DEF Tracks
<1>6. CASE Ahead(x, b, s, i, going)
  <2>1. /\ s # <<>> /\ "rx" \notin b.pending /\ "rx" \in x.pending
        /\ x.in = Head(s).byte /\ x.queue = Tail(s) /\ Recent(x.in_cycles, i)
        /\ going => i >= 1
    BY <1>6 DEF Ahead
  <2>2. /\ Latched(x, y, {}) /\ "rx" \in y.pending /\ y.in = x.in /\ y.queue = x.queue
        /\ Heard(x, y) /\ Recent(y.in_cycles, i + 1)
    BY <2>1, RecentTicks
  <2>3. d = o /\ Heard(y, d)
    BY <1>1, <2>1, <2>2 DEF Heard
  <2>4. i + 1 >= 1
    OBVIOUS
  <2>5. CASE t = <<>> /\ u = s
    <3>1. "rx" \notin o.pending
      BY <1>3, <2>1, <2>5
    <3>2. Ahead(y, o, u, i + 1, going)
      BY <2>1, <2>2, <2>4, <2>5, <3>1 DEF Ahead
    <3> QED BY <1>2, <2>2, <2>3, <3>2 DEF Tracks
  <2>6. CASE t = s /\ s # <<>> /\ u = <<>>
    <3>1. /\ o.in = Head(s).byte /\ o.in_cycles = Head(s).gap + ByteTime /\ o.queue = Tail(s)
          /\ "rx" \in o.pending
      BY <2>1, <2>6 DEF InQueued
    <3>2. Recent(o.in_cycles, i + 1)
      <4>1. o.in_cycles = ByteTime + AckDelay
        BY <1>0, <2>6, <3>1, DelaysAssumption
      <4> QED BY <4>1, DelaysAssumption DEF Recent
    <3>3. Begun(y, o, u, i + 1, due)
      BY <1>0, <2>1, <2>2, <2>4, <2>6, <3>1, <3>2 DEF Begun
    <3> QED BY <1>2, <2>2, <2>3, <3>3 DEF Tracks
  <2> QED BY <1>0, <2>5, <2>6
<1>7. CASE Begun(x, b, s, i, due)
  <2>1. /\ due /\ s = <<>> /\ t = <<>> /\ u = <<>> /\ "rx" \in b.pending /\ "rx" \in x.pending
        /\ b.in = x.in /\ b.queue = x.queue
        /\ Recent(x.in_cycles, i) /\ Recent(b.in_cycles, i) /\ i >= 1 /\ i + 1 >= 1
    BY <1>0, <1>7 DEF Begun
  <2>2. /\ Latched(x, y, {}) /\ "rx" \in y.pending /\ y.in = x.in /\ y.queue = x.queue
        /\ Heard(x, y) /\ Recent(y.in_cycles, i + 1)
    BY <2>1, RecentTicks
  <2>3. /\ Latched(o, d, {}) /\ "rx" \in d.pending /\ d.in = o.in /\ d.queue = o.queue
        /\ Heard(o, d) /\ Recent(d.in_cycles, i + 1)
    <3>1. "rx" \in o.pending /\ Recent(o.in_cycles, i) /\ d = IF TRUE THEN InTick(o) ELSE o
      BY <1>3, <2>1
    <3> QED BY <2>1, <3>1, RecentTicks
  <2>4. Heard(y, d)
    BY <1>1, <2>2, <2>3 DEF Heard
  <2>5. Begun(y, d, u, i + 1, due)
    BY <1>3, <2>1, <2>2, <2>3 DEF Begun
  <2> QED BY <2>2, <2>3, <2>4, <2>5 DEF Tracks
<1> QED BY <1>4, <1>5, <1>6, <1>7 DEF Tracks

-----------------------------------------------------------------------------
(***************************************************************************)
(* POKEY-ADVANCE by N beside N of POKEY-TICK.                              *)
(***************************************************************************)
LEMMA AnswerAtFields ==
  ASSUME NEW c, Sound(c), NEW n \in Nat
  PROVE  /\ AnswerAt(c, n) \in Seq(Entries)
         /\ AnswerAt(c, n) # <<>> => Head(AnswerAt(c, n)).gap = AckDelay
         /\ AnswerAt(c, 0) = <<>> /\ RaisedAt(c, 0) = {} /\ OutIs(c, 0, c)
         /\ \A i \in 0..n : AnswerAt(c, i) = <<>> \/ AnswerAt(c, i) = AnswerAt(c, n)
<1>1. /\ c.out_cycles \in Int /\ ByteTime \in Nat \ {0}
      /\ c.shift # <<>> => c.out_cycles >= 1
      /\ c.shift = <<>> => c.holding = <<>> /\ c.out_cycles = 0
  BY OutNumbers
<1>2. ASSUME NEW f, NEW b
      PROVE  /\ AnswerTo(f, b) \in Seq(Entries)
             /\ AnswerTo(f, b) # <<>> => Head(AnswerTo(f, b)).gap = AckDelay
  <2>1. <<>> \in Seq(Entries)
    BY EmptySeq
  <2> QED BY <2>1, ReplyType DEF AnswerTo
<1>3. /\ AnswerAt(c, n) \in Seq(Entries)
      /\ AnswerAt(c, n) # <<>> => Head(AnswerAt(c, n)).gap = AckDelay
  <2>1. <<>> \in Seq(Entries)
    BY EmptySeq
  <2> QED BY <1>2, <2>1 DEF AnswerAt
<1>4. ~Landed1(c, 0) /\ ~Landed2(c, 0)
  BY <1>1 DEF Landed1, Landed2
<1>5. AnswerAt(c, 0) = <<>> /\ RaisedAt(c, 0) = {}
  BY <1>4 DEF AnswerAt, RaisedAt
<1>6. OutIs(c, 0, c)
  BY <1>1, <1>4 DEF OutIs
<1>7. ASSUME NEW i \in 0..n PROVE AnswerAt(c, i) = <<>> \/ AnswerAt(c, i) = AnswerAt(c, n)
  <2>1. (Landed1(c, i) => Landed1(c, n)) /\ (Landed2(c, i) => Landed2(c, n))
    BY <1>1 DEF Landed1, Landed2
  <2> QED BY <2>1 DEF AnswerAt
<1> QED BY <1>3, <1>5, <1>6, <1>7

(* The transmitter's share of an advance.                                  *)
OutShare(c, n) == IF "tx" \in c.pending THEN OutAdvance(c, n) ELSE c

LEMMA OutShareFields ==
  ASSUME NEW c, Sound(c), NEW n \in Nat, NEW g, g = OutShare(c, n)
  PROVE  /\ Sound(g) /\ OutIs(c, n, g) /\ Latched(c, g, RaisedAt(c, n))
         /\ InQueued(c, g, AnswerAt(c, n))
         /\ "rx" \in c.pending => "rx" \in g.pending
<1>1. CASE "tx" \in c.pending
  <2>1. g = OutAdvance(c, n)
    BY <1>1 DEF OutShare
  <2>2. Sound(g) /\ ("rx" \in c.pending => "rx" \in g.pending)
    BY <1>1, <2>1, OutAdvanceFields DEF Sound
  <2>3. OutIs(c, n, g) /\ Latched(c, g, RaisedAt(c, n)) /\ InQueued(c, g, AnswerAt(c, n))
    BY <1>1, <2>1, OutAdvanceIs
  <2> QED BY <2>2, <2>3
<1>2. CASE "tx" \notin c.pending
  <2>1. g = c
    BY <1>2 DEF OutShare
  <2> QED BY <1>2, <2>1, OutRestIs
<1> QED BY <1>1, <1>2

(* One tick, in parts.                                                     *)
LEMMA TickInParts ==
  ASSUME NEW c, Sound(c)
  PROVE  Advance(c, 1) = IF "rx" \in c.pending THEN InTick(OutShare(c, 1)) ELSE OutShare(c, 1)
<1>1. "rx" \in c.pending => "rx" \in OutShare(c, 1).pending
  BY OutShareFields
<1> QED BY <1>1 DEF Advance, OutShare, InTick

Sounds == {c \in Chip : Sound(c)}

LEMMA TickedIsIteration ==
  ASSUME NEW c \in Sounds, NEW m \in Nat
  PROVE  /\ Ticked(c, m) \in [0..m -> Sounds] /\ Ticked(c, m)[0] = c
         /\ \A i \in 1..m : Ticked(c, m)[i] = Advance(Ticked(c, m)[i - 1], 1)
<1> DEFINE Defines(f) == f = [i \in 0..m |-> IF i = 0 THEN c ELSE Advance(f[i - 1], 1)]
           G == [d \in Sounds |-> Advance(d, 1)]
<1>1. G \in [Sounds -> Sounds]
  <2>1. ASSUME NEW d \in Sounds PROVE Advance(d, 1) \in Sounds
    <3>1. Sound(d) /\ 1 \in Nat
      BY DEF Sounds
    <3>2. Sound(Advance(d, 1))
      BY <3>1, AdvanceFields
    <3> QED BY <3>2 DEF Sounds, Sound
  <2> QED BY <2>1
<1>2. PICK f \in [0..m -> Sounds] : IsIteration(f, m, c, G)
  BY <1>1, Iteration
<1>3. ASSUME NEW i \in 1..m PROVE f[i] = Advance(f[i - 1], 1)
  <2>1. f[i - 1] \in Sounds
    <3>1. i - 1 \in 0..m
      BY <1>3
    <3> QED BY <3>1
  <2>2. f[i] = G[f[i - 1]]
    BY <1>2, <1>3 DEF IsIteration
  <2> QED BY <2>1, <2>2
<1>4. f[0] = c
  BY <1>2 DEF IsIteration
<1>5. Defines(f)
  <2> DEFINE g == [i \in 0..m |-> IF i = 0 THEN c ELSE Advance(f[i - 1], 1)]
  <2>1. ASSUME NEW i \in 0..m PROVE f[i] = g[i]
    BY <1>3, <1>4
  <2>2. DOMAIN f = 0..m /\ f = [i \in 0..m |-> f[i]]
    OBVIOUS
  <2> QED BY <2>1, <2>2
<1>6. Ticked(c, m) = CHOOSE ticked : Defines(ticked)
  BY DEF Ticked
<1> DEFINE w == Ticked(c, m)
<1>7. Defines(w)
  <2> HIDE DEF Defines
  <2> QED BY <1>5, <1>6
<1>8. /\ w[0] = c /\ \A i \in 1..m : w[i] = Advance(w[i - 1], 1)
      /\ w = [i \in 0..m |-> w[i]]
  <2> DEFINE g == [i \in 0..m |-> IF i = 0 THEN c ELSE Advance(w[i - 1], 1)]
  <2>1. w = g
    BY <1>7
  <2> HIDE DEF w
  <2>2. /\ g[0] = c /\ \A i \in 1..m : g[i] = Advance(w[i - 1], 1)
        /\ g = [i \in 0..m |-> g[i]]
    OBVIOUS
  <2> HIDE DEF g
  <2> QED BY <2>1, <2>2, Zenon
<1> HIDE DEF w
<1>9. w = f
  <2> DEFINE H == {i \in 0..m : w[i] = f[i]}
  <2>1. 0 \in H
    BY <1>4, <1>8
  <2>2. ASSUME NEW i \in 1..m, i - 1 \in H PROVE i \in H
    <3>1. w[i - 1] = f[i - 1] /\ i \in 0..m
      BY <2>2
    <3>2. w[i] = Advance(w[i - 1], 1) /\ f[i] = Advance(f[i - 1], 1)
      BY <1>3, <1>8
    <3>3. w[i] = f[i]
      BY <3>1, <3>2, Zenon
    <3> QED BY <3>1, <3>3
  <2>3. \A i \in 0..m : i \in H
    <3> HIDE DEF H
    <3> QED BY <2>1, <2>2, Induction
  <2>4. w = [i \in 0..m |-> w[i]] /\ f = [i \in 0..m |-> f[i]]
    BY <1>8
  <2>5. \A i \in 0..m : w[i] = f[i]
    BY <2>3
  <2> QED BY <2>4, <2>5
<1> QED BY <1>8, <1>9 DEF w

(* I cycles after C: the receiver that advances with the reply in it       *)
(* beside the chip that ticks.                                             *)
Apart(c, n, i) ==
    IF "rx" \in c.pending THEN InAdvance(OutShare(c, n), i) ELSE OutShare(c, n)

StillDue(c, n, i) == IF AnswerAt(c, i) = AnswerAt(c, n) THEN <<>> ELSE AnswerAt(c, n)

Abreast(c, n, i, b) ==
    /\ Sound(b) /\ OutIs(c, i, b)
    /\ Apart(c, n, i) \in Chip /\ SettledIn(Apart(c, n, i))
    /\ SameOut(OutShare(c, n), Apart(c, n, i)) /\ Heard(Apart(c, n, i), b)
    /\ Tracks(Apart(c, n, i), b, StillDue(c, n, i), i, "rx" \in c.pending, AnswerAt(c, n) # <<>>)
    /\ \E T : /\ Latched(OutShare(c, n), Apart(c, n, i), T)
              /\ Latched(c, b, RaisedAt(c, i) \cup T)

LEMMA AbreastAtFirst ==
  ASSUME NEW c, Sound(c), NEW n \in Nat
  PROVE  Abreast(c, n, 0, c)
<1> DEFINE g == OutShare(c, n)
           r == AnswerAt(c, n)
           x == Apart(c, n, 0)
<1>1. /\ Sound(g) /\ InQueued(c, g, r) /\ ("rx" \in c.pending => "rx" \in g.pending)
      /\ r \in Seq(Entries) /\ (r # <<>> => Head(r).gap = AckDelay)
      /\ AnswerAt(c, 0) = <<>> /\ RaisedAt(c, 0) = {} /\ OutIs(c, 0, c)
  BY OutShareFields, AnswerAtFields
<1>2. c \in Chip /\ g \in Chip /\ SettledIn(g) /\ SettledIn(c)
  BY <1>1 DEF Sound
<1> HIDE DEF g, r
<1>3. x = g
  <2>1. CASE "rx" \in c.pending
    BY <1>1, <1>2, <2>1, NoCycle DEF Apart, g
  <2>2. CASE "rx" \notin c.pending
    BY <2>2 DEF Apart, g
  <2> QED BY <2>1, <2>2
<1>4. StillDue(c, n, 0) = r
  BY <1>1 DEF StillDue, r
<1>5. Heard(g, c)
  BY <1>1 DEF InQueued, Heard
<1>6. c.queue \in Seq(Entries) /\ c.queue \o <<>> = c.queue
  <2>1. c.queue \in Seq(Entries)
    BY <1>2 DEF Chip
  <2> QED BY <2>1, ConcatEmptySeq
<1>7. Together(g, c, r, "rx" \in c.pending) \/ Ahead(g, c, r, 0, "rx" \in c.pending)
  <2>1. CASE r = <<>>
    BY <1>1, <1>6, <2>1 DEF InQueued, SameIn, Together
  <2>2. CASE r # <<>> /\ "rx" \in c.pending
    BY <1>1, <2>2 DEF InQueued, Together
  <2>3. CASE r # <<>> /\ "rx" \notin c.pending
    <3>1. /\ g.in = Head(r).byte /\ g.in_cycles = Head(r).gap + ByteTime
          /\ g.queue = Tail(r) /\ "rx" \in g.pending
      BY <1>1, <2>3 DEF InQueued
    <3>2. g.in_cycles = ByteTime + AckDelay
      BY <1>1, <2>3, <3>1, DelaysAssumption
    <3>3. Recent(g.in_cycles, 0)
      BY <3>2, DelaysAssumption DEF Recent
    <3> QED BY <2>3, <3>1, <3>3 DEF Ahead
  <2> QED BY <2>1, <2>2, <2>3
<1>8. Latched(g, g, {}) /\ Latched(c, c, RaisedAt(c, 0) \cup {})
  <2>1. RaisedAt(c, 0) \cup {} = {}
    BY <1>1
  <2>2. Latched(g, g, {}) /\ Latched(c, c, {})
    BY <1>2, Stays
  <2> QED BY <2>1, <2>2
<1>9. SameOut(g, g)
  BY DEF SameOut
<1> HIDE DEF x
<1> QED BY <1>1, <1>2, <1>3, <1>4, <1>5, <1>7, <1>8, <1>9 DEF Abreast, Tracks, g, r, x

(* What remains due, before and after a tick.                              *)
LEMMA DueTicks ==
  ASSUME NEW c, Sound(c), NEW n \in Nat, NEW i \in Nat, i + 1 <= n,
         NEW t, \/ t = <<>> /\ AnswerAt(c, i + 1) = AnswerAt(c, i)
                \/ AnswerAt(c, i) = <<>> /\ AnswerAt(c, i + 1) = t
  PROVE  Delivers(StillDue(c, n, i), t, StillDue(c, n, i + 1), AnswerAt(c, n) # <<>>)
<1> DEFINE r == AnswerAt(c, n)
           s == StillDue(c, n, i)
           u == StillDue(c, n, i + 1)
<1>1. /\ r \in Seq(Entries) /\ (r # <<>> => Head(r).gap = AckDelay)
      /\ \A k \in 0..n : AnswerAt(c, k) = <<>> \/ AnswerAt(c, k) = r
  BY AnswerAtFields
<1>2. i \in 0..n /\ i + 1 \in 0..n
  OBVIOUS
<1>3. /\ AnswerAt(c, i) = <<>> \/ AnswerAt(c, i) = r
      /\ AnswerAt(c, i + 1) = <<>> \/ AnswerAt(c, i + 1) = r
  BY <1>1, <1>2
<1>4. /\ s = IF AnswerAt(c, i) = r THEN <<>> ELSE r
      /\ u = IF AnswerAt(c, i + 1) = r THEN <<>> ELSE r
  BY DEF StillDue
<1>5. <<>> \in Seq(Entries)
  BY EmptySeq
<1> HIDE DEF r, s, u
<1>6. /\ s \in Seq(Entries) /\ (s # <<>> => Head(s).gap = AckDelay)
      /\ s # <<>> => r # <<>>
      /\ (t = <<>> /\ u = s) \/ (t = s /\ s # <<>> /\ u = <<>>)
  BY <1>1, <1>3, <1>4, <1>5
<1> QED BY <1>6 DEF Delivers, r, s, u

LEMMA AbreastTicks ==
  ASSUME NEW c, Sound(c), NEW n \in Nat, n <= AckDelay, NEW i \in Nat, i + 1 <= n,
         NEW b, Abreast(c, n, i, b), NEW e, e = Advance(b, 1)
  PROVE  Abreast(c, n, i + 1, e)
<1> DEFINE g == OutShare(c, n)
           x == Apart(c, n, i)
           y == Apart(c, n, i + 1)
           s == StillDue(c, n, i)
           u == StillDue(c, n, i + 1)
           o == OutShare(b, 1)
           t == AnswerAt(b, 1)
           going == "rx" \in c.pending
           due == AnswerAt(c, n) # <<>>
<1>1. /\ Sound(b) /\ OutIs(c, i, b) /\ x \in Chip /\ SettledIn(x) /\ SameOut(g, x)
      /\ Heard(x, b) /\ Tracks(x, b, s, i, going, due)
      /\ \E T : Latched(g, x, T) /\ Latched(c, b, RaisedAt(c, i) \cup T)
  BY DEF Abreast
<1>2. /\ Sound(g) /\ (going => "rx" \in g.pending)
  BY OutShareFields
<1>3. /\ Sound(o) /\ OutIs(b, 1, o) /\ Latched(b, o, RaisedAt(b, 1)) /\ InQueued(b, o, t)
  BY <1>1, OutShareFields
<1>4. e = IF "rx" \in b.pending THEN InTick(o) ELSE o
  BY <1>1, TickInParts
<1>5. y = IF going THEN InTick(x) ELSE x
  <2>1. g \in Chip /\ SettledIn(g)
    BY <1>2 DEF Sound
  <2>2. going => InAdvance(g, i + 1) = InTick(InAdvance(g, i))
    BY <1>2, <2>1, InAdvanceAdds
  <2> QED BY <2>2 DEF Apart
<1>6. b \in Chip /\ SettledIn(b) /\ o \in Chip /\ SettledIn(o) /\ SettledOut(o)
  BY <1>1, <1>3 DEF Sound
<1>7. /\ e \in Chip /\ SettledIn(e) /\ SameOut(o, e)
      /\ y \in Chip /\ SettledIn(y) /\ SameOut(x, y)
  BY <1>1, <1>4, <1>5, <1>6, InTickFields DEF SameOut
<1>8. Sound(e) /\ OutIs(b, 1, e)
  <2>1. SettledOut(e)
    BY <1>6, <1>7 DEF SameOut, SettledOut, SoundOut
  <2>2. OutIs(b, 1, e)
    BY <1>3, <1>7 DEF SameOut, OutIs
  <2> QED BY <1>7, <2>1, <2>2 DEF Sound
<1>9. /\ OutIs(c, i + 1, e)
      /\ RaisedAt(c, i) \cup RaisedAt(b, 1) = RaisedAt(c, i + 1)
      /\ \/ t = <<>> /\ AnswerAt(c, i + 1) = AnswerAt(c, i)
         \/ AnswerAt(c, i) = <<>> /\ AnswerAt(c, i + 1) = t
  BY <1>1, <1>8, OutAdds
<1>10. Delivers(s, t, u, due)
  BY <1>9, DueTicks
<1>11. going \in BOOLEAN /\ due \in BOOLEAN /\ i + 1 <= AckDelay
  BY DelaysAssumption
<1> HIDE DEF g, x, y, s, u, o, t, going, due
<1>12. /\ Heard(y, e) /\ Tracks(y, e, u, i + 1, going, due)
       /\ \E T : Latched(x, y, T) /\ Latched(o, e, T)
  <2>1. /\ x \in Chip /\ SettledIn(x) /\ b \in Chip /\ SettledIn(b) /\ Heard(x, b)
        /\ o \in Chip /\ SettledIn(o) /\ InQueued(b, o, t)
        /\ i + 1 <= AckDelay /\ going \in BOOLEAN /\ due \in BOOLEAN
        /\ Tracks(x, b, s, i, going, due)
    BY <1>1, <1>3, <1>6, <1>11
  <2> QED BY <1>4, <1>5, <1>10, <2>1, ReceiverTicks
<1>13. \E T : Latched(g, y, T) /\ Latched(c, e, RaisedAt(c, i + 1) \cup T)
  <2>1. PICK T : Latched(g, x, T) /\ Latched(c, b, RaisedAt(c, i) \cup T)
    BY <1>1
  <2>2. PICK U : Latched(x, y, U) /\ Latched(o, e, U)
    BY <1>12
  <2>3. Latched(g, y, T \cup U)
    BY <2>1, <2>2, LatchedTwice
  <2>4. Latched(c, e, ((RaisedAt(c, i) \cup T) \cup RaisedAt(b, 1)) \cup U)
    <3>1. Latched(c, o, (RaisedAt(c, i) \cup T) \cup RaisedAt(b, 1))
      BY <1>3, <2>1, LatchedTwice
    <3> QED BY <2>2, <3>1, LatchedTwice
  <2>5. ((RaisedAt(c, i) \cup T) \cup RaisedAt(b, 1)) \cup U = RaisedAt(c, i + 1) \cup (T \cup U)
    BY <1>9
  <2> QED BY <2>3, <2>4, <2>5
<1>14. SameOut(g, y)
  BY <1>1, <1>7 DEF SameOut
<1> QED BY <1>7, <1>8, <1>9, <1>12, <1>13, <1>14 DEF Abreast, g, y, u, going, due

LEMMA AbreastThroughout ==
  ASSUME NEW c, Sound(c), NEW n \in Nat, n <= AckDelay, NEW b, b = Ticks(c, n)
  PROVE  Abreast(c, n, n, b)
<1> DEFINE w == Ticked(c, n)
           H == {i \in 0..n : Abreast(c, n, i, w[i])}
<1>1. c \in Sounds
  BY DEF Sounds, Sound
<1>2. w[0] = c /\ \A i \in 1..n : w[i] = Advance(w[i - 1], 1)
  BY <1>1, TickedIsIteration
<1> HIDE DEF w
<1>3. 0 \in H
  <2>1. Abreast(c, n, 0, c)
    BY AbreastAtFirst
  <2> QED BY <1>2, <2>1
<1>4. ASSUME NEW i \in 1..n, i - 1 \in H PROVE i \in H
  <2> DEFINE k == i - 1
  <2>1. k \in Nat /\ k + 1 = i /\ k + 1 <= n /\ Abreast(c, n, k, w[k])
    BY <1>4
  <2>2. w[i] = Advance(w[k], 1)
    BY <1>2
  <2> HIDE DEF k
  <2>3. Abreast(c, n, k + 1, w[i])
    BY <2>1, <2>2, AbreastTicks
  <2> QED BY <2>1, <2>3
<1>5. \A i \in 0..n : i \in H
  <2> HIDE DEF H
  <2> QED BY <1>3, <1>4, Induction
<1>6. Abreast(c, n, n, w[n])
  BY <1>5
<1>7. b = w[n]
  BY DEF Ticks, w
<1> QED BY <1>6, <1>7

(* Two transmitters I cycles after the same one are the same.              *)
LEMMA OutIsOne ==
  ASSUME NEW c, NEW i, NEW d, OutIs(c, i, d), SettledOut(d),
         NEW e, OutIs(c, i, e), SettledOut(e)
  PROVE  SameOut(d, e)
<1>1. /\ d.shift = e.shift /\ d.holding = e.holding /\ d.frame = e.frame
      /\ d.out_cycles = e.out_cycles
  BY DEF OutIs
<1>2. "tx" \in d.pending <=> "tx" \in e.pending
  BY <1>1 DEF SettledOut, SoundOut
<1> QED BY <1>1, <1>2 DEF SameOut

(* The same sources raise the same interrupts.                             *)
LEMMA LatchedIsOne ==
  ASSUME NEW c, NEW R, NEW d \in Chip, Latched(c, d, R), NEW e \in Chip, Latched(c, e, R)
  PROVE  SameIrq(d, e)
<1>1. d.pin \in BOOLEAN /\ e.pin \in BOOLEAN
  BY DEF Chip
<1>2. d.pin = e.pin
  BY <1>1 DEF Latched
<1> QED BY <1>2 DEF Latched, SameIrq

(* A command frame that is answered leaves the accumulator shorter.        *)
LEMMA AnsweredShortens ==
  ASSUME NEW c, Sound(c), NEW i \in Nat, AnswerAt(c, i) # <<>>, NEW d, OutIs(c, i, d)
  PROVE  Len(d.frame) < Len(c.frame)
<1> DEFINE f == c.frame
           b1 == Head(c.shift)
           b2 == Head(c.holding)
<1>1. /\ FrameLen \in Nat /\ FrameLen > 2
      /\ f \in Seq(Bytes) /\ Len(f) \in Nat /\ Len(f) < FrameLen
      /\ c.shift # <<>> => b1 \in Bytes
      /\ c.holding # <<>> => b2 \in Bytes
  BY OutNumbers
<1>2. Landed1(c, i) /\ c.shift # <<>> /\ b1 \in Bytes
  BY <1>1 DEF AnswerAt, Landed1
<1>3. /\ Frame1(c) \in Seq(Bytes)
      /\ Len(f) + 1 < FrameLen => Len(Frame1(c)) = Len(f) + 1
      /\ Len(f) + 1 = FrameLen => Len(Frame1(c)) = 0
  BY <1>1, <1>2, FrameAfterLen DEF Frame1
<1>4. ASSUME Landed2(c, i), Len(Frame1(c)) < FrameLen
      PROVE  /\ d.frame = FrameAfter(Frame1(c), b2)
             /\ Len(Frame1(c)) + 1 < FrameLen =>
                   Len(d.frame) = Len(Frame1(c)) + 1 /\ AnswerTo(Frame1(c), b2) = <<>>
             /\ Len(Frame1(c)) + 1 = FrameLen => Len(d.frame) = 0
  <2>1. d.frame = FrameAfter(Frame1(c), b2)
    BY <1>4 DEF OutIs
  <2>2. b2 \in Bytes
    BY <1>1, <1>4 DEF Landed2
  <2> QED BY <1>3, <1>4, <2>1, <2>2, FrameAfterLen
<1>5. CASE Len(f) + 1 = FrameLen
  <2>1. CASE Landed2(c, i)
    <3>1. Len(d.frame) = 1
      <4>1. Len(Frame1(c)) = 0 /\ 0 + 1 < FrameLen /\ 0 < FrameLen
        BY <1>1, <1>3, <1>5
      <4> QED BY <1>4, <2>1, <4>1
    <3> QED BY <1>1, <1>5, <3>1
  <2>2. CASE ~Landed2(c, i)
    <3>1. d.frame = Frame1(c)
      BY <1>2, <2>2 DEF OutIs
    <3> QED BY <1>1, <1>3, <1>5, <3>1
  <2> QED BY <2>1, <2>2
<1>6. CASE Len(f) + 1 # FrameLen
  <2>1. Len(f) + 1 < FrameLen /\ Len(Frame1(c)) = Len(f) + 1
    BY <1>1, <1>3, <1>6
  <2>2. Landed2(c, i) /\ AnswerTo(Frame1(c), b2) # <<>>
    BY <1>2, <1>6 DEF AnswerAt
  <2>3. Len(Frame1(c)) + 1 = FrameLen
    BY <1>1, <1>4, <2>1, <2>2
  <2> QED BY <1>1, <1>3, <1>4, <2>1, <2>2, <2>3
<1> QED BY <1>5, <1>6

(* POKEY-ADVANCE by N is N of POKEY-TICK, or only the start of a reply     *)
(* differs.                                                                *)
LEMMA AdvanceIsTicks ==
  ASSUME NEW c, Sound(c), NEW n \in Nat, n <= AckDelay,
         NEW a, a = Advance(c, n), NEW b, b = Ticks(c, n)
  PROVE  \/ a = b
         \/ /\ Len(a.frame) < Len(c.frame)
            /\ a.in_cycles - b.in_cycles \in (1 - n)..(n - 1)
            /\ a = [b EXCEPT !.in_cycles = a.in_cycles]
<1> DEFINE g == OutShare(c, n)
           due == AnswerAt(c, n) # <<>>
           going == "rx" \in c.pending
<1>1. Apart(c, n, n) = a
  BY DEF Advance, Apart, OutShare
<1>2. StillDue(c, n, n) = <<>>
  BY DEF StillDue
<1>3. Abreast(c, n, n, b)
  BY AbreastThroughout
<1>4. /\ Sound(b) /\ OutIs(c, n, b) /\ a \in Chip /\ SettledIn(a) /\ SameOut(g, a)
      /\ Heard(a, b) /\ Tracks(a, b, <<>>, n, going, due)
      /\ \E T : Latched(g, a, T) /\ Latched(c, b, RaisedAt(c, n) \cup T)
  BY <1>1, <1>2, <1>3 DEF Abreast
<1>5. Sound(g) /\ OutIs(c, n, g) /\ Latched(c, g, RaisedAt(c, n))
  BY OutShareFields
<1>6. b \in Chip /\ SettledOut(b) /\ SettledIn(b) /\ SettledOut(g)
  BY <1>4, <1>5 DEF Sound
<1> HIDE DEF g, due, going
<1>7. OutIs(c, n, a) /\ SettledOut(a)
  <2>1. OutIs(c, n, a)
    BY <1>4, <1>5 DEF SameOut, OutIs
  <2>2. SettledOut(a)
    BY <1>4, <1>6 DEF SameOut, SettledOut, SoundOut
  <2> QED BY <2>1, <2>2
<1>8. SameOut(b, a)
  BY <1>4, <1>6, <1>7, OutIsOne
<1>9. SameIrq(b, a)
  <2>1. PICK T : Latched(g, a, T) /\ Latched(c, b, RaisedAt(c, n) \cup T)
    BY <1>4
  <2>2. Latched(c, a, RaisedAt(c, n) \cup T)
    BY <1>5, <2>1, LatchedTwice
  <2> QED BY <1>4, <1>6, <2>1, <2>2, LatchedIsOne
<1>10. a.owed = InFlight(a) \o BytesOf(a.queue) /\ b.owed = InFlight(b) \o BytesOf(b.queue)
  BY <1>4, <1>6 DEF SettledIn, SoundIn
<1>11. b.queue \in Seq(Entries) /\ b.queue \o <<>> = b.queue
  <2>1. b.queue \in Seq(Entries)
    BY <1>6 DEF Chip
  <2> QED BY <2>1, ConcatEmptySeq
<1>12. CASE Together(a, b, <<>>, going)
  <2>1. /\ b.in = a.in /\ b.in_cycles = a.in_cycles /\ a.queue = b.queue
        /\ "rx" \in b.pending <=> "rx" \in a.pending
    BY <1>11, <1>12 DEF Together
  <2>2. a.owed = b.owed
    BY <1>10, <2>1 DEF InFlight
  <2>3. SameIn(b, a)
    BY <1>4, <2>1, <2>2 DEF SameIn, Heard
  <2> QED BY <1>4, <1>6, <1>8, <1>9, <2>3, ChipEqual
<1>13. ~Ahead(a, b, <<>>, n, going)
  BY DEF Ahead
<1>14. CASE Begun(a, b, <<>>, n, due)
  <2>1. /\ due /\ "rx" \in b.pending /\ "rx" \in a.pending
        /\ b.in = a.in /\ b.queue = a.queue
        /\ Recent(a.in_cycles, n) /\ Recent(b.in_cycles, n) /\ n >= 1
    BY <1>14 DEF Begun
  <2>2. Len(a.frame) < Len(c.frame)
    BY <1>7, <2>1, AnsweredShortens DEF due
  <2>3. a.in_cycles - b.in_cycles \in (1 - n)..(n - 1)
    <3>1. a.in_cycles \in Int /\ b.in_cycles \in Int
      BY <1>4, <1>6 DEF Chip
    <3> QED BY <2>1, <3>1, DelaysAssumption DEF Recent
  <2>4. a = [b EXCEPT !.in_cycles = a.in_cycles]
    <3> DEFINE d == [b EXCEPT !.in_cycles = a.in_cycles]
    <3>1. /\ d \in Chip /\ SameOut(b, d) /\ SameIrq(b, d) /\ d.pending = b.pending
          /\ d.in = b.in /\ d.in_cycles = a.in_cycles /\ d.queue = b.queue /\ d.owed = b.owed
          /\ d.serin = b.serin /\ d.unread = b.unread /\ d.overrun = b.overrun
      <4>1. a.in_cycles \in Int
        BY <1>4 DEF Chip
      <4> QED BY <1>6, <4>1 DEF Chip, SameOut, SameIrq
    <3> HIDE DEF d
    <3>2. SameOut(d, a) /\ SameIrq(d, a)
      BY <1>8, <1>9, <3>1 DEF SameOut, SameIrq
    <3>3. a.owed = b.owed
      BY <1>10, <2>1 DEF InFlight
    <3>4. SameIn(d, a)
      BY <1>4, <2>1, <3>1, <3>3 DEF SameIn, Heard
    <3>5. d = a
      BY <1>4, <3>1, <3>2, <3>4, ChipEqual
    <3> QED BY <3>5 DEF d
  <2> QED BY <2>2, <2>3, <2>4
<1> QED BY <1>4, <1>12, <1>13, <1>14 DEF Tracks

(* POKEY-ADVANCE by N cycles is N of POKEY-TICK, but for the start of a    *)
(* reply whose command ends within them: deferring the chip to the end of  *)
(* an instruction or a scanline may move that start by up to N - 1 cycles  *)
(* and changes nothing else the program can see.                           *)
THEOREM AdvanceTicks == Spec => []TicksAgree
<1>1. IInv => TicksAgree
  <2> SUFFICES ASSUME IInv, NEW n \in Chunks
               PROVE  LET a == Advance(chip, n)
                          b == Ticks(chip, n)
                      IN  \/ a = b
                          \/ /\ Len(a.frame) < Len(chip.frame)
                             /\ a.in_cycles - b.in_cycles \in (1 - n)..(n - 1)
                             /\ a = [b EXCEPT !.in_cycles = a.in_cycles]
    BY DEF TicksAgree
  <2>1. n \in Nat /\ n <= AckDelay
    BY ChunksAssumption
  <2>2. Sound(chip)
    BY DEF IInv
  <2> QED BY <2>1, <2>2, AdvanceIsTicks
<1> QED BY <1>1, SerialInvariant, PTL

=============================================================================
