---------------------------- MODULE HarnessProofs ----------------------------
(***************************************************************************)
(* What the runner of one case makes of a connection, for every server and *)
(* every case, and then what a whole run says.                             *)
(*                                                                         *)
(* What is read, on its way or still to be sent is one stream of units, in *)
(* which every answer lies whole and in one piece, but for the end of a    *)
(* stream that was closed.  The reader takes from its front, at a place    *)
(* that need not be the beginning of an answer.                            *)
(***************************************************************************)
EXTENDS Harness, TLAPS, SequenceTheorems, FiniteSetTheorems

Parts(p) ==
    IF p = "aesp" THEN {"magic", "length", "payload"} ELSE {"status", "line"}

Units(p) == [of : Nat, part : Parts(p), msg : Answers[p]]

IsHead(u) == u.part \in {"magic", "status"}

LenOf(p, m) == IF p = "aesp" THEN 2 + m.len ELSE 2

(* Whatever follows the head of an answer is the rest of the answer,       *)
Follows(p, s) ==
    \A j \in 1..Len(s) : IsHead(s[j]) =>
        \A i \in 1..LenOf(p, s[j].msg) :
            j + i - 1 <= Len(s) => s[j + i - 1] = UnitsOf(p, s[j].of, s[j].msg)[i]

(* and it is all there.                                                    *)
Whole(p, s) ==
    \A j \in 1..Len(s) : IsHead(s[j]) => j + LenOf(p, s[j].msg) - 1 <= Len(s)

-----------------------------------------------------------------------------
(* Sequences.                                                              *)

LEMMA Appended ==
  ASSUME NEW s, IsSeq(s), NEW e
  PROVE  /\ IsSeq(Append(s, e))
         /\ Len(s) \in Nat /\ DOMAIN s = 1..Len(s)
         /\ Len(Append(s, e)) = Len(s) + 1
         /\ DOMAIN Append(s, e) = 1..(Len(s) + 1)
         /\ \A k \in 1..Len(s) : Append(s, e)[k] = s[k]
         /\ Append(s, e)[Len(s) + 1] = e
<1> DEFINE S == {s[n] : n \in DOMAIN s} \cup {e}
           t == Append(s, e)
<1>1. s \in Seq(S)
  BY SeqMonotonic DEF IsSeq
<1>2. /\ t \in Seq(S) /\ Len(s) \in Nat /\ Len(t) = Len(s) + 1
      /\ \A k \in 1..Len(s) : t[k] = s[k]
      /\ t[Len(s) + 1] = e
  BY <1>1
<1>3. DOMAIN s = 1..Len(s) /\ DOMAIN t = 1..(Len(s) + 1) /\ t \in [1..Len(t) -> S]
  BY <1>1, <1>2, LenProperties
<1>4. IsSeq(t)
  <2> DEFINE T == {t[n] : n \in DOMAIN t}
  <2>1. t \in [1..(Len(s) + 1) -> T]
    BY <1>2, <1>3
  <2>2. Len(s) + 1 \in Nat
    BY <1>2
  <2> HIDE DEF t, T
  <2>3. t \in Seq(T)
    BY <2>1, <2>2, SeqDef
  <2> QED BY <2>3 DEF IsSeq, T
<1> QED BY <1>2, <1>3, <1>4

(* The units of an answer.                                                 *)
LEMMA LenFacts ==
  ASSUME NEW p \in Protocols, NEW m \in Answers[p]
  PROVE  m.len \in Nat /\ LenOf(p, m) \in Nat \ {0}
BY AnswersAssumption DEF LenOf

LEMMA UnitsFacts ==
  ASSUME NEW p \in Protocols, NEW k \in Nat, NEW m \in Answers[p]
  PROVE  /\ m.len \in Nat
         /\ UnitsOf(p, k, m) \in Seq(Units(p))
         /\ Len(UnitsOf(p, k, m)) = LenOf(p, m)
         /\ \A q \in 1..LenOf(p, m) :
               /\ UnitsOf(p, k, m)[q].of = k /\ UnitsOf(p, k, m)[q].msg = m
               /\ IsHead(UnitsOf(p, k, m)[q]) <=> q = 1
               /\ p = "cli" /\ q = 2 => UnitsOf(p, k, m)[q].part = "line"
               /\ p = "cli" => UnitsOf(p, k, m)[1].part = "status"
               /\ p = "aesp" => UnitsOf(p, k, m)[1].part = "magic"
               /\ p = "aesp" => UnitsOf(p, k, m)[q].part # "line"
<1>1. m.len \in Nat
  BY AnswersAssumption
<1>2. CASE p = "aesp"
  <2> DEFINE h == <<Unit(k, "magic", m), Unit(k, "length", m)>>
             b == [n \in 1..m.len |-> Unit(k, "payload", m)]
  <2>1. h \in Seq(Units(p)) /\ Len(h) = 2 /\ h[1] = Unit(k, "magic", m) /\ h[2] = Unit(k, "length", m)
    BY <1>2 DEF Units, Unit, Parts
  <2>2. b \in Seq(Units(p)) /\ Len(b) = m.len
    <3>1. b \in [1..m.len -> Units(p)]
      BY <1>2 DEF Units, Unit, Parts
    <3> QED BY <3>1, <1>1, SeqDef
  <2>3. /\ h \o b \in Seq(Units(p)) /\ Len(h \o b) = 2 + m.len
        /\ \A q \in 1..(2 + m.len) : (h \o b)[q] = IF q <= 2 THEN h[q] ELSE b[q - 2]
    BY <2>1, <2>2, <1>1, ConcatProperties
  <2>4. UnitsOf(p, k, m) = h \o b
    BY <1>2 DEF UnitsOf
  <2>5. \A q \in 1..(2 + m.len) :
          (h \o b)[q] = Unit(k, IF q = 1 THEN "magic" ELSE IF q = 2 THEN "length" ELSE "payload", m)
    BY <2>1, <2>2, <2>3, <1>1
  <2> HIDE DEF h, b
  <2> DEFINE w == UnitsOf(p, k, m)
  <2>6. w \in Seq(Units(p)) /\ Len(w) = 2 + m.len /\ LenOf(p, m) = 2 + m.len
    BY <1>2, <2>3, <2>4 DEF LenOf
  <2>7. \A q \in 1..(2 + m.len) :
          w[q] = Unit(k, IF q = 1 THEN "magic" ELSE IF q = 2 THEN "length" ELSE "payload", m)
    BY <2>4, <2>5
  <2> HIDE DEF w
  <2>8. \A q \in 1..(2 + m.len) :
          /\ w[q].of = k /\ w[q].msg = m
          /\ w[q].part = IF q = 1 THEN "magic" ELSE IF q = 2 THEN "length" ELSE "payload"
    <3>1. \A x : /\ Unit(k, x, m).of = k /\ Unit(k, x, m).msg = m
                 /\ Unit(k, x, m).part = x
      BY DEF Unit
    <3> QED BY <2>7, <3>1
  <2>9. 1 \in 1..(2 + m.len)
    BY <1>1
  <2> QED BY <1>1, <1>2, <2>6, <2>8, <2>9 DEF IsHead, w
<1>3. CASE p = "cli"
  BY <1>1, <1>3 DEF UnitsOf, LenOf, IsHead, Unit, Units, Parts
<1> QED BY <1>2, <1>3 DEF Protocols

-----------------------------------------------------------------------------
(* Streams.                                                                *)

LEMMA Slice ==
  ASSUME NEW p \in Protocols, NEW s \in Seq(Units(p)), NEW t \in Seq(Units(p)), NEW d \in Nat,
         Len(t) + d <= Len(s), \A i \in 1..Len(t) : t[i] = s[i + d],
         Follows(p, s)
  PROVE  /\ Follows(p, t)
         /\ Whole(p, s) /\ Len(t) + d = Len(s) => Whole(p, t)
<1>1. Len(s) \in Nat /\ Len(t) \in Nat
  OBVIOUS
<1>2. ASSUME NEW j \in 1..Len(t), IsHead(t[j])
      PROVE  /\ j + d \in 1..Len(s) /\ IsHead(s[j + d]) /\ s[j + d] = t[j]
             /\ LenOf(p, t[j].msg) \in Nat
  <2>1. t[j] \in Units(p)
    BY ElementOfSeq
  <2>2. t[j].msg \in Answers[p]
    BY <2>1 DEF Units
  <2>3. s[j + d] = t[j] /\ j + d \in 1..Len(s)
    BY <1>1
  <2> QED BY <1>2, <2>2, <2>3, LenFacts
<1>3. ASSUME NEW j \in 1..Len(t), IsHead(t[j]),
             NEW i \in 1..LenOf(p, t[j].msg), j + i - 1 <= Len(t)
      PROVE  t[j + i - 1] = UnitsOf(p, t[j].of, t[j].msg)[i]
  <2>1. j + i - 1 \in 1..Len(t) /\ (j + d) + i - 1 <= Len(s)
    BY <1>1, <1>2, <1>3, SMTT(30)
  <2>2. s[(j + d) + i - 1] = UnitsOf(p, s[j + d].of, s[j + d].msg)[i]
    BY <1>2, <1>3, <2>1 DEF Follows
  <2>3. t[j + i - 1] = s[(j + i - 1) + d] /\ (j + i - 1) + d = (j + d) + i - 1
    BY <1>2, <2>1
  <2> QED BY <1>2, <1>3, <2>2, <2>3
<1>4. ASSUME Whole(p, s), Len(t) + d = Len(s), NEW j \in 1..Len(t), IsHead(t[j])
      PROVE  j + LenOf(p, t[j].msg) - 1 <= Len(t)
  <2>1. (j + d) + LenOf(p, s[j + d].msg) - 1 <= Len(s)
    BY <1>2, <1>4 DEF Whole
  <2> QED BY <1>1, <1>2, <1>4, <2>1, SMTT(30)
<1> QED BY <1>3, <1>4 DEF Follows, Whole

LEMMA AnswerAppended ==
  ASSUME NEW p \in Protocols, NEW s \in Seq(Units(p)), NEW k \in Nat, NEW m \in Answers[p],
         Follows(p, s), Whole(p, s)
  PROVE  /\ Follows(p, s \o UnitsOf(p, k, m))
         /\ Whole(p, s \o UnitsOf(p, k, m))
<1> DEFINE w == UnitsOf(p, k, m)
           t == s \o w
<1>1. /\ w \in Seq(Units(p)) /\ Len(w) = LenOf(p, m) /\ LenOf(p, m) \in Nat \ {0}
      /\ \A q \in 1..LenOf(p, m) : w[q].of = k /\ w[q].msg = m /\ (IsHead(w[q]) <=> q = 1)
  BY UnitsFacts DEF LenOf
<1>2. /\ t \in Seq(Units(p)) /\ Len(s) \in Nat /\ Len(t) = Len(s) + LenOf(p, m)
      /\ \A i \in 1..(Len(s) + LenOf(p, m)) :
            t[i] = IF i <= Len(s) THEN s[i] ELSE w[i - Len(s)]
  <2>1. /\ s \o w \in Seq(Units(p)) /\ Len(s \o w) = Len(s) + Len(w)
        /\ \A i \in 1 .. Len(s) + Len(w) :
              (s \o w)[i] = IF i <= Len(s) THEN s[i] ELSE w[i - Len(s)]
    BY <1>1, ConcatProperties
  <2>2. Len(s) \in Nat
    OBVIOUS
  <2> QED BY <1>1, <2>1, <2>2
<1> HIDE DEF w, t
<1>3. ASSUME NEW j \in 1..Len(t), IsHead(t[j])
      PROVE  /\ j <= Len(s) => t[j] = s[j] /\ j + LenOf(p, t[j].msg) - 1 <= Len(s)
                               /\ LenOf(p, t[j].msg) \in Nat
             /\ j > Len(s) => j = Len(s) + 1 /\ t[j].of = k /\ t[j].msg = m
  <2>1. CASE j <= Len(s)
    <3>1. t[j] = s[j] /\ j \in 1..Len(s)
      BY <1>1, <1>2, <2>1
    <3>2. s[j] \in Units(p)
      BY <3>1, ElementOfSeq
    <3>3. LenOf(p, s[j].msg) \in Nat
      BY <3>2, LenFacts DEF Units
    <3>4. j + LenOf(p, s[j].msg) - 1 <= Len(s)
      BY <1>3, <3>1 DEF Whole
    <3> QED BY <2>1, <3>1, <3>3, <3>4
  <2>2. CASE j > Len(s)
    <3>1. t[j] = w[j - Len(s)] /\ j - Len(s) \in 1..LenOf(p, m)
      BY <1>1, <1>2, <2>2
    <3>2. IsHead(w[j - Len(s)])
      BY <1>3, <3>1
    <3>3. j - Len(s) = 1
      BY <1>1, <3>1, <3>2
    <3> QED BY <1>1, <1>2, <2>2, <3>1, <3>3
  <2> QED BY <1>2, <2>1, <2>2
<1>4. ASSUME NEW j \in 1..Len(t), IsHead(t[j]),
             NEW i \in 1..LenOf(p, t[j].msg), j + i - 1 <= Len(t)
      PROVE  t[j + i - 1] = UnitsOf(p, t[j].of, t[j].msg)[i]
  <2>1. CASE j <= Len(s)
    <3>1. j + i - 1 \in 1..Len(s) /\ t[j] = s[j]
      BY <1>2, <1>3, <1>4, <2>1
    <3>2. t[j + i - 1] = s[j + i - 1]
      BY <1>1, <1>2, <3>1
    <3> QED BY <1>2, <1>4, <2>1, <3>1, <3>2 DEF Follows
  <2>2. CASE j > Len(s)
    <3>1. j = Len(s) + 1 /\ t[j].of = k /\ t[j].msg = m
      BY <1>3, <1>4, <2>2
    <3>2. t[j + i - 1] = w[i]
      BY <1>1, <1>2, <1>4, <3>1
    <3> QED BY <3>1, <3>2 DEF w
  <2> QED BY <1>2, <2>1, <2>2
<1>5. ASSUME NEW j \in 1..Len(t), IsHead(t[j]) PROVE j + LenOf(p, t[j].msg) - 1 <= Len(t)
  BY <1>1, <1>2, <1>3, <1>5, SMTT(30)
<1> QED BY <1>4, <1>5 DEF Follows, Whole, t, w
-----------------------------------------------------------------------------
(* The stream of a case: read, on its way, still to be sent.               *)
Joint(a, b, c) == a \o b \o c

LEMMA Joined ==
  ASSUME NEW S, NEW a \in Seq(S), NEW b \in Seq(S), NEW c \in Seq(S)
  PROVE  /\ Len(a) \in Nat /\ Len(b) \in Nat /\ Len(c) \in Nat
         /\ a \o b \o c \in Seq(S)
         /\ Len(a \o b \o c) = Len(a) + Len(b) + Len(c)
         /\ \A i \in 1..(Len(a) + Len(b) + Len(c)) :
               (a \o b \o c)[i] = IF i <= Len(a) THEN a[i]
                                  ELSE IF i <= Len(a) + Len(b) THEN b[i - Len(a)]
                                  ELSE c[i - Len(a) - Len(b)]
<1>1. Len(a) \in Nat /\ Len(b) \in Nat /\ Len(c) \in Nat
  OBVIOUS
<1>2. /\ a \o b \in Seq(S) /\ Len(a \o b) = Len(a) + Len(b)
      /\ \A i \in 1..(Len(a) + Len(b)) : (a \o b)[i] = IF i <= Len(a) THEN a[i] ELSE b[i - Len(a)]
  BY ConcatProperties
<1> DEFINE ab == a \o b
<1> HIDE DEF ab
<1>3. ab \in Seq(S)
  BY <1>2 DEF ab
<1>4. /\ ab \o c \in Seq(S) /\ Len(ab \o c) = Len(ab) + Len(c)
      /\ \A i \in 1..(Len(ab) + Len(c)) :
            (ab \o c)[i] = IF i <= Len(ab) THEN ab[i] ELSE c[i - Len(ab)]
  BY <1>3, ConcatProperties
<1>5. Len(ab) = Len(a) + Len(b)
  BY <1>2 DEF ab
<1>6. \A i \in 1..(Len(a) + Len(b)) : ab[i] = IF i <= Len(a) THEN a[i] ELSE b[i - Len(a)]
  BY <1>2 DEF ab
<1>7. \A i \in 1..(Len(a) + Len(b) + Len(c)) :
         (ab \o c)[i] = IF i <= Len(a) THEN a[i]
                        ELSE IF i <= Len(a) + Len(b) THEN b[i - Len(a)]
                        ELSE c[i - Len(a) - Len(b)]
  BY <1>1, <1>4, <1>5, <1>6
<1> QED BY <1>1, <1>4, <1>5, <1>7 DEF ab

(* recv: the first n units change sides.                                   *)
LEMMA TakenOver ==
  ASSUME NEW S, NEW a \in Seq(S), NEW b \in Seq(S), NEW c \in Seq(S), NEW n \in 1..Len(b)
  PROVE  /\ a \o SubSeq(b, 1, n) \in Seq(S) /\ SubSeq(b, n + 1, Len(b)) \in Seq(S)
         /\ Joint(a \o SubSeq(b, 1, n), SubSeq(b, n + 1, Len(b)), c) = Joint(a, b, c)
<1> DEFINE h == SubSeq(b, 1, n)
           t == SubSeq(b, n + 1, Len(b))
<1>1. Len(b) \in Nat \ {0} /\ n \in Nat /\ n <= Len(b)
  OBVIOUS
<1>2. h \in Seq(S) /\ t \in Seq(S)
  BY <1>1
<1>3. h \o t = b
  <2>1. 1 \in 1..(Len(b) + 1) /\ n \in (1 - 1)..Len(b) /\ Len(b) \in n..Len(b)
    BY <1>1
  <2>2. h \o t = SubSeq(b, 1, Len(b))
    BY <2>1, ConcatAdjacentSubSeq
  <2> QED BY <2>2, SubSeqFull
<1> HIDE DEF h, t
<1>4. \A u, v \in Seq(S) : (a \o u) \o v = a \o (u \o v)
  BY SMTT(30)
<1>5. a \o h \in Seq(S)
  BY <1>2
<1>6. (a \o h) \o t = a \o b
  BY <1>2, <1>3, <1>4
<1>7. (a \o h) \o t \o c = a \o b \o c
  BY <1>6
<1> QED BY <1>2, <1>5, <1>7 DEF h, t, Joint

(* The server's end puts one unit more on its way.                         *)
LEMMA PutOnItsWay ==
  ASSUME NEW S, NEW a \in Seq(S), NEW b \in Seq(S), NEW c \in Seq(S), c # << >>
  PROVE  /\ Append(b, Head(c)) \in Seq(S) /\ Tail(c) \in Seq(S)
         /\ Joint(a, Append(b, Head(c)), Tail(c)) = Joint(a, b, c)
<1>1. Head(c) \in S /\ Tail(c) \in Seq(S) /\ Append(b, Head(c)) \in Seq(S)
  BY HeadTailProperties
<1> DEFINE x == <<Head(c)>>
           t == Tail(c)
           ab == a \o b
<1>2. x \in Seq(S) /\ t \in Seq(S) /\ ab \in Seq(S)
  BY <1>1
<1>3. x \o t = c
  <2>1. Len(c) \in Nat \ {0}
    BY EmptySeq
  <2>2. 1 \in 1..Len(c) /\ Len(c) \in 1..Len(c)
    BY <2>1
  <2>3. SubSeq(c, 1, Len(c)) = <<c[1]>> \o SubSeq(c, 1 + 1, Len(c))
    BY <2>2, SubSeqRecursiveFirst
  <2>4. SubSeq(c, 1, Len(c)) = c /\ t = SubSeq(c, 2, Len(c)) /\ x = <<c[1]>>
    BY SubSeqFull, TailIsSubSeq
  <2> QED BY <2>3, <2>4
<1>4. Append(b, Head(c)) = b \o x
  BY <1>1, AppendIsConcat
<1> HIDE DEF x, t
<1>5. \A u, v, w \in Seq(S) : (u \o v) \o w = u \o (v \o w)
  BY SMTT(30)
<1>6. (ab \o x) \o t = ab \o (x \o t)
  BY <1>2, <1>5, ZenonT(30)
<1>7. (a \o b) \o x = a \o (b \o x)
  BY <1>2, <1>5, SMTT(30)
<1>8. a \o (b \o x) \o t = a \o b \o c
  BY <1>3, <1>6, <1>7 DEF ab
<1>9. a \o Append(b, Head(c)) \o t = a \o b \o c
  BY <1>4, <1>8
<1> QED BY <1>1, <1>9 DEF t, Joint
-----------------------------------------------------------------------------
(* The invariant.                                                          *)

Stream == buf \o wire \o outbox

CaseTypes ==
    /\ rpc \in {"idle", "send", "read", "done", "raised"}
    /\ step \in Nat \ {0}
    /\ closed \in BOOLEAN /\ inbox \in Seq(Nat)
    /\ IsSeq(results)

(* While a case is run.                                                    *)
Streams ==
    /\ IsCase(case)
    /\ buf \in Seq(Units(case.protocol)) /\ wire \in Seq(Units(case.protocol))
    /\ outbox \in Seq(Units(case.protocol))
    /\ Follows(case.protocol, Stream)
    /\ closed \/ Whole(case.protocol, Stream)
    /\ closed => inbox = << >> /\ outbox = << >>

(* What a record says, and what it was made from.                          *)
Faithful(p, n, took) ==
    /\ n.class \notin {"timeout", "disconnect"} /\ n.type # "UNKNOWN" => OneAnswer(p, took)
    /\ n.class = "timeout" /\ ~n.malformed =>
          took = << >> \/ (took[1].part = "magic" /\ Len(took) = 2 /\ took[1].msg.len > 0)

Recorded(k) ==
    /\ Faithful(case.protocol, results[k].norm, results[k].took)
    /\ results[k].pass <=> Matches(case.protocol, results[k].norm, case.steps[k].expect)

Progress ==
    /\ step <= Len(case.steps)
    /\ rpc \in {"send", "read"} => Len(results) = step - 1
    /\ rpc = "done" => Len(results) = step
                       /\ (results[step].pass => step = Len(case.steps))
    /\ \A k \in DOMAIN results : Recorded(k)

(* In a case that puts up with neither silence nor disconnection, nothing  *)
(* but the answer to the step in progress is ever in the stream.           *)
Ordered ==
    Strict(case) /\ StepsPass =>
        /\ OwnAnswers
        /\ rpc = "send" => Stream = << >> /\ inbox = << >>
        /\ rpc = "read" =>
              \/ inbox = <<step>> /\ Stream = << >>
              \/ /\ inbox = << >>
                 /\ \/ Stream = << >>
                    \/ \E m \in Answers[case.protocol] :
                           Prefix(Stream, UnitsOf(case.protocol, step, m))

CaseInv ==
    /\ CaseTypes
    /\ rpc = "idle" => results = << >>
    /\ rpc # "idle" => Streams /\ Progress /\ Ordered

-----------------------------------------------------------------------------
(* What one read makes of the front of the stream.                         *)

LEMMA FrontOfStream ==
  ASSUME CaseTypes, Streams
  PROVE  /\ case.protocol \in Protocols
         /\ Len(buf) \in Nat /\ Len(wire) \in Nat /\ Len(outbox) \in Nat
         /\ Stream \in Seq(Units(case.protocol))
         /\ Len(Stream) = Len(buf) + Len(wire) + Len(outbox)
         /\ \A i \in 1..Len(buf) : Stream[i] = buf[i]
         /\ Follows(case.protocol, buf)
<1> DEFINE p == case.protocol
<1>1. p \in Protocols
  BY DEF Streams, IsCase
<1>2. buf \in Seq(Units(p)) /\ wire \in Seq(Units(p)) /\ outbox \in Seq(Units(p))
  BY DEF Streams
<1>3. Follows(p, Stream)
  BY DEF Streams
<1> HIDE DEF p
<1>4. /\ Len(buf) \in Nat /\ Len(wire) \in Nat /\ Len(outbox) \in Nat
      /\ Stream \in Seq(Units(p))
      /\ Len(Stream) = Len(buf) + Len(wire) + Len(outbox)
      /\ \A i \in 1..(Len(buf) + Len(wire) + Len(outbox)) :
            Stream[i] = IF i <= Len(buf) THEN buf[i]
                        ELSE IF i <= Len(buf) + Len(wire) THEN wire[i - Len(buf)]
                        ELSE outbox[i - Len(buf) - Len(wire)]
  BY <1>2, Joined DEF Stream
<1>5. \A i \in 1..Len(buf) : Stream[i] = buf[i]
  BY <1>4
<1>6. Len(buf) + 0 <= Len(Stream) /\ 0 \in Nat /\ \A i \in 1..Len(buf) : buf[i] = Stream[i + 0]
  BY <1>4, <1>5
<1>7. Follows(p, buf)
  BY <1>1, <1>2, <1>3, <1>4, <1>6, Slice
<1> QED BY <1>1, <1>4, <1>5, <1>7 DEF p

(* An answer that is there from its head, as far as it is there.           *)
LEMMA HeadOfAnswer ==
  ASSUME NEW p \in Protocols, NEW b \in Seq(Units(p)), b # << >>, Follows(p, b), IsHead(b[1])
  PROVE  LET w == UnitsOf(p, b[1].of, b[1].msg)
         IN /\ b[1].of \in Nat /\ b[1].msg \in Answers[p]
            /\ w \in Seq(Units(p)) /\ Len(w) = LenOf(p, b[1].msg)
            /\ \A i \in 1..LenOf(p, b[1].msg) : i <= Len(b) => b[i] = w[i]
            /\ Len(b) = LenOf(p, b[1].msg) => b = w
<1> DEFINE w == UnitsOf(p, b[1].of, b[1].msg)
<1>1. Len(b) \in Nat \ {0}
  BY EmptySeq
<1>2. b[1] \in Units(p)
  BY <1>1, ElementOfSeq
<1>3. b[1].of \in Nat /\ b[1].msg \in Answers[p]
  BY <1>2 DEF Units
<1>4. w \in Seq(Units(p)) /\ Len(w) = LenOf(p, b[1].msg) /\ LenOf(p, b[1].msg) \in Nat
  BY <1>3, UnitsFacts, LenFacts
<1>5. ASSUME NEW i \in 1..LenOf(p, b[1].msg), i <= Len(b) PROVE b[i] = w[i]
  <2>1. 1 \in 1..Len(b) /\ 1 + i - 1 = i
    BY <1>1, <1>4
  <2> QED BY <1>5, <2>1 DEF Follows
<1> HIDE DEF w
<1>6. Len(b) = LenOf(p, b[1].msg) => b = w
  <2> SUFFICES ASSUME Len(b) = LenOf(p, b[1].msg) PROVE b = w
    OBVIOUS
  <2>1. \A i \in 1..Len(b) : b[i] = w[i]
    BY <1>1, <1>5
  <2> QED BY <1>4, <2>1, SeqEqual
<1> QED BY <1>3, <1>4, <1>5, <1>6 DEF w

(* No answer is normalized to a silence.                                   *)
LEMMA AnswersAreNoSilence ==
  /\ \A m \in Answers["aesp"] : NormalizeAesp(m).class # "timeout"
  /\ \A v, t, d : NormalizeCli(v, t, d).class # "timeout" /\ NormalizeCli(v, t, d).type = t
<1>1. ASSUME NEW m \in Answers["aesp"] PROVE PayloadClass(m) # "timeout"
  <2>1. \A t \in DOMAIN ClassOfType : ClassOfType[t] # "timeout"
    BY DEF ClassOfType
  <2>2. m.type = "INFO" => m.body # "timeout"
    BY AnswersAssumption DEF Protocols
  <2> QED BY <2>1, <2>2 DEF PayloadClass
<1>2. ASSUME NEW v, NEW d PROVE DataClass(v, d) # "timeout"
  <2>1. /\ \A t \in DOMAIN EarlyClass : EarlyClass[t] # "timeout"
        /\ \A t \in DOMAIN LateClass : LateClass[t] # "timeout"
    BY DEF EarlyClass, LateClass
  <2> QED BY <2>1 DEF DataClass
<1>3. \A a, b, c, d, e : Record(a, b, c, d, e).class = c /\ Record(a, b, c, d, e).type = a
  BY DEF Record
<1> QED BY <1>1, <1>2, <1>3 DEF NormalizeAesp, NormalizeCli

LEMMA WholeIsOneAnswer ==
  ASSUME NEW p \in Protocols, NEW k \in Nat, NEW m \in Answers[p]
  PROVE  OneAnswer(p, UnitsOf(p, k, m)) /\ UnitsOf(p, k, m)[1].of = k
<1> DEFINE w == UnitsOf(p, k, m)
<1>0. LenOf(p, m) \in Nat \ {0}
  BY LenFacts
<1>1. w \in Seq(Units(p)) /\ Len(w) = LenOf(p, m) /\ LenOf(p, m) \in Nat \ {0}
  BY <1>0, UnitsFacts
<1>2. w[1].of = k /\ w[1].msg = m
  BY <1>1, UnitsFacts
<1>3. w # << >> /\ UnitsOf(p, w[1].of, w[1].msg) = w
  BY <1>1, <1>2
<1> HIDE DEF w
<1> QED BY <1>2, <1>3 DEF OneAnswer, Prefix, w

(* read_message: the units from a good header to the end of its payload.   *)
LEMMA MessageIsWhole ==
  ASSUME CaseTypes, Streams, case.protocol = "aesp", WholeMessage(buf)
  PROVE  /\ buf # << >> /\ buf[1].of \in Nat /\ buf[1].msg \in Answers["aesp"]
         /\ buf = UnitsOf("aesp", buf[1].of, buf[1].msg)
         /\ Len(buf) = LenOf("aesp", buf[1].msg)
<1>1. "aesp" \in Protocols
  BY DEF Protocols
<1>2. buf \in Seq(Units("aesp")) /\ Follows("aesp", buf) /\ Len(buf) \in Nat
  BY FrontOfStream DEF Streams
<1>3. buf # << >> /\ buf[1].part = "magic" /\ Len(buf) = 2 + buf[1].msg.len
  BY <1>2 DEF WholeMessage, BadHeader, Misaligned
<1>4. IsHead(buf[1]) /\ Len(buf) = LenOf("aesp", buf[1].msg)
  BY <1>3 DEF IsHead, LenOf
<1> QED BY <1>1, <1>2, <1>3, <1>4, HeadOfAnswer

(* read_reply: a first line that begins with a status prefix is an answer, *)
(* any other one is the end of one.                                        *)
LEMMA LineOrItsEnd ==
  ASSUME CaseTypes, Streams, case.protocol = "cli", buf # << >>
  PROVE  /\ buf[1].of \in Nat /\ buf[1].msg \in Answers["cli"]
         /\ buf[1].part = "status" /\ Newlines(buf) # {} =>
               /\ FirstLine(buf) = UnitsOf("cli", buf[1].of, buf[1].msg)
               /\ Len(buf) >= 2
         /\ buf[1].part = "status" /\ Newlines(buf) = {} =>
               Len(buf) = 1 /\ Prefix(buf, UnitsOf("cli", buf[1].of, buf[1].msg))
         /\ buf[1].part # "status" =>
               /\ Newlines(buf) # {} /\ FirstLine(buf) = <<buf[1]>>
<1>1. "cli" \in Protocols
  BY DEF Protocols
<1>2. /\ buf \in Seq(Units("cli")) /\ Follows("cli", buf) /\ Len(buf) \in Nat \ {0}
      /\ DOMAIN buf = 1..Len(buf)
  BY FrontOfStream, EmptySeq DEF Streams
<1>3. buf[1] \in Units("cli") /\ 1 \in 1..Len(buf)
  BY <1>2, ElementOfSeq
<1>4. buf[1].of \in Nat /\ buf[1].msg \in Answers["cli"] /\ buf[1].part \in {"status", "line"}
  BY <1>3 DEF Units, Parts
<1>5. CASE buf[1].part = "status"
  <2> DEFINE w == UnitsOf("cli", buf[1].of, buf[1].msg)
  <2>1. IsHead(buf[1]) /\ LenOf("cli", buf[1].msg) = 2
    BY <1>5 DEF IsHead, LenOf
  <2>2. /\ w \in Seq(Units("cli")) /\ Len(w) = 2
        /\ \A i \in 1..2 : i <= Len(buf) => buf[i] = w[i]
    BY <1>1, <1>2, <2>1, HeadOfAnswer
  <2>3. w[2].part = "line"
    BY <1>1, <1>4, <2>1, UnitsFacts
  <2> HIDE DEF w
  <2>4. Len(buf) >= 2 => buf[2].part = "line" /\ 2 \in Newlines(buf)
    BY <1>2, <2>2, <2>3 DEF Newlines
  <2>5. 1 \notin Newlines(buf)
    BY <1>5 DEF Newlines
  <2>6. ASSUME Newlines(buf) # {} PROVE Len(buf) >= 2 /\ FirstLine(buf) = w
    <3>1. \A n \in Newlines(buf) : n \in Nat /\ n >= 2 /\ n <= Len(buf)
      BY <1>2, <2>5 DEF Newlines
    <3>2. Len(buf) >= 2
      BY <1>2, <2>6, <3>1
    <3>3. (CHOOSE n \in Newlines(buf) : \A o \in Newlines(buf) : n <= o) = 2
      BY <2>4, <3>1, <3>2
    <3>4. FirstLine(buf) = SubSeq(buf, 1, 2)
      BY <3>3 DEF FirstLine
    <3>5. /\ SubSeq(buf, 1, 2) \in Seq(Units("cli")) /\ Len(SubSeq(buf, 1, 2)) = 2
          /\ \A i \in 1..2 : SubSeq(buf, 1, 2)[i] = buf[i]
      BY <1>2, <3>2
    <3>6. SubSeq(buf, 1, 2) = w
      <4>1. \A i \in 1..Len(SubSeq(buf, 1, 2)) : SubSeq(buf, 1, 2)[i] = w[i]
        BY <1>2, <2>2, <3>2, <3>5
      <4> QED BY <2>2, <3>5, <4>1, SeqEqual
    <3> QED BY <3>2, <3>4, <3>6
  <2>7. ASSUME Newlines(buf) = {} PROVE Len(buf) = 1 /\ Prefix(buf, w)
    <3>1. Len(buf) = 1
      BY <1>2, <2>4, <2>7
    <3> QED BY <1>2, <2>2, <3>1 DEF Prefix
  <2> QED BY <1>4, <1>5, <2>6, <2>7 DEF w
<1>6. CASE buf[1].part # "status"
  <2>1. buf[1].part = "line" /\ 1 \in Newlines(buf)
    BY <1>2, <1>3, <1>4, <1>6 DEF Newlines
  <2>2. \A n \in Newlines(buf) : n \in Nat /\ 1 <= n
    BY <1>2 DEF Newlines
  <2>3. (CHOOSE n \in Newlines(buf) : \A o \in Newlines(buf) : n <= o) = 1
    BY <2>1, <2>2
  <2>4. FirstLine(buf) = SubSeq(buf, 1, 1)
    BY <2>3 DEF FirstLine
  <2> DEFINE h == SubSeq(buf, 1, 1)
  <2>5. h = <<buf[1]>>
    <3>1. h \in Seq(Units("cli")) /\ Len(h) = 1 /\ h[1] = buf[1]
      BY <1>2
    <3>2. /\ <<buf[1]>> \in Seq(Units("cli")) /\ Len(<<buf[1]>>) = 1
          /\ <<buf[1]>>[1] = buf[1]
      BY <1>3
    <3> HIDE DEF h
    <3>3. \A i \in 1..Len(h) : h[i] = <<buf[1]>>[i]
      BY <3>1, <3>2
    <3> QED BY <3>1, <3>2, <3>3, SeqEqual
  <2> QED BY <1>4, <1>6, <2>1, <2>4, <2>5
<1> QED BY <1>5, <1>6

LEMMA ReplyIsFaithful ==
  ASSUME CaseTypes, Streams, Decoded(buf) # << >>
  PROVE  Faithful(case.protocol, Normalize(Decoded(buf)), Decoded(buf))
<1>0. case.protocol \in Protocols
  BY FrontOfStream
<1>1. CASE case.protocol = "aesp"
  <2>1. WholeMessage(buf) /\ Decoded(buf) = buf
    BY <1>1 DEF Decoded
  <2>2. OneAnswer("aesp", buf) /\ buf[1].msg \in Answers["aesp"]
    BY <1>0, <1>1, <2>1, MessageIsWhole, WholeIsOneAnswer
  <2>3. Normalize(buf) = NormalizeAesp(buf[1].msg)
    BY <1>1 DEF Normalize
  <2> QED BY <1>1, <2>1, <2>2, <2>3, AnswersAreNoSilence DEF Faithful
<1>2. CASE case.protocol = "cli"
  <2>1. Newlines(buf) # {} /\ Decoded(buf) = FirstLine(buf)
    BY <1>2 DEF Decoded
  <2>2. buf # << >>
    BY <2>1 DEF Newlines
  <2> DEFINE l == FirstLine(buf)
  <2>3. Normalize(l) = NormalizeCli(case.steps[step].verb, LineStatus(l), LineData(l))
    BY <1>2 DEF Normalize
  <2>4. Normalize(l).class # "timeout" /\ Normalize(l).type = LineStatus(l)
    BY <2>3, AnswersAreNoSilence
  <2>5. LineStatus(l) # "UNKNOWN" => OneAnswer("cli", l)
    <3>1. CASE buf[1].part = "status"
      <4>1. l = UnitsOf("cli", buf[1].of, buf[1].msg)
        BY <1>2, <2>1, <2>2, <3>1, LineOrItsEnd
      <4> QED BY <1>0, <1>2, <2>2, <4>1, LineOrItsEnd, WholeIsOneAnswer
    <3>2. CASE buf[1].part # "status"
      <4>1. l = <<buf[1]>>
        BY <1>2, <2>2, <3>2, LineOrItsEnd
      <4>2. LineStatus(l) = "UNKNOWN"
        BY <3>2, <4>1 DEF LineStatus
      <4> QED BY <4>2
    <3> QED BY <3>1, <3>2
  <2> HIDE DEF l
  <2> QED BY <1>2, <2>1, <2>4, <2>5 DEF Faithful, l
<1> QED BY <1>0, <1>1, <1>2 DEF Protocols
-----------------------------------------------------------------------------
(* The end of a step.                                                      *)

LEMMA RestOfStream ==
  ASSUME CaseTypes, Streams
  PROVE  /\ << >> \o wire \o outbox \in Seq(Units(case.protocol))
         /\ Follows(case.protocol, << >> \o wire \o outbox)
         /\ Whole(case.protocol, Stream) => Whole(case.protocol, << >> \o wire \o outbox)
         /\ Len(Stream) = Len(buf) => << >> \o wire \o outbox = << >>
<1> DEFINE p == case.protocol
           t == << >> \o wire \o outbox
<1>1. p \in Protocols /\ Stream \in Seq(Units(p)) /\ Follows(p, Stream)
  BY FrontOfStream DEF Streams
<1>2. buf \in Seq(Units(p)) /\ wire \in Seq(Units(p)) /\ outbox \in Seq(Units(p))
  BY DEF Streams
<1> HIDE DEF p
<1>3. << >> \in Seq(Units(p)) /\ Len(<< >>) = 0
  BY EmptySeq
<1>4. /\ Len(wire) \in Nat /\ Len(outbox) \in Nat /\ Len(buf) \in Nat
      /\ t \in Seq(Units(p)) /\ Len(t) = 0 + Len(wire) + Len(outbox)
      /\ \A i \in 1..(0 + Len(wire) + Len(outbox)) :
            t[i] = IF i <= 0 THEN << >>[i] ELSE IF i <= 0 + Len(wire) THEN wire[i - 0]
                   ELSE outbox[i - 0 - Len(wire)]
  BY <1>2, <1>3, Joined
<1>5. /\ Len(Stream) = Len(buf) + Len(wire) + Len(outbox)
      /\ \A i \in 1..(Len(buf) + Len(wire) + Len(outbox)) :
            Stream[i] = IF i <= Len(buf) THEN buf[i]
                        ELSE IF i <= Len(buf) + Len(wire) THEN wire[i - Len(buf)]
                        ELSE outbox[i - Len(buf) - Len(wire)]
  BY <1>2, Joined DEF Stream
<1> HIDE DEF t
<1>6. Len(t) + Len(buf) = Len(Stream)
  BY <1>4, <1>5
<1>7. ASSUME NEW i \in 1..Len(t) PROVE t[i] = Stream[i + Len(buf)]
  <2>1. /\ i + Len(buf) \in 1..(Len(buf) + Len(wire) + Len(outbox))
        /\ ~(i + Len(buf) <= Len(buf)) /\ ~(i <= 0)
        /\ i + Len(buf) <= Len(buf) + Len(wire) <=> i <= 0 + Len(wire)
        /\ i + Len(buf) - Len(buf) = i /\ i - 0 = i
        /\ i + Len(buf) - Len(buf) - Len(wire) = i - 0 - Len(wire)
        /\ i \in 1..(0 + Len(wire) + Len(outbox))
    BY <1>4
  <2>2. t[i] = IF i <= 0 + Len(wire) THEN wire[i] ELSE outbox[i - 0 - Len(wire)]
    BY <1>4, <2>1
  <2>3. Stream[i + Len(buf)] = IF i <= 0 + Len(wire) THEN wire[i] ELSE outbox[i - 0 - Len(wire)]
    BY <1>5, <2>1
  <2> QED BY <2>2, <2>3
<1>8. Len(t) + Len(buf) <= Len(Stream)
  BY <1>4, <1>5, <1>6
<1>9. Follows(p, t) /\ (Whole(p, Stream) => Whole(p, t))
  BY <1>1, <1>4, <1>6, <1>7, <1>8, Slice
<1>10. Len(Stream) = Len(buf) => t = << >>
  BY <1>4, <1>6, EmptySeq
<1> QED BY <1>4, <1>9, <1>10 DEF p, t

(* What the step leaves is the rest of the stream, and one more record.    *)
LEMMA Concluded ==
  ASSUME CaseInv, rpc = "read", NEW n, NEW took, Conclude(n, took), UNCHANGED peer,
         Faithful(case.protocol, n, took),
         Strict(case) /\ StepsPass /\ Matches(case.protocol, n, case.steps[step].expect) =>
             /\ OneAnswer(case.protocol, took) /\ took[1].of = step
             /\ inbox = << >> /\ Len(Stream) = Len(buf)
  PROVE  CaseInv'
<1> DEFINE p == case.protocol
           r == [pass |-> Matches(p, n, case.steps[step].expect), norm |-> n, took |-> took]
<1>1. CaseTypes /\ Streams /\ Progress /\ Ordered
  BY DEF CaseInv
<1>2. /\ results' = Append(results, r) /\ buf' = << >> /\ case' = case
      /\ wire' = wire /\ outbox' = outbox /\ inbox' = inbox /\ closed' = closed
      /\ rpc' = (IF GoesOn(Matches(p, n, case.steps[step].expect)) THEN "send" ELSE "done")
      /\ step' = (IF GoesOn(Matches(p, n, case.steps[step].expect)) THEN step + 1 ELSE step)
  BY DEF Conclude, peer
<1>3. /\ r.norm = n /\ r.took = took
      /\ r.pass <=> Matches(p, n, case.steps[step].expect)
  OBVIOUS
<1> HIDE DEF r
<1>4. IsSeq(results) /\ step \in Nat \ {0} /\ Len(results) = step - 1
  BY <1>1 DEF CaseTypes, Progress
<1>5. /\ IsSeq(results') /\ Len(results') = step /\ DOMAIN results' = 1..step
      /\ DOMAIN results = 1..(step - 1)
      /\ \A k \in 1..(step - 1) : results'[k] = results[k]
      /\ results'[step] = r
  BY <1>2, <1>4, Appended
<1>6. Stream' = << >> \o wire \o outbox
  BY <1>2 DEF Stream
<1>7. CaseTypes'
  BY <1>1, <1>2, <1>4, <1>5 DEF CaseTypes
<1>8. Streams'
  <2>1. /\ Stream' \in Seq(Units(p)) /\ Follows(p, Stream')
        /\ Whole(p, Stream) => Whole(p, Stream')
    BY <1>1, <1>6, RestOfStream
  <2>2. << >> \in Seq(Units(p))
    BY EmptySeq
  <2> QED BY <1>1, <1>2, <2>1, <2>2 DEF Streams
<1>9. Progress'
  <2>1. \A k \in DOMAIN results' : Recorded(k)'
    <3> SUFFICES ASSUME NEW k \in 1..step PROVE Recorded(k)'
      BY <1>5
    <3>1. CASE k = step
      BY <1>2, <1>3, <1>5, <3>1 DEF Recorded
    <3>2. CASE k # step
      <4>1. k \in 1..(step - 1)
        BY <1>4, <3>2
      <4>2. Recorded(k) /\ results'[k] = results[k]
        BY <1>1, <1>5, <4>1 DEF Progress
      <4> QED BY <1>2, <4>2 DEF Recorded
    <3> QED BY <3>1, <3>2
  <2>2. step <= Len(case.steps) /\ Len(case.steps) \in Nat
    BY <1>1 DEF Progress, Streams, IsCase, IsSeq
  <2>3. CASE GoesOn(Matches(p, n, case.steps[step].expect))
    BY <1>2, <1>4, <1>5, <2>1, <2>2, <2>3 DEF Progress, GoesOn
  <2>4. CASE ~GoesOn(Matches(p, n, case.steps[step].expect))
    <3>1. r.pass => step = Len(case.steps)
      BY <1>3, <1>4, <2>2, <2>4 DEF GoesOn
    <3> QED BY <1>2, <1>4, <1>5, <2>1, <2>2, <2>4, <3>1 DEF Progress
  <2> QED BY <2>3, <2>4
<1>10. Ordered'
  <2> SUFFICES ASSUME Strict(case), StepsPass'
               PROVE  /\ OwnAnswers'
                      /\ rpc' # "read"
                      /\ Stream' = << >> /\ inbox' = << >>
    BY <1>2 DEF Ordered
  <2>1. StepsPass
    BY <1>4, <1>5 DEF StepsPass
  <2>2. r.pass
    BY <1>4, <1>5 DEF StepsPass
  <2>3. /\ OneAnswer(p, took) /\ took[1].of = step
        /\ inbox = << >> /\ Len(Stream) = Len(buf)
    BY <1>3, <2>1, <2>2
  <2>4. Stream' = << >>
    BY <1>1, <1>6, <2>3, RestOfStream
  <2>5. OwnAnswers'
    <3> SUFFICES ASSUME NEW k \in 1..step
                 PROVE  OneAnswer(p, results'[k].took) /\ results'[k].took[1].of = k
      BY <1>2, <1>5 DEF OwnAnswers
    <3>1. CASE k = step
      BY <1>3, <1>5, <2>3, <3>1
    <3>2. CASE k # step
      <4>1. k \in 1..(step - 1)
        BY <1>4, <3>2
      <4>2. OwnAnswers
        BY <1>1, <2>1 DEF Ordered
      <4> QED BY <1>5, <4>1, <4>2 DEF OwnAnswers
    <3> QED BY <3>1, <3>2
  <2> QED BY <1>2, <2>3, <2>4, <2>5
<1>11. rpc' # "idle"
  BY <1>2
<1> QED BY <1>7, <1>8, <1>9, <1>10, <1>11 DEF CaseInv

(* A step that expects neither is not met by a silence nor by a            *)
(* disconnection, protocol error or not.                                   *)
LEMMA StrictRefuses ==
  ASSUME Strict(case), step \in DOMAIN case.steps, NEW isError \in BOOLEAN
  PROVE  /\ ~Matches(case.protocol, Silent(case.protocol, isError), case.steps[step].expect)
         /\ ~Matches(case.protocol, Gone(case.protocol), case.steps[step].expect)
<1> DEFINE p == case.protocol
           e == case.steps[step].expect
           q == Silent(p, FALSE)
           n == Silent(p, isError)
<1>1. ~Matches(p, q, e) /\ ~Matches(p, Gone(p), e)
  BY DEF Strict
<1>2. /\ n.type = q.type /\ n.len = q.len /\ n.class = q.class
      /\ n.raw = q.raw /\ n.fields = q.fields
  BY DEF Silent, Record
<1> HIDE DEF n, q, p, e
<1>3. \A x : MatchOne(p, n, x) <=> MatchOne(p, q, x)
  BY <1>2 DEF MatchOne, MatchOneAesp, MatchOneCli, PayloadMatches, FieldsMatch
<1>4. Matches(p, n, e) <=> Matches(p, q, e)
  BY <1>2, <1>3 DEF Matches
<1> QED BY <1>1, <1>4 DEF n, q, p, e

(* In a strict case the answer being read is the only one in the stream.   *)
LEMMA OnlyAnswer ==
  ASSUME CaseInv, rpc = "read", Strict(case), StepsPass, buf # << >>
  PROVE  /\ inbox = << >> /\ buf[1].of = step /\ IsHead(buf[1])
         /\ Len(Stream) <= LenOf(case.protocol, buf[1].msg)
         /\ buf[1].msg \in Answers[case.protocol]
<1> DEFINE p == case.protocol
<1>1. CaseTypes /\ Streams /\ Ordered
  BY DEF CaseInv
<1>2. /\ p \in Protocols /\ Len(buf) \in Nat /\ Stream \in Seq(Units(p))
      /\ Len(Stream) >= Len(buf)
      /\ \A i \in 1..Len(buf) : Stream[i] = buf[i]
  BY <1>1, FrontOfStream
<1>3. buf \in Seq(Units(p))
  BY <1>1 DEF Streams
<1> HIDE DEF p
<1>4. Len(buf) # 0
  BY <1>3, EmptySeq
<1>5. Stream # << >> /\ Stream[1] = buf[1] /\ DOMAIN Stream = 1..Len(Stream)
  BY <1>2, <1>4, EmptySeq
<1>6. PICK m \in Answers[p] : Prefix(Stream, UnitsOf(p, step, m))
  BY <1>1, <1>5 DEF Ordered, p
<1>7. step \in Nat
  BY <1>1 DEF CaseTypes
<1>8. /\ Len(UnitsOf(p, step, m)) = LenOf(p, m) /\ LenOf(p, m) \in Nat \ {0}
      /\ 1 \in 1..LenOf(p, m)
  BY <1>2, <1>6, <1>7, UnitsFacts, LenFacts
<1>9. /\ UnitsOf(p, step, m)[1].of = step /\ UnitsOf(p, step, m)[1].msg = m
      /\ IsHead(UnitsOf(p, step, m)[1])
  BY <1>2, <1>6, <1>7, <1>8, UnitsFacts
<1>10. Stream[1] = UnitsOf(p, step, m)[1] /\ Len(Stream) <= LenOf(p, m)
  BY <1>2, <1>4, <1>5, <1>6, <1>8 DEF Prefix
<1>11. inbox = << >>
  BY <1>1, <1>5 DEF Ordered
<1> QED BY <1>5, <1>6, <1>9, <1>10, <1>11 DEF p

-----------------------------------------------------------------------------
(* The reader's steps.                                                     *)

LEMMA ReplyReadStep == CaseInv /\ ReplyRead => CaseInv'
<1> SUFFICES ASSUME CaseInv, ReplyRead PROVE CaseInv'
  OBVIOUS
<1>1. rpc = "read" /\ Decoded(buf) # << >> /\ UNCHANGED peer
  BY DEF ReplyRead
<1>2. CaseTypes /\ Streams
  BY <1>1 DEF CaseInv
<1>3. PICK n, took : /\ n = Normalize(Decoded(buf)) /\ took = Decoded(buf)
                     /\ Conclude(n, took)
  BY DEF ReplyRead
<1>4. Faithful(case.protocol, n, took)
  BY <1>1, <1>2, <1>3, ReplyIsFaithful
<1>5. ASSUME Strict(case), StepsPass
      PROVE  /\ OneAnswer(case.protocol, took) /\ took[1].of = step
             /\ inbox = << >> /\ Len(Stream) = Len(buf)
  <2>0. /\ case.protocol \in Protocols /\ Len(buf) \in Nat /\ Len(Stream) \in Nat
        /\ Len(buf) <= Len(Stream) /\ step \in Nat
    BY <1>2, FrontOfStream DEF CaseTypes
  <2>1. buf # << >>
    <3>1. CASE case.protocol = "aesp"
      BY <1>1, <3>1 DEF Decoded
    <3>2. CASE case.protocol = "cli"
      BY <1>1, <3>2 DEF Decoded, Newlines
    <3> QED BY <2>0, <3>1, <3>2 DEF Protocols
  <2>2. /\ inbox = << >> /\ buf[1].of = step /\ IsHead(buf[1])
        /\ Len(Stream) <= LenOf(case.protocol, buf[1].msg)
        /\ buf[1].msg \in Answers[case.protocol]
    BY <1>1, <1>5, <2>1, OnlyAnswer
  <2>3. took = UnitsOf(case.protocol, step, buf[1].msg) /\ Len(buf) >= LenOf(case.protocol, buf[1].msg)
    <3>1. CASE case.protocol = "aesp"
      <4>1. WholeMessage(buf) /\ took = buf
        BY <1>1, <1>3, <3>1 DEF Decoded
      <4> QED BY <1>2, <2>0, <2>2, <3>1, <4>1, MessageIsWhole
    <3>2. CASE case.protocol = "cli"
      <4>1. Newlines(buf) # {} /\ took = FirstLine(buf)
        BY <1>1, <1>3, <3>2 DEF Decoded
      <4>2. buf[1].part = "status"
        <5>1. buf \in Seq(Units("cli"))
          BY <1>2, <3>2 DEF Streams
        <5>2. buf[1] \in Units("cli")
          BY <2>1, <5>1, EmptySeq, ElementOfSeq
        <5>3. buf[1].part \in {"status", "line"}
          BY <5>2 DEF Units, Parts
        <5> QED BY <2>2, <5>3 DEF IsHead
      <4> QED BY <1>2, <2>1, <2>2, <3>2, <4>1, <4>2, LineOrItsEnd DEF LenOf
    <3> QED BY <2>0, <3>1, <3>2 DEF Protocols
  <2>4. LenOf(case.protocol, buf[1].msg) \in Nat
    BY <2>0, <2>2, LenFacts
  <2>5. OneAnswer(case.protocol, took) /\ took[1].of = step
    BY <2>0, <2>2, <2>3, WholeIsOneAnswer
  <2> QED BY <2>0, <2>2, <2>3, <2>4, <2>5
<1> QED BY <1>1, <1>3, <1>4, <1>5, Concluded

(* A silence and a disconnection leave a case that does not put up with    *)
(* them.                                                                   *)
LEMMA NothingReadStep ==
  ASSUME CaseInv, rpc = "read", UNCHANGED peer, NEW n, NEW took, Conclude(n, took),
         Faithful(case.protocol, n, took),
         (\E isError \in BOOLEAN : n = Silent(case.protocol, isError)) \/ n = Gone(case.protocol)
  PROVE  CaseInv'
<1>1. step \in DOMAIN case.steps
  <2>1. step \in Nat \ {0} /\ step <= Len(case.steps)
    BY DEF CaseInv, CaseTypes, Progress
  <2>2. DOMAIN case.steps = 1..Len(case.steps) /\ Len(case.steps) \in Nat
    BY LenProperties DEF CaseInv, Streams, IsCase, IsSeq
  <2> QED BY <2>1, <2>2
<1>2. Strict(case) => ~Matches(case.protocol, n, case.steps[step].expect)
  BY <1>1, StrictRefuses
<1> QED BY <1>2, Concluded

LEMMA SilentFacts ==
  ASSUME NEW p, NEW isError \in BOOLEAN
  PROVE  /\ Silent(p, isError).class = "timeout" /\ Silent(p, isError).malformed = isError
         /\ Gone(p).class = "disconnect"
BY DEF Silent, Gone, Record

LEMMA HeaderRefusedStep == CaseInv /\ HeaderRefused => CaseInv'
<1> SUFFICES ASSUME CaseInv, HeaderRefused PROVE CaseInv'
  OBVIOUS
<1>1. PICK n, took : n = Silent("aesp", TRUE) /\ Conclude(n, took)
  BY DEF HeaderRefused
<1>2. rpc = "read" /\ UNCHANGED peer /\ case.protocol = "aesp"
  BY DEF HeaderRefused, Refused
<1>3. Faithful(case.protocol, n, took)
  BY <1>1, SilentFacts DEF Faithful
<1> QED BY <1>1, <1>2, <1>3, NothingReadStep

LEMMA TimedOutStep == CaseInv /\ TimedOut => CaseInv'
<1> SUFFICES ASSUME CaseInv, TimedOut PROVE CaseInv'
  OBVIOUS
<1> DEFINE clean == buf = << >> \/ (case.protocol = "aesp" /\ AwaitsPayload(buf))
<1>1. \E isError \in BOOLEAN :
         (~isError => clean) /\ Conclude(Silent(case.protocol, isError), buf)
  <2>1. CASE clean
    <3>1. Conclude(Silent(case.protocol, FALSE), buf)
      BY <2>1, Zenon DEF TimedOut
    <3> QED BY <2>1, <3>1
  <2>2. CASE ~clean
    <3>1. Conclude(Silent(case.protocol, TRUE), buf)
      BY <2>2, Zenon DEF TimedOut
    <3> QED BY <2>2, <3>1
  <2> QED BY <2>1, <2>2
<1>2. rpc = "read" /\ UNCHANGED peer /\ Unfinished /\ CaseTypes /\ Streams
  BY DEF TimedOut, NothingArrived, CaseInv
<1>3. PICK isError \in BOOLEAN :
         (~isError => clean) /\ Conclude(Silent(case.protocol, isError), buf)
  BY <1>1
<1> DEFINE n == Silent(case.protocol, isError)
<1>4. n.class = "timeout" /\ (~n.malformed => clean)
  BY <1>3, SilentFacts
<1>5. clean => buf = << >> \/ (buf[1].part = "magic" /\ Len(buf) = 2 /\ buf[1].msg.len > 0)
  <2> SUFFICES ASSUME case.protocol = "aesp", AwaitsPayload(buf)
               PROVE  buf[1].part = "magic" /\ Len(buf) = 2 /\ buf[1].msg.len > 0
    OBVIOUS
  <2>1. Len(buf) = 2 /\ ~BadHeader(buf) /\ buf # << >>
    BY <1>2 DEF AwaitsPayload, Unfinished, Refused
  <2>2. buf[1].part = "magic"
    BY <2>1 DEF BadHeader, Misaligned
  <2>3. buf[1] \in Units("aesp")
    BY <1>2, <2>1, ElementOfSeq DEF Streams
  <2>4. buf[1].msg.len \in Nat
    BY <2>3, LenFacts DEF Units, Protocols
  <2>5. ~WholeMessage(buf)
    BY <1>2, <2>1 DEF Unfinished, Decoded
  <2> QED BY <2>1, <2>2, <2>4, <2>5 DEF WholeMessage
<1> HIDE DEF clean
<1>6. Faithful(case.protocol, n, buf)
  BY <1>4, <1>5 DEF Faithful
<1> HIDE DEF n
<1>7. \E b \in BOOLEAN : n = Silent(case.protocol, b)
  BY DEF n
<1>8. Conclude(n, buf)
  BY <1>3 DEF n
<1> QED BY <1>2, <1>6, <1>7, <1>8, NothingReadStep

LEMMA PeerGoneStep == CaseInv /\ PeerGone => CaseInv'
<1> SUFFICES ASSUME CaseInv, PeerGone PROVE CaseInv'
  OBVIOUS
<1>1. /\ rpc = "read" /\ UNCHANGED peer /\ Unfinished /\ CaseTypes /\ Streams
      /\ wire = << >> /\ outbox = << >> /\ step \in Nat
  BY DEF PeerGone, NothingArrived, CaseInv, Streams, CaseTypes
<1>2. case.protocol \in Protocols
  BY <1>1, FrontOfStream
<1>3. CASE Conclude(Gone(case.protocol), buf)
  <2>2. Faithful(case.protocol, Gone(case.protocol), buf)
    BY SilentFacts DEF Faithful
  <2> QED BY <1>1, <1>3, <2>2, NothingReadStep
<1>4. CASE buf # << >> /\ case.protocol = "aesp" /\ Conclude(Silent("aesp", TRUE), buf)
  <2>2. Faithful(case.protocol, Silent("aesp", TRUE), buf)
    BY SilentFacts DEF Faithful
  <2> QED BY <1>1, <1>4, <2>2, NothingReadStep
<1>5. CASE buf # << >> /\ case.protocol = "cli" /\ Conclude(Normalize(buf), buf)
  <2>2. Newlines(buf) = {}
    <3>1. Newlines(buf) # {} => FirstLine(buf) = << >>
      BY <1>1, <1>5 DEF Unfinished, Decoded
    <3> SUFFICES ASSUME Newlines(buf) # {} PROVE FALSE
      OBVIOUS
    <3>2. /\ buf[1].of \in Nat /\ buf[1].msg \in Answers["cli"]
          /\ \/ FirstLine(buf) = UnitsOf("cli", buf[1].of, buf[1].msg)
             \/ FirstLine(buf) = <<buf[1]>>
      BY <1>1, <1>5, LineOrItsEnd
    <3>3. UnitsOf("cli", buf[1].of, buf[1].msg) # << >>
      BY <1>2, <1>5, <3>2, WholeIsOneAnswer DEF OneAnswer
    <3> QED BY <3>1, <3>2, <3>3
  <2>3. buf[1].part = "status" /\ Len(buf) = 1
    BY <1>1, <1>5, <2>2, LineOrItsEnd
  <2>4. OneAnswer("cli", buf)
    BY <1>1, <1>5, <2>2, <2>3, LineOrItsEnd DEF OneAnswer
  <2>5. Normalize(buf).class # "timeout"
    BY <1>5, AnswersAreNoSilence DEF Normalize
  <2>6. Faithful(case.protocol, Normalize(buf), buf)
    BY <1>5, <2>4, <2>5 DEF Faithful
  <2>7. ASSUME Strict(case), StepsPass
        PROVE  inbox = << >> /\ buf[1].of = step /\ Len(Stream) = Len(buf)
    <3>1. inbox = << >> /\ buf[1].of = step
      BY <1>1, <1>5, <2>7, OnlyAnswer
    <3>2. Len(Stream) = Len(buf) + Len(wire) + Len(outbox) /\ Len(buf) \in Nat
      BY <1>1, FrontOfStream
    <3> QED BY <1>1, <3>1, <3>2, EmptySeq
  <2> QED BY <1>1, <1>5, <2>4, <2>6, <2>7, Concluded
<1> QED BY <1>3, <1>4, <1>5, Zenon DEF PeerGone

(* A step that concludes nothing keeps the records.                        *)
LEMMA SameRecords ==
  ASSUME UNCHANGED <<case, step, results>>
  PROVE  /\ (\A k \in DOMAIN results : Recorded(k)) => (\A k \in DOMAIN results : Recorded(k))'
         /\ StepsPass' = StepsPass /\ OwnAnswers' = OwnAnswers
<1>1. (\A k \in DOMAIN results : Recorded(k)) => (\A k \in DOMAIN results : Recorded(k))'
  BY DEF Recorded
<1>2. StepsPass' = StepsPass
  BY DEF StepsPass
<1>3. OwnAnswers' = OwnAnswers
  BY DEF OwnAnswers
<1> QED BY <1>1, <1>2, <1>3

LEMMA SendStepStep == CaseInv /\ SendStep => CaseInv'
<1> SUFFICES ASSUME CaseInv, SendStep PROVE CaseInv'
  OBVIOUS
<1>1. /\ rpc = "send" /\ rpc' = "read" /\ UNCHANGED <<case, step, results>>
      /\ UNCHANGED <<buf, outbox, wire, closed>>
      /\ inbox' = IF closed THEN inbox ELSE Append(inbox, step)
      /\ CaseTypes /\ Streams /\ Progress /\ Ordered
  BY DEF SendStep, CaseInv
<1>2. CaseTypes'
  BY <1>1 DEF CaseTypes
<1>3. Stream' = Stream
  BY <1>1 DEF Stream
<1>4. Streams'
  BY <1>1, <1>3 DEF Streams
<1>5. Progress'
  BY <1>1, SameRecords DEF Progress
<1>6. Ordered'
  <2> SUFFICES ASSUME Strict(case), StepsPass
               PROVE  /\ OwnAnswers' /\ Stream' = << >>
                      /\ inbox' = <<step>> \/ inbox' = << >>
    BY <1>1, SameRecords DEF Ordered
  <2>1. OwnAnswers /\ Stream = << >> /\ inbox = << >>
    BY <1>1 DEF Ordered
  <2>2. step \in Nat
    BY <1>1 DEF CaseTypes
  <2>3. Append(<< >>, step) = <<step>>
    BY <2>2
  <2> QED BY <1>1, <1>3, <2>1, <2>3, SameRecords
<1> QED BY <1>1, <1>2, <1>4, <1>5, <1>6 DEF CaseInv

LEMMA SendRaisesStep == CaseInv /\ SendRaises => CaseInv'
<1> SUFFICES ASSUME CaseInv, SendRaises PROVE CaseInv'
  OBVIOUS
<1>1. /\ rpc = "send" /\ rpc' = "raised" /\ UNCHANGED <<case, step, results>>
      /\ UNCHANGED <<buf, outbox, wire, closed, inbox>>
      /\ CaseTypes /\ Streams /\ Progress /\ Ordered
  BY DEF SendRaises, CaseInv, peer
<1>2. CaseTypes' /\ Stream' = Stream
  BY <1>1 DEF CaseTypes, Stream
<1>4. Streams'
  BY <1>1, <1>2 DEF Streams
<1>5. Progress'
  BY <1>1, SameRecords DEF Progress
<1>6. Ordered'
  BY <1>1, SameRecords DEF Ordered
<1> QED BY <1>1, <1>2, <1>4, <1>5, <1>6 DEF CaseInv

(* Units that change sides leave the stream as it is.                      *)
LEMMA SameStream ==
  ASSUME CaseInv, rpc # "idle", UNCHANGED <<case, rpc, step, results, inbox, closed>>,
         Stream' = Stream, closed => outbox' = << >>,
         buf' \in Seq(Units(case.protocol)), wire' \in Seq(Units(case.protocol)),
         outbox' \in Seq(Units(case.protocol))
  PROVE  CaseInv'
<1>1. CaseTypes /\ Streams /\ Progress /\ Ordered
  BY DEF CaseInv
<1>2. CaseTypes'
  BY <1>1 DEF CaseTypes
<1>3. Streams'
  BY <1>1 DEF Streams
<1>4. Progress'
  BY <1>1, SameRecords DEF Progress
<1>5. Ordered'
  BY <1>1, SameRecords DEF Ordered
<1> QED BY <1>2, <1>3, <1>4, <1>5 DEF CaseInv

LEMMA ReceiveStep == CaseInv /\ Receive => CaseInv'
<1> SUFFICES ASSUME CaseInv, Receive PROVE CaseInv'
  OBVIOUS
<1> DEFINE U == Units(case.protocol)
<1>1. /\ rpc = "read" /\ Streams /\ wire # << >>
      /\ UNCHANGED <<case, rpc, step, results, inbox, outbox, closed>>
  BY DEF Receive, CaseInv
<1>2. buf \in Seq(U) /\ wire \in Seq(U) /\ outbox \in Seq(U)
  BY <1>1 DEF Streams
<1>3. Len(wire) \in Nat \ {0}
  BY <1>1, <1>2, EmptySeq
<1>4. PICK n \in 1..(IF case.protocol = "aesp" THEN 1 ELSE Len(wire)) :
        buf' = buf \o SubSeq(wire, 1, n) /\ wire' = SubSeq(wire, n + 1, Len(wire))
  BY DEF Receive
<1>5. n \in 1..Len(wire)
  BY <1>3
<1> HIDE DEF U
<1>6. buf' \in Seq(U) /\ wire' \in Seq(U) /\ Joint(buf', wire', outbox) = Joint(buf, wire, outbox)
  <2>1. /\ buf \o SubSeq(wire, 1, n) \in Seq(U) /\ SubSeq(wire, n + 1, Len(wire)) \in Seq(U)
        /\ Joint(buf \o SubSeq(wire, 1, n), SubSeq(wire, n + 1, Len(wire)), outbox)
              = Joint(buf, wire, outbox)
    BY <1>2, <1>5, TakenOver
  <2> QED BY <1>4, <2>1
<1>7. Stream' = Stream
  BY <1>1, <1>6 DEF Stream, Joint
<1>8. closed => outbox' = << >>
  BY <1>1 DEF Streams
<1> QED BY <1>1, <1>2, <1>6, <1>7, <1>8, SameStream DEF U

-----------------------------------------------------------------------------
(* The server's steps.                                                     *)

LEMMA TransmitStep == CaseInv /\ Transmit => CaseInv'
<1> SUFFICES ASSUME CaseInv, Transmit PROVE CaseInv'
  OBVIOUS
<1> DEFINE U == Units(case.protocol)
<1>1. /\ rpc # "idle" /\ Streams /\ outbox # << >>
      /\ UNCHANGED <<case, rpc, step, results, inbox, closed, buf>>
      /\ wire' = Append(wire, Head(outbox)) /\ outbox' = Tail(outbox)
  BY DEF Transmit, Engaged, CaseInv, reader
<1>2. buf \in Seq(U) /\ wire \in Seq(U) /\ outbox \in Seq(U)
  BY <1>1 DEF Streams
<1> HIDE DEF U
<1>3. wire' \in Seq(U) /\ outbox' \in Seq(U) /\ Joint(buf, wire', outbox') = Joint(buf, wire, outbox)
  <2>1. /\ Append(wire, Head(outbox)) \in Seq(U) /\ Tail(outbox) \in Seq(U)
        /\ Joint(buf, Append(wire, Head(outbox)), Tail(outbox)) = Joint(buf, wire, outbox)
    BY <1>1, <1>2, PutOnItsWay
  <2> QED BY <1>1, <2>1
<1>4. Stream' = Stream
  BY <1>1, <1>3 DEF Stream, Joint
<1>5. ~closed
  BY <1>1 DEF Streams
<1> QED BY <1>1, <1>2, <1>3, <1>4, <1>5, SameStream DEF U

LEMMA IgnoreStep == CaseInv /\ Ignore => CaseInv'
<1> SUFFICES ASSUME CaseInv, Ignore PROVE CaseInv'
  OBVIOUS
<1>1. /\ rpc # "idle" /\ inbox # << >> /\ inbox' = Tail(inbox)
      /\ UNCHANGED <<case, rpc, step, results, buf, outbox, wire, closed>>
      /\ CaseTypes /\ Streams /\ Progress /\ Ordered
  BY DEF Ignore, Engaged, CaseInv, reader
<1>2. CaseTypes' /\ Stream' = Stream
  BY <1>1 DEF CaseTypes, Stream
<1>3. Streams'
  BY <1>1, <1>2 DEF Streams
<1>4. Progress'
  BY <1>1, SameRecords DEF Progress
<1>5. Ordered'
  <2> SUFFICES ASSUME Strict(case), StepsPass
               PROVE  /\ OwnAnswers'
                      /\ rpc # "send"
                      /\ rpc = "read" => inbox' = << >> /\ Stream' = << >>
    BY <1>1, SameRecords DEF Ordered
  <2>1. step \in Nat => Tail(<<step>>) = << >>
    OBVIOUS
  <2> QED BY <1>1, <1>2, <2>1, SameRecords DEF Ordered, CaseTypes
<1> QED BY <1>1, <1>2, <1>3, <1>4, <1>5 DEF CaseInv

LEMMA AnswerStep == CaseInv /\ Answer => CaseInv'
<1> SUFFICES ASSUME CaseInv, Answer PROVE CaseInv'
  OBVIOUS
<1> DEFINE p == case.protocol
<1>1. /\ rpc # "idle" /\ inbox # << >> /\ inbox' = Tail(inbox) /\ outbox = << >>
      /\ UNCHANGED <<case, rpc, step, results, buf, wire, closed>>
      /\ CaseTypes /\ Streams /\ Progress /\ Ordered
  BY DEF Answer, Engaged, CaseInv, reader
<1>2. PICK m \in Answers[p] : outbox' = UnitsOf(p, Head(inbox), m)
  BY DEF Answer
<1>3. ~closed /\ inbox \in Seq(Nat) /\ Head(inbox) \in Nat
  BY <1>1 DEF CaseTypes, Streams
<1>4. p \in Protocols /\ Stream \in Seq(Units(p)) /\ Follows(p, Stream) /\ Whole(p, Stream)
  BY <1>1, <1>3, FrontOfStream DEF Streams
<1>5. buf \in Seq(Units(p)) /\ wire \in Seq(Units(p))
  BY <1>1 DEF Streams
<1> HIDE DEF p
<1> DEFINE w == UnitsOf(p, Head(inbox), m)
<1>6. w \in Seq(Units(p))
  BY <1>3, <1>4, UnitsFacts
<1>7. Stream' = Stream \o w
  <2>1. Stream = (buf \o wire) \o << >> /\ Stream' = (buf \o wire) \o w
    BY <1>1, <1>2 DEF Stream
  <2>2. buf \o wire \in Seq(Units(p))
    BY <1>5
  <2> HIDE DEF w
  <2> DEFINE bw == buf \o wire
  <2> HIDE DEF bw
  <2>3. bw \in Seq(Units(p)) => bw \o << >> = bw
    OBVIOUS
  <2> QED BY <2>1, <2>2, <2>3 DEF bw
<1>8. Follows(p, Stream') /\ Whole(p, Stream')
  BY <1>3, <1>4, <1>7, AnswerAppended
<1>9. CaseTypes'
  BY <1>1, <1>3 DEF CaseTypes
<1> HIDE DEF w
<1>10. outbox' \in Seq(Units(p))
  BY <1>2, <1>6 DEF w
<1>11. Streams'
  BY <1>1, <1>3, <1>5, <1>8, <1>10 DEF Streams, p
<1>12. Progress'
  BY <1>1, SameRecords DEF Progress
<1>13. Ordered'
  <2> SUFFICES ASSUME Strict(case), StepsPass
               PROVE  /\ OwnAnswers'
                      /\ rpc # "send"
                      /\ rpc = "read" => inbox' = << >> /\ Prefix(Stream', UnitsOf(p, step, m))
    BY <1>1, SameRecords DEF Ordered, p
  <2>1. OwnAnswers' /\ rpc # "send"
    BY <1>1, SameRecords DEF Ordered
  <2>2. ASSUME rpc = "read"
        PROVE  inbox' = << >> /\ Prefix(Stream', UnitsOf(p, step, m))
    <3>1. inbox = <<step>> /\ Stream = << >> /\ step \in Nat
      BY <1>1, <2>2 DEF Ordered, CaseTypes
    <3>2. Head(inbox) = step /\ inbox' = << >>
      BY <1>1, <3>1
    <3>3. << >> \o w = w
      BY <1>6
    <3>4. Stream' = w /\ w = UnitsOf(p, step, m)
      BY <1>7, <3>1, <3>2, <3>3 DEF w
    <3>5. Len(w) \in Nat
      BY <1>6
    <3> QED BY <3>2, <3>4, <3>5 DEF Prefix
  <2> QED BY <2>1, <2>2
<1> QED BY <1>1, <1>9, <1>11, <1>12, <1>13 DEF CaseInv

(* The server's end closes or breaks off: a beginning of the stream is     *)
(* left.                                                                   *)
LEMMA CutStep ==
  ASSUME CaseInv, Engaged, closed' = TRUE, inbox' = << >>, outbox' = << >>,
         UNCHANGED <<reader, wire>>
  PROVE  CaseInv'
<1> DEFINE p == case.protocol
<1>1. /\ rpc # "idle" /\ UNCHANGED <<case, rpc, step, results, buf>>
      /\ CaseTypes /\ Streams /\ Progress /\ Ordered
  BY DEF Engaged, CaseInv, reader
<1>2. p \in Protocols /\ Stream \in Seq(Units(p)) /\ Follows(p, Stream)
  BY <1>1, FrontOfStream DEF Streams
<1>3. buf \in Seq(Units(p)) /\ wire \in Seq(Units(p)) /\ outbox \in Seq(Units(p))
  BY <1>1 DEF Streams
<1> HIDE DEF p
<1> DEFINE t == buf \o wire \o << >>
<1>4. << >> \in Seq(Units(p)) /\ Len(<< >>) = 0
  BY EmptySeq
<1>5. /\ t \in Seq(Units(p)) /\ Len(buf) \in Nat /\ Len(wire) \in Nat
      /\ Len(t) = Len(buf) + Len(wire) + 0
      /\ \A i \in 1..(Len(buf) + Len(wire) + 0) :
            t[i] = IF i <= Len(buf) THEN buf[i]
                   ELSE IF i <= Len(buf) + Len(wire) THEN wire[i - Len(buf)]
                   ELSE << >>[i - Len(buf) - Len(wire)]
  BY <1>3, <1>4, Joined
<1>6. /\ Len(outbox) \in Nat /\ Len(Stream) = Len(buf) + Len(wire) + Len(outbox)
      /\ \A i \in 1..(Len(buf) + Len(wire) + Len(outbox)) :
            Stream[i] = IF i <= Len(buf) THEN buf[i]
                        ELSE IF i <= Len(buf) + Len(wire) THEN wire[i - Len(buf)]
                        ELSE outbox[i - Len(buf) - Len(wire)]
  BY <1>3, Joined DEF Stream
<1> HIDE DEF t
<1>7. Len(t) + 0 <= Len(Stream) /\ 0 \in Nat
  BY <1>5, <1>6
<1>8. ASSUME NEW i \in 1..Len(t) PROVE t[i] = Stream[i]
  <2>1. /\ i \in 1..(Len(buf) + Len(wire) + 0)
        /\ i \in 1..(Len(buf) + Len(wire) + Len(outbox)) /\ i <= Len(buf) + Len(wire)
    BY <1>5, <1>6
  <2>2. t[i] = IF i <= Len(buf) THEN buf[i] ELSE wire[i - Len(buf)]
    BY <1>5, <2>1
  <2>3. Stream[i] = IF i <= Len(buf) THEN buf[i] ELSE wire[i - Len(buf)]
    BY <1>6, <2>1
  <2> QED BY <2>2, <2>3
<1>9. Follows(p, t)
  <2>1. \A i \in 1..Len(t) : t[i] = Stream[i + 0]
    BY <1>5, <1>8
  <2> QED BY <1>2, <1>5, <1>7, <2>1, Slice
<1>10. Stream' = t
  BY <1>1 DEF Stream, t
<1>11. CaseTypes'
  BY <1>1, EmptySeq DEF CaseTypes
<1>12. Streams'
  BY <1>1, <1>3, <1>4, <1>9, <1>10 DEF Streams, p
<1>13. Progress'
  BY <1>1, SameRecords DEF Progress
<1>14. Ordered'
  <2> SUFFICES ASSUME Strict(case), StepsPass
               PROVE  /\ OwnAnswers'
                      /\ rpc = "send" => t = << >>
                      /\ rpc = "read" => \/ t = << >>
                                         \/ \E m \in Answers[p] : Prefix(t, UnitsOf(p, step, m))
    BY <1>1, <1>10, SameRecords DEF Ordered, p
  <2>1. Stream = << >> => t = << >>
    BY <1>4, <1>5, <1>7, EmptySeq
  <2>2. ASSUME NEW m \in Answers[p], Prefix(Stream, UnitsOf(p, step, m))
        PROVE  Prefix(t, UnitsOf(p, step, m))
    <3>1. Len(UnitsOf(p, step, m)) \in Nat
      BY <1>1, <1>2, UnitsFacts, LenFacts DEF CaseTypes
    <3>2. DOMAIN t = 1..Len(t) /\ DOMAIN Stream = 1..Len(Stream) /\ Len(t) \in Nat
      BY <1>2, <1>5
    <3> QED BY <1>7, <1>8, <2>2, <3>1, <3>2 DEF Prefix
  <2> QED BY <1>1, <2>1, <2>2, SameRecords DEF Ordered, p
<1> QED BY <1>1, <1>11, <1>12, <1>13, <1>14 DEF CaseInv

(* Text of a line, sent and received, is no unit.                          *)
LEMMA TextStep == CaseInv /\ (Dribble \/ ReceiveText) => CaseInv'
<1> SUFFICES ASSUME CaseInv, Dribble \/ ReceiveText PROVE CaseInv'
  OBVIOUS
<1>1. /\ rpc = "read" /\ Streams
      /\ UNCHANGED <<case, rpc, step, buf, results, inbox, outbox, wire, closed>>
  BY DEF Dribble, ReceiveText, reader, CaseInv
<1>2. Stream' = Stream
  BY <1>1 DEF Stream
<1> QED BY <1>1, <1>2, SameStream DEF Streams

LEMMA CaseStep == CaseInv /\ (Reader \/ Peer) => CaseInv'
<1>1. CaseInv /\ Hangup => CaseInv'
  <2> SUFFICES ASSUME CaseInv, Hangup PROVE CaseInv'
    OBVIOUS
  <2>1. /\ Engaged /\ closed' = TRUE /\ inbox' = << >> /\ outbox' = << >>
        /\ UNCHANGED <<reader, wire>>
    BY DEF Hangup
  <2> QED BY <2>1, CutStep
<1> QED BY <1>1, SendStepStep, SendRaisesStep, ReceiveStep, ReplyReadStep,
           HeaderRefusedStep, TimedOutStep, PeerGoneStep, AnswerStep, IgnoreStep,
           TransmitStep, TextStep DEF Reader, Peer

(* Between two cases.                                                      *)
LEMMA NoRecords ==
  IsSeq(<< >>) /\ Len(<< >>) = 0 /\ DOMAIN << >> = {} /\ << >> \in Seq(Nat)
<1>1. << >> \in Seq({}) /\ Len(<< >>) = 0 /\ DOMAIN << >> = {}
  BY EmptySeq
<1>2. {<< >>[n] : n \in DOMAIN << >>} = {}
  BY <1>1
<1>3. << >> \in Seq(Nat)
  BY EmptySeq
<1> QED BY <1>1, <1>2, <1>3 DEF IsSeq

LEMMA OpenCaseStep == ASSUME NEW c, IsCase(c), OpenCase(c) PROVE CaseInv'
<1>1. /\ case' = c /\ rpc' = "send" /\ step' = 1 /\ buf' = << >> /\ results' = << >>
      /\ inbox' = << >> /\ outbox' = << >> /\ wire' = << >> /\ closed' = FALSE
  BY DEF OpenCase
<1>2. CaseTypes'
  <2>1. IsSeq(results') /\ inbox' \in Seq(Nat)
    BY <1>1, NoRecords, Zenon
  <2>2. rpc' = "send" /\ step' \in Nat \ {0}
    BY <1>1
  <2>3. closed' \in BOOLEAN
    BY <1>1, Zenon
  <2> QED BY <2>1, <2>2, <2>3 DEF CaseTypes
<1>3. << >> \in Seq(Units(c.protocol)) /\ Len(<< >>) = 0
  BY EmptySeq
<1>4. Stream' = << >>
  <2>1. << >> \o << >> \o << >> = << >>
    OBVIOUS
  <2> QED BY <1>1, <2>1 DEF Stream
<1>5. Streams'
  BY <1>1, <1>3, <1>4 DEF Streams, Follows, Whole
<1>6. Len(c.steps) \in Nat \ {0}
  BY EmptySeq DEF IsCase, IsSeq
<1>7. Progress'
  BY <1>1, <1>6, NoRecords DEF Progress
<1>8. Ordered'
  BY <1>1, <1>4, NoRecords DEF Ordered, OwnAnswers
<1> QED BY <1>1, <1>2, <1>5, <1>7, <1>8 DEF CaseInv

LEMMA NoCaseInv ==
  /\ CaseInit => CaseInv
  /\ CloseCase => CaseInv'
<1>1. CaseInit => CaseInv
  <2> SUFFICES ASSUME CaseInit PROVE CaseInv
    OBVIOUS
  <2>1. IsSeq(results) /\ inbox \in Seq(Nat) /\ results = << >>
    BY NoRecords, Zenon DEF CaseInit
  <2>2. rpc = "idle" /\ step \in Nat \ {0}
    BY DEF CaseInit
  <2>3. closed \in BOOLEAN
    BY Zenon DEF CaseInit
  <2> QED BY <2>1, <2>2, <2>3 DEF CaseInv, CaseTypes
<1>2. CloseCase => CaseInv'
  <2> SUFFICES ASSUME CloseCase PROVE CaseInv'
    OBVIOUS
  <2>1. IsSeq(results') /\ inbox' \in Seq(Nat) /\ results' = << >>
    BY NoRecords, Zenon DEF CloseCase
  <2>2. rpc' = "idle" /\ step' \in Nat \ {0}
    BY DEF CloseCase
  <2>3. closed' \in BOOLEAN
    BY Zenon DEF CloseCase
  <2> QED BY <2>1, <2>2, <2>3 DEF CaseInv, CaseTypes
<1> QED BY <1>1, <1>2

LEMMA CaseUnchanged == CaseInv /\ UNCHANGED caseVars => CaseInv'
<1> SUFFICES ASSUME CaseInv, UNCHANGED caseVars PROVE CaseInv'
  OBVIOUS
<1>1. UNCHANGED <<case, rpc, step, buf, results, inbox, outbox, wire, closed>>
  BY DEF caseVars
<1>2. CASE rpc = "idle"
  BY <1>1, <1>2 DEF CaseInv, CaseTypes
<1>3. CASE rpc # "idle"
  <2>1. Streams /\ Stream' = Stream
    BY <1>1, <1>3 DEF CaseInv, Stream
  <2> QED BY <1>1, <1>3, <2>1, SameStream DEF Streams
<1> QED BY <1>2, <1>3

-----------------------------------------------------------------------------
(* What the invariant says of the records.                                 *)

(* RecordIsWhole and SilenceTookNoReply, of every record a case leaves.    *)
LEMMA RecordsFollow == CaseInv => RecordIsWhole /\ SilenceTookNoReply
<1> SUFFICES ASSUME CaseInv, NEW k \in DOMAIN results
             PROVE  Faithful(case.protocol, results[k].norm, results[k].took)
  BY Zenon DEF RecordIsWhole, SilenceTookNoReply, Faithful
<1>1. rpc # "idle"
  BY NoRecords DEF CaseInv
<1> QED BY <1>1 DEF CaseInv, Progress, Recorded

(* A case that passes was run to its last step and met at each, and if it  *)
(* puts up with neither silence nor disconnection, with its own answers.   *)
LEMMA PassIsMet ==
  ASSUME CaseInv, CasePasses
  PROVE  AllMet /\ (Strict(case) => OwnAnswers)
<1>1. /\ rpc = "done" /\ StepsPass /\ Matches(case.protocol, LastNorm, case.final)
      /\ Progress /\ Ordered /\ Streams /\ CaseTypes
  BY DEF CasePasses, CaseInv
<1>2. step \in Nat \ {0} /\ Len(results) = step
  BY <1>1 DEF CaseTypes, Progress
<1>3. DOMAIN results = 1..step /\ DOMAIN case.steps = 1..Len(case.steps)
  BY <1>1, <1>2, LenProperties DEF CaseTypes, Streams, IsCase, IsSeq
<1>4. step = Len(case.steps)
  BY <1>1, <1>2, <1>3 DEF Progress, StepsPass
<1>5. \A k \in DOMAIN results :
         Matches(case.protocol, results[k].norm, case.steps[k].expect)
  BY <1>1 DEF Progress, Recorded, StepsPass
<1>6. Strict(case) => OwnAnswers
  BY <1>1 DEF Ordered
<1> QED BY <1>1, <1>3, <1>4, <1>5, <1>6 DEF AllMet

LEMMA StepIsThere == CaseInv /\ rpc # "idle" => step \in DOMAIN case.steps
<1> SUFFICES ASSUME CaseInv, rpc # "idle" PROVE step \in DOMAIN case.steps
  OBVIOUS
<1>1. step \in Nat \ {0} /\ step <= Len(case.steps)
  BY DEF CaseInv, CaseTypes, Progress
<1>2. DOMAIN case.steps = 1..Len(case.steps) /\ Len(case.steps) \in Nat
  BY LenProperties DEF CaseInv, Streams, IsCase, IsSeq
<1> QED BY <1>1, <1>2

-----------------------------------------------------------------------------
(***************************************************************************)
(* What a run of the protocol-comparison harness says and leaves behind,   *)
(* for every list of implementations, every list of cases and every server.*)
(* A run is put together from the cases above.                             *)
(***************************************************************************)
-----------------------------------------------------------------------------
(* The invariant.                                                          *)

(* The implementations that come before the nth one.                       *)
Earlier(n) == {Order[m] : m \in 1..(n - 1)}

HarnessTypes == TypeOK /\ IsSeq(verdicts)

Phase ==
    /\ rpc # "idle" => main = "case" /\ case = ThisCase /\ ThisCase.valid
    /\ main = "probe" => at = 1 /\ \A i \in Impls : ~ready[i]
    /\ main \in {"probe", "spawn", "await"} =>
          Len(verdicts) = 0 /\ started = Earlier(at) /\ DOMAIN per = {}
    /\ main = "case" =>
          /\ Len(verdicts) < Len(suite) /\ started = Impls /\ DOMAIN per = Earlier(at)
          /\ ThisCase.valid \/ at = 1
    /\ main \in {"probe", "spawn", "await", "case"} => exit = NotYet
    /\ main \in {"stop", "report"} =>
          exit = 1 \/ (exit = NotYet /\ Len(verdicts) = Len(suite))
    /\ main = "done" /\ exit = 0 =>
          Len(verdicts) = Len(suite) /\ listed = {} /\ Failed = {}

(* Who holds a port: it is not given away once the READY line was seen.    *)
Servers ==
    /\ \A i \in Impls : ready[i] => port[i] = "own"
    /\ \A i \in started : i \in Wrapped \/ port[i] = "own"
    /\ main = "spawn" => \A n \in DOMAIN Order : n >= at => ~ready[Order[n]]
    /\ main = "await" => \A n \in DOMAIN Order : n > at => ~ready[Order[n]]

(* What is kept of one implementation, and of a case.                      *)
Sound(c, i, o) ==
    o.pass => /\ o.met
              /\ Strict(c) => o.own /\ (i \in Wrapped \/ o.by = "own")

Judged(c, v) ==
    IF c.valid
    THEN /\ DOMAIN v.per = Impls /\ v.class = Classify(Order, c, v.per)
         /\ \A i \in Impls : Sound(c, i, v.per[i])
    ELSE v.class = "harness_error"

Judgement ==
    /\ main = "case" => \A i \in DOMAIN per : Sound(ThisCase, i, per[i])
    /\ \A n \in DOMAIN verdicts : Judged(suite[n], verdicts[n])

IsStopped(i) == IF i \in Wrapped THEN leader[i] # "up" ELSE server[i] # "up"

Stopping ==
    /\ main = "stop" => \A i \in started \cap Earlier(at) : Kept \/ IsStopped(i)
    /\ main \in {"report", "done"} => \A i \in started : Kept \/ IsStopped(i)

HarnessInv ==
    CaseInv /\ HarnessTypes /\ Phase /\ Servers /\ Judgement /\ Stopping

-----------------------------------------------------------------------------
(* The implementations, and the cases.                                     *)

LEMMA OrderFacts ==
  /\ Len(Order) \in Nat \ {0} /\ DOMAIN Order = 1..Len(Order)
  /\ Impls = {Order[n] : n \in 1..Len(Order)}
<1>1. Len(Order) \in Nat \ {0} /\ DOMAIN Order = 1..Len(Order)
  BY OrderAssumption, EmptySeq, LenProperties DEF IsSeq
<1> QED BY <1>1 DEF Impls

LEMMA Positions ==
  ASSUME at \in DOMAIN Order
  PROVE  /\ 1 \in DOMAIN Order /\ Earlier(1) = {} /\ at \in Nat
         /\ Cur \in Impls /\ Cur \notin Earlier(at) /\ Earlier(at) \subseteq Impls
         /\ IsLast => Earlier(at) \cup {Cur} = Impls
         /\ ~IsLast => at + 1 \in DOMAIN Order /\ Earlier(at + 1) = Earlier(at) \cup {Cur}
         /\ \A n \in DOMAIN Order : n # at => Order[n] # Cur
<1>1. /\ Len(Order) \in Nat \ {0} /\ at \in 1..Len(Order) /\ DOMAIN Order = 1..Len(Order)
      /\ Impls = {Order[n] : n \in 1..Len(Order)}
  BY OrderFacts
<1>2. \A m, n \in 1..Len(Order) : Order[m] = Order[n] => m = n
  BY <1>1, OrderAssumption
<1>3. Earlier(1) = {}
  BY DEF Earlier
<1>4. Cur \in Impls /\ Cur \notin Earlier(at) /\ Earlier(at) \subseteq Impls
  BY <1>1, <1>2 DEF Earlier, Cur
<1>5. ASSUME IsLast PROVE Earlier(at) \cup {Cur} = Impls
  <2>1. at = Len(Order)
    BY <1>5 DEF IsLast
  <2>2. ASSUME NEW n \in 1..Len(Order) PROVE n \in 1..(at - 1) \/ n = at
    <3>1. Len(Order) \in Nat
      BY <1>1
    <3> QED BY <2>1, <3>1
  <2> QED BY <1>1, <1>4, <2>2 DEF Earlier, Cur
<1>6. ASSUME ~IsLast PROVE at + 1 \in DOMAIN Order /\ Earlier(at + 1) = Earlier(at) \cup {Cur}
  <2>1. at + 1 \in 1..Len(Order)
    BY <1>1, <1>6 DEF IsLast
  <2>2. \A n : n \in 1..((at + 1) - 1) <=> n \in 1..(at - 1) \/ n = at
    BY <1>1
  <2> QED BY <1>1, <2>1, <2>2 DEF Earlier, Cur
<1>7. \A n \in DOMAIN Order : n # at => Order[n] # Cur
  BY <1>1, <1>2 DEF Cur
<1> QED BY <1>1, <1>3, <1>4, <1>5, <1>6, <1>7

LEMMA SuiteFacts ==
  ASSUME suite \in Suites
  PROVE  /\ Len(suite) \in Nat \ {0} /\ DOMAIN suite = 1..Len(suite)
         /\ \A n \in DOMAIN suite : IsCase(suite[n])
<1>1. IsSeq(suite) /\ suite # << >> /\ \A n \in DOMAIN suite : IsCase(suite[n])
  BY SuitesAssumption
<1> QED BY <1>1, EmptySeq, LenProperties DEF IsSeq

LEMMA ThisCaseIsOne ==
  ASSUME HarnessInv, main = "case"
  PROVE  /\ IsCase(ThisCase) /\ Len(verdicts) \in Nat
         /\ Len(verdicts) + 1 \in DOMAIN suite
<1>1. suite \in Suites /\ IsSeq(verdicts) /\ Len(verdicts) < Len(suite)
  BY DEF HarnessInv, HarnessTypes, TypeOK, Phase
<1>2. Len(verdicts) \in Nat
  BY <1>1 DEF IsSeq
<1> QED BY <1>1, <1>2, SuiteFacts DEF ThisCase

-----------------------------------------------------------------------------
(* Steps that leave part of the state alone.                               *)

LEMMA SameVerdicts ==
  ASSUME UNCHANGED <<suite, verdicts, per, keep>>
  PROVE  /\ ThisCase' = ThisCase /\ Failed' = Failed /\ Kept' = Kept
         /\ Judgement /\ (main' = "case" => main = "case") => Judgement'
<1>1. ThisCase' = ThisCase /\ Failed' = Failed
  BY DEF ThisCase, Failed
<1>2. Kept' = Kept
  BY <1>1 DEF Kept
<1>3. Judgement /\ (main' = "case" => main = "case") => Judgement'
  BY <1>1 DEF Judgement
<1> QED BY <1>1, <1>2, <1>3

-----------------------------------------------------------------------------
(* Starting.                                                               *)

LEMMA InitStep == Init => HarnessInv
<1> SUFFICES ASSUME Init PROVE HarnessInv
  OBVIOUS
<1>1. /\ CaseInit /\ main = "probe" /\ suite \in Suites /\ keep \in BOOLEAN /\ unix = FALSE
      /\ at = 1 /\ started = {} /\ per = << >> /\ verdicts = << >> /\ listed = {}
      /\ exit = NotYet /\ rpc = "idle" /\ closed = FALSE
      /\ leader = [i \in Impls |-> "none"] /\ server = leader
      /\ port = [i \in Impls |-> "none"] /\ ready = [i \in Impls |-> FALSE]
  BY DEF Init, CaseInit
<1>2. CaseInv
  BY <1>1, NoCaseInv
<1>3. /\ IsSeq(verdicts) /\ Len(verdicts) = 0 /\ DOMAIN verdicts = {} /\ DOMAIN per = {}
  BY <1>1, NoRecords, Zenon
<1>4. Len(suite) \in Nat /\ 1 \in DOMAIN Order /\ Earlier(1) = {}
  BY <1>1, SuiteFacts, OrderFacts, Positions
<1>5. TypeOK
  <2>1. unix \in BOOLEAN /\ closed \in BOOLEAN
    BY <1>1, Zenon
  <2>2. /\ leader \in [Impls -> ProcStates] /\ server \in [Impls -> ProcStates]
        /\ port \in [Impls -> {"none", "free", "own", "foreign"}]
        /\ ready \in [Impls -> BOOLEAN]
    BY <1>1 DEF ProcStates
  <2>3. main = "probe" /\ at = 1 /\ started = {} /\ listed = {} /\ exit = NotYet /\ rpc = "idle"
    BY <1>1
  <2> QED BY <1>1, <1>3, <1>4, <2>1, <2>2, <2>3 DEF TypeOK
<1>6. Phase
  BY <1>1, <1>3, <1>4 DEF Phase
<1>7. Servers
  BY <1>1 DEF Servers
<1>8. Judgement /\ Stopping
  BY <1>1, <1>3 DEF Judgement, Stopping
<1> QED BY <1>2, <1>3, <1>5, <1>6, <1>7, <1>8 DEF HarnessInv, HarnessTypes

LEMMA ProbeStep == HarnessInv /\ Probe => HarnessInv'
<1> SUFFICES ASSUME HarnessInv, Probe PROVE HarnessInv'
  OBVIOUS
<1>1. /\ CaseInv /\ TypeOK /\ IsSeq(verdicts) /\ Phase /\ Servers /\ Judgement /\ Stopping
      /\ main = "probe"
      /\ (main' = "done" /\ exit' = 3) \/ (main' = "spawn" /\ exit' = exit)
      /\ UNCHANGED <<suite, keep, at, started, per, verdicts, listed>>
      /\ UNCHANGED <<leader, server, port, ready>> /\ UNCHANGED caseVars
  <2>1. (main' = "done" /\ exit' = 3) \/ (main' = "spawn" /\ exit' = exit)
    BY DEF Probe
  <2>2. /\ main = "probe" /\ UNCHANGED <<suite, keep, at, started, per, verdicts, listed>>
        /\ UNCHANGED <<leader, server, port, ready>> /\ UNCHANGED caseVars
    BY DEF Probe, args, procs
  <2> QED BY <2>1, <2>2 DEF HarnessInv, HarnessTypes
<1>2. unix' \in BOOLEAN
  BY DEF Probe, Environments, LiveUnix
<1>3. UNCHANGED <<case, rpc, step, closed>>
  BY <1>1 DEF caseVars
<1>4. CaseInv'
  BY <1>1, CaseUnchanged
<1>5. TypeOK' /\ IsSeq(verdicts')
  BY <1>1, <1>2, <1>3 DEF TypeOK
<1>6. ThisCase' = ThisCase /\ Failed' = Failed /\ Kept' = Kept /\ Judgement'
  BY <1>1, SameVerdicts
<1>7. at = 1 /\ started = {} /\ Earlier(1) = {} /\ exit = NotYet /\ Len(verdicts) = 0
  BY <1>1, Positions DEF Phase, TypeOK
<1>8. Phase'
  BY <1>1, <1>3, <1>6, <1>7 DEF Phase, TypeOK
<1>9. Servers'
  <2>1. \A n \in DOMAIN Order : ~ready[Order[n]]
    BY <1>1, OrderFacts DEF Phase
  <2> QED BY <1>1, <2>1 DEF Servers
<1>10. Stopping'
  BY <1>1, <1>7 DEF Stopping
<1> QED BY <1>1, <1>4, <1>5, <1>6, <1>8, <1>9, <1>10 DEF HarnessInv, HarnessTypes

(* Starting fails: to the finally clause.                                  *)
LEMMA StartFailsStep == HarnessInv /\ main \in {"spawn", "await"} /\ StartFails => HarnessInv'
<1> SUFFICES ASSUME HarnessInv, main \in {"spawn", "await"}, StartFails PROVE HarnessInv'
  OBVIOUS
<1>1. /\ CaseInv /\ TypeOK /\ IsSeq(verdicts) /\ Phase /\ Servers /\ Judgement
      /\ main' = "stop" /\ at' = 1 /\ exit' = 1
      /\ UNCHANGED <<suite, keep, unix, started, per, verdicts, listed>>
      /\ UNCHANGED <<leader, server, port, ready>> /\ UNCHANGED caseVars
  BY DEF HarnessInv, HarnessTypes, StartFails, args, procs
<1>2. UNCHANGED <<case, rpc, step, closed>>
  BY <1>1 DEF caseVars
<1>3. CaseInv'
  BY <1>1, CaseUnchanged
<1>4. at \in DOMAIN Order /\ 1 \in DOMAIN Order /\ Earlier(1) = {}
  BY <1>1, Positions DEF TypeOK
<1>5. rpc = "idle"
  BY DEF HarnessInv, Phase
<1>6. TypeOK' /\ IsSeq(verdicts')
  BY <1>1, <1>2, <1>4, <1>5 DEF TypeOK
<1>7. Judgement'
  BY <1>1, SameVerdicts
<1>8. Phase'
  BY <1>1, <1>2, <1>5 DEF Phase
<1>9. Servers'
  BY <1>1 DEF Servers
<1>10. Stopping'
  BY <1>1, <1>4 DEF Stopping
<1> QED BY <1>1, <1>3, <1>6, <1>7, <1>8, <1>9, <1>10 DEF HarnessInv, HarnessTypes

LEMMA SpawnStep == HarnessInv /\ Spawn => HarnessInv'
<1> SUFFICES ASSUME HarnessInv, Spawn PROVE HarnessInv'
  OBVIOUS
<1>1. /\ CaseInv /\ TypeOK /\ IsSeq(verdicts) /\ Phase /\ Servers /\ Judgement
      /\ main = "spawn" /\ main' = "await"
      /\ port' = [port EXCEPT ![Cur] = "free"]
      /\ UNCHANGED <<suite, keep, unix, at, started, per, verdicts, listed, exit, ready>>
      /\ UNCHANGED caseVars
  BY DEF HarnessInv, HarnessTypes, Spawn, args
<1>2. UNCHANGED <<case, rpc, step, closed>>
  BY <1>1 DEF caseVars
<1>3. CaseInv'
  BY <1>1, CaseUnchanged
<1>4. at \in DOMAIN Order /\ Cur \in Impls /\ Cur \notin started /\ at \in Nat
  BY <1>1, Positions DEF TypeOK, Phase
<1>5. ~ready[Cur]
  <2>1. at >= at
    BY <1>4
  <2> QED BY <1>1, <1>4, <2>1 DEF Servers, Cur
<1>6. leader' \in [Impls -> ProcStates] /\ server' \in [Impls -> ProcStates]
  BY <1>1 DEF Spawn, LaunchWrapped, LaunchServer, TypeOK, ProcStates
<1>7. TypeOK' /\ IsSeq(verdicts')
  BY <1>1, <1>2, <1>6 DEF TypeOK
<1>8. Judgement'
  BY <1>1, SameVerdicts
<1>9. Phase'
  BY <1>1, <1>2 DEF Phase
<1>10. Servers'
  <2>1. \A i \in Impls : i # Cur => port'[i] = port[i]
    BY <1>1 DEF TypeOK
  <2>2. \A i \in Impls : ready[i] => port'[i] = "own"
    BY <1>1, <1>5, <2>1 DEF Servers
  <2>3. \A i \in started : i \in Wrapped \/ port'[i] = "own"
    BY <1>1, <1>4, <2>1 DEF Servers, TypeOK
  <2>4. \A n \in DOMAIN Order : n > at => ~ready[Order[n]]
    BY <1>1, <1>4, OrderFacts DEF Servers
  <2> QED BY <1>1, <2>2, <2>3, <2>4 DEF Servers
<1>11. Stopping'
  BY <1>1 DEF Stopping
<1> QED BY <1>3, <1>7, <1>8, <1>9, <1>10, <1>11 DEF HarnessInv, HarnessTypes

(* start() returns.                                                        *)
LEMMA StartedStep ==
  ASSUME HarnessInv, main = "await", Cur \in Wrapped \/ port[Cur] = "own", Started
  PROVE  HarnessInv'
<1>1. /\ CaseInv /\ TypeOK /\ IsSeq(verdicts) /\ Phase /\ Servers /\ Judgement
      /\ started' = started \cup {Cur}
      /\ main' = (IF IsLast THEN "case" ELSE "spawn")
      /\ at' = (IF IsLast THEN 1 ELSE at + 1)
      /\ UNCHANGED <<suite, keep, unix, per, verdicts, listed, exit>>
      /\ UNCHANGED <<leader, server, port, ready>> /\ UNCHANGED caseVars
  BY DEF HarnessInv, HarnessTypes, Started, args, procs
<1>2. UNCHANGED <<case, rpc, step, closed>> /\ rpc = "idle"
  BY <1>1 DEF caseVars, Phase
<1>3. CaseInv'
  BY <1>1, CaseUnchanged
<1>4. /\ at \in DOMAIN Order /\ 1 \in DOMAIN Order /\ Earlier(1) = {} /\ Cur \in Impls
      /\ at \in Nat
      /\ IsLast => Earlier(at) \cup {Cur} = Impls
      /\ ~IsLast => at + 1 \in DOMAIN Order /\ Earlier(at + 1) = Earlier(at) \cup {Cur}
  BY <1>1, Positions DEF TypeOK
<1>5. TypeOK' /\ IsSeq(verdicts')
  BY <1>1, <1>2, <1>4 DEF TypeOK
<1>6. Judgement'
  BY <1>1 DEF Judgement, Phase
<1>7. Phase'
  <2>1. Len(verdicts) = 0 /\ started = Earlier(at) /\ DOMAIN per = {} /\ exit = NotYet
    BY <1>1 DEF Phase
  <2>2. Len(suite) > 0
    BY <1>1, SuiteFacts DEF TypeOK
  <2> QED BY <1>1, <1>2, <1>4, <2>1, <2>2 DEF Phase
<1>8. Servers'
  <2>1. \A n \in DOMAIN Order : n >= at + 1 => ~ready[Order[n]]
    BY <1>1, <1>4, OrderFacts DEF Servers
  <2> QED BY <1>1, <2>1 DEF Servers
<1>9. Stopping'
  BY <1>1 DEF Stopping
<1> QED BY <1>3, <1>5, <1>6, <1>7, <1>8, <1>9 DEF HarnessInv, HarnessTypes

LEMMA AwaitStep == HarnessInv /\ (SpawnFails \/ Pinged \/ ReadySeen \/ AwaitFails) => HarnessInv'
<1>1. HarnessInv /\ (SpawnFails \/ AwaitFails) => HarnessInv'
  BY StartFailsStep DEF SpawnFails, AwaitFails
<1>2. HarnessInv /\ Pinged => HarnessInv'
  BY StartedStep DEF Pinged
<1>3. ASSUME HarnessInv, ReadySeen PROVE HarnessInv'
  <2>1. main = "await" /\ ready[Cur] /\ (Started \/ StartFails)
    BY <1>3 DEF ReadySeen
  <2>2. Cur \in Impls
    BY <1>3, Positions DEF HarnessInv, HarnessTypes, TypeOK
  <2>3. port[Cur] = "own"
    BY <1>3, <2>1, <2>2 DEF HarnessInv, Servers
  <2> QED BY <1>3, <2>1, <2>3, StartedStep, StartFailsStep
<1> QED BY <1>1, <1>2, <1>3

(* What the processes do while one of them is awaited.                     *)
LEMMA ProcessStep ==
  ASSUME HarnessInv, main \in {"await", "stop"}, UNCHANGED mainVars, UNCHANGED caseVars,
         leader' \in [Impls -> ProcStates], server' \in [Impls -> ProcStates],
         ready' \in [Impls -> BOOLEAN],
         port' \in [Impls -> {"none", "free", "own", "foreign"}],
         \A i \in Impls : port[i] = "own" => port'[i] = "own",
         \A i \in Impls : ready'[i] => ready[i] \/ (i = Cur /\ port[i] = "own"),
         main = "stop" =>
            UNCHANGED server /\ \A i \in Impls : leader[i] # "up" => leader'[i] # "up"
  PROVE  HarnessInv'
<1>1. /\ CaseInv /\ TypeOK /\ IsSeq(verdicts) /\ Phase /\ Servers /\ Judgement
      /\ UNCHANGED <<main, suite, keep, unix, at, started, per, verdicts, listed, exit>>
  BY DEF HarnessInv, HarnessTypes, mainVars
<1>2. UNCHANGED <<case, rpc, step, closed>>
  BY DEF caseVars
<1>3. CaseInv'
  BY <1>1, CaseUnchanged
<1>4. TypeOK' /\ IsSeq(verdicts')
  BY <1>1, <1>2 DEF TypeOK
<1>5. Judgement' /\ Failed' = Failed /\ ThisCase' = ThisCase /\ Kept' = Kept
  BY <1>1, SameVerdicts
<1>6. Phase'
  BY <1>1, <1>2, <1>5 DEF Phase
<1>7. Servers'
  <2>1. \A n \in DOMAIN Order : n > at => Order[n] \in Impls /\ Order[n] # Cur
    BY <1>1, OrderFacts, Positions DEF TypeOK
  <2>2. main = "await" => \A n \in DOMAIN Order : n > at => ~ready'[Order[n]]
    BY <1>1, <2>1 DEF Servers
  <2>3. \A i \in Impls : ready'[i] => port'[i] = "own"
    BY <1>1 DEF Servers
  <2>4. \A i \in started : i \in Wrapped \/ port'[i] = "own"
    BY <1>1 DEF Servers, TypeOK
  <2> QED BY <1>1, <2>2, <2>3, <2>4 DEF Servers
<1>8. Stopping'
  <2>1. CASE main = "await"
    BY <1>1, <2>1 DEF Stopping
  <2>2. CASE main = "stop"
    <3>1. \A i \in started : i \in Impls
      BY <1>1 DEF TypeOK
    <3>2. \A i \in started : IsStopped(i) => IsStopped(i)'
      BY <2>2, <3>1 DEF IsStopped
    <3>3. Earlier(at)' = Earlier(at) /\ started' = started /\ main' = "stop"
      BY <1>1, <2>2 DEF Earlier
    <3>4. \A i \in started \cap Earlier(at) : Kept \/ IsStopped(i)
      BY <1>1, <2>2 DEF Stopping, HarnessInv
    <3> QED BY <1>5, <3>2, <3>3, <3>4 DEF Stopping
  <2> QED BY <2>1, <2>2
<1> QED BY <1>3, <1>4, <1>5, <1>6, <1>7, <1>8 DEF HarnessInv, HarnessTypes

LEMMA ProcessesStep ==
  HarnessInv /\ (LauncherRuns \/ Binds \/ Announces \/ ForeignBinds \/ LauncherDies) => HarnessInv'
<1> SUFFICES ASSUME HarnessInv PROVE
      LauncherRuns \/ Binds \/ Announces \/ ForeignBinds \/ LauncherDies => HarnessInv'
  OBVIOUS
<1>1. /\ leader \in [Impls -> ProcStates] /\ server \in [Impls -> ProcStates]
      /\ ready \in [Impls -> BOOLEAN]
      /\ port \in [Impls -> {"none", "free", "own", "foreign"}] /\ Cur \in Impls
  BY Positions DEF HarnessInv, HarnessTypes, TypeOK
<1>2. LauncherRuns => HarnessInv'
  BY <1>1, ProcessStep DEF LauncherRuns, ProcStates
<1>3. LauncherDies => HarnessInv'
  <2> SUFFICES ASSUME LauncherDies PROVE HarnessInv'
    OBVIOUS
  <2>1. \A i \in Impls : leader[i] # "up" => leader'[i] # "up"
    BY <1>1 DEF LauncherDies
  <2>2. leader' \in [Impls -> ProcStates]
    BY <1>1 DEF LauncherDies, ProcStates
  <2> QED BY <1>1, <2>1, <2>2, ProcessStep DEF LauncherDies
<1>4. ForeignBinds => HarnessInv'
  BY <1>1, ProcessStep DEF ForeignBinds
<1>5. Announces => HarnessInv'
  BY <1>1, ProcessStep DEF Announces
<1>6. Binds => HarnessInv'
  BY <1>1, ProcessStep DEF Binds, ProcStates
<1> QED BY <1>2, <1>3, <1>4, <1>5, <1>6

(* A server may die while it is awaited, and in a case.                    *)
LEMMA ServerDiesStep == HarnessInv /\ ServerDies => HarnessInv'
<1> SUFFICES ASSUME HarnessInv, ServerDies PROVE HarnessInv'
  OBVIOUS
<1>1. /\ CaseInv /\ TypeOK /\ IsSeq(verdicts) /\ Phase /\ Servers /\ Judgement
      /\ main \in {"await", "case"}
      /\ UNCHANGED <<main, suite, keep, unix, at, started, per, verdicts, listed, exit>>
      /\ UNCHANGED <<leader, port, ready>>
      /\ UNCHANGED <<reader, wire, more>>
      /\ server' = [server EXCEPT ![Cur] = "dead"]
  BY DEF HarnessInv, HarnessTypes, ServerDies, mainVars
<1>2. UNCHANGED <<case, rpc, step>>
  BY <1>1 DEF reader
<1>3. CaseInv' /\ closed' \in BOOLEAN
  <2>1. CASE Engaged /\ port[Cur] = "own"
    <3>1. closed' = TRUE /\ inbox' = << >> /\ outbox' = << >>
      BY <2>1, Zenon DEF ServerDies
    <3> QED BY <1>1, <2>1, <3>1, CutStep, Zenon
  <2>2. CASE ~(Engaged /\ port[Cur] = "own")
    <3>1. UNCHANGED <<closed, inbox, outbox>>
      BY <2>2, Zenon DEF ServerDies
    <3>2. UNCHANGED caseVars
      BY <1>1, <3>1 DEF reader, caseVars
    <3> QED BY <1>1, <3>1, <3>2, CaseUnchanged DEF TypeOK
  <2> QED BY <2>1, <2>2
<1>4. TypeOK' /\ IsSeq(verdicts')
  BY <1>1, <1>2, <1>3 DEF TypeOK, ProcStates
<1>5. Judgement' /\ ThisCase' = ThisCase
  BY <1>1, SameVerdicts
<1>6. Phase'
  BY <1>1, <1>2, <1>5 DEF Phase
<1>7. Servers' /\ Stopping'
  BY <1>1 DEF Servers, Stopping
<1> QED BY <1>3, <1>4, <1>5, <1>6, <1>7 DEF HarnessInv, HarnessTypes

-----------------------------------------------------------------------------
(* The cases.                                                              *)

LEMMA RunsCaseStep == HarnessInv /\ RunsCase => HarnessInv'
<1> SUFFICES ASSUME HarnessInv, RunsCase PROVE HarnessInv'
  OBVIOUS
<1>1. /\ CaseInv /\ TypeOK /\ IsSeq(verdicts) /\ Phase /\ Servers /\ Judgement
      /\ main = "case" /\ rpc # "idle" /\ (Reader \/ Peer)
      /\ UNCHANGED <<main, suite, keep, unix, at, started, per, verdicts, listed, exit>>
      /\ UNCHANGED <<leader, server, port, ready>>
  BY DEF HarnessInv, HarnessTypes, RunsCase, mainVars, procs
<1>2. CaseInv'
  BY <1>1, CaseStep
<1>3. case' = case
  BY <1>1 DEF Reader, Peer, SendStep, SendRaises, Receive, ReplyRead, HeaderRefused,
              TimedOut, PeerGone, Conclude, Answer, Ignore, Transmit, Hangup, reader,
              ReceiveText, Dribble
<1>4. /\ rpc' \in {"idle", "send", "read", "done", "raised"} /\ closed' \in BOOLEAN
      /\ rpc' # "idle" => step' \in DOMAIN case'.steps
  <2>1. (CaseInv /\ rpc # "idle" => step \in DOMAIN case.steps)'
    BY StepIsThere, PTL
  <2> QED BY <1>2, <2>1 DEF CaseInv, CaseTypes
<1>5. TypeOK' /\ IsSeq(verdicts')
  BY <1>1, <1>4 DEF TypeOK
<1>6. Judgement' /\ ThisCase' = ThisCase
  BY <1>1, SameVerdicts
<1>7. Phase'
  BY <1>1, <1>3, <1>6 DEF Phase
<1>8. Servers' /\ Stopping'
  BY <1>1 DEF Servers, Stopping
<1> QED BY <1>2, <1>5, <1>6, <1>7, <1>8 DEF HarnessInv, HarnessTypes

LEMMA ConnectsStep == HarnessInv /\ Connects => HarnessInv'
<1> SUFFICES ASSUME HarnessInv, Connects PROVE HarnessInv'
  OBVIOUS
<1>1. /\ TypeOK /\ IsSeq(verdicts) /\ Phase /\ Servers /\ Judgement
      /\ main = "case" /\ ThisCase.valid /\ OpenCase(ThisCase)
      /\ UNCHANGED <<main, suite, keep, unix, at, started, per, verdicts, listed, exit>>
      /\ UNCHANGED <<leader, server, port, ready>>
  BY DEF HarnessInv, HarnessTypes, Connects, mainVars, procs
<1>2. CaseInv'
  BY <1>1, ThisCaseIsOne, OpenCaseStep
<1>3. case' = ThisCase /\ rpc' = "send" /\ step' = 1
  BY <1>1 DEF OpenCase
<1>4. step' \in DOMAIN case'.steps /\ closed' \in BOOLEAN
  <2>1. (CaseInv /\ rpc # "idle" => step \in DOMAIN case.steps)'
    BY StepIsThere, PTL
  <2> QED BY <1>2, <1>3, <2>1 DEF CaseInv, CaseTypes
<1>5. TypeOK' /\ IsSeq(verdicts')
  BY <1>1, <1>3, <1>4 DEF TypeOK
<1>6. Judgement' /\ ThisCase' = ThisCase
  BY <1>1, SameVerdicts
<1>7. Phase'
  BY <1>1, <1>3, <1>6 DEF Phase
<1>8. Servers' /\ Stopping'
  BY <1>1 DEF Servers, Stopping
<1> QED BY <1>2, <1>5, <1>6, <1>7, <1>8 DEF HarnessInv, HarnessTypes

(* A verdict is added, and the next case begins or the last one was it.    *)
LEMMA VerdictAdded ==
  ASSUME HarnessInv, main = "case", CaseInv', rpc' = "idle", NEW v, Judged(ThisCase, v),
         verdicts' = Append(verdicts, v), DOMAIN per' = {}, at' = 1,
         main' = (IF Len(verdicts') = Len(suite) THEN "stop" ELSE "case"),
         UNCHANGED <<suite, keep, unix, started, listed, exit>>,
         UNCHANGED <<leader, server, port, ready>>
  PROVE  HarnessInv'
<1>1. TypeOK /\ IsSeq(verdicts) /\ Phase /\ Servers /\ Judgement
  BY DEF HarnessInv, HarnessTypes
<1>2. /\ IsSeq(verdicts') /\ Len(verdicts) \in Nat /\ Len(verdicts') = Len(verdicts) + 1
      /\ DOMAIN verdicts = 1..Len(verdicts) /\ DOMAIN verdicts' = 1..(Len(verdicts) + 1)
      /\ \A n \in DOMAIN verdicts : verdicts'[n] = verdicts[n]
      /\ verdicts'[Len(verdicts) + 1] = v
  BY <1>1, Appended
<1>3. Len(verdicts) < Len(suite) /\ Len(suite) \in Nat /\ started = Impls /\ exit = NotYet
  BY <1>1, SuiteFacts DEF Phase, TypeOK
<1>4. 1 \in DOMAIN Order /\ Earlier(1) = {}
  BY <1>1, Positions DEF TypeOK
<1>5. closed' \in BOOLEAN
  BY DEF CaseInv, CaseTypes
<1>6. TypeOK'
  BY <1>1, <1>2, <1>3, <1>4, <1>5 DEF TypeOK
<1>7. Phase'
  BY <1>2, <1>3, <1>4 DEF Phase
<1>8. Judgement'
  <2>1. \A n \in DOMAIN verdicts' : Judged(suite[n], verdicts'[n])
    <3> SUFFICES ASSUME NEW n \in 1..(Len(verdicts) + 1)
                 PROVE  Judged(suite[n], verdicts'[n])
      BY <1>2
    <3>1. CASE n = Len(verdicts) + 1
      BY <1>2, <3>1 DEF ThisCase
    <3>2. CASE n # Len(verdicts) + 1
      <4>1. n \in DOMAIN verdicts
        BY <1>2, <3>2
      <4> QED BY <1>1, <1>2, <4>1 DEF Judgement
    <3> QED BY <3>1, <3>2
  <2> QED BY <2>1 DEF Judgement
<1>9. Servers'
  BY <1>1 DEF Servers
<1>10. Stopping'
  BY <1>4 DEF Stopping
<1> QED BY <1>2, <1>6, <1>7, <1>8, <1>9, <1>10 DEF HarnessInv, HarnessTypes

LEMMA InvalidStep == HarnessInv /\ Invalid => HarnessInv'
<1> SUFFICES ASSUME HarnessInv, Invalid PROVE HarnessInv'
  OBVIOUS
<1> DEFINE v == [class |-> "harness_error", per |-> << >>]
<1>1. /\ CaseInv /\ Phase /\ TypeOK /\ main = "case" /\ rpc = "idle" /\ ~ThisCase.valid
      /\ verdicts' = Append(verdicts, v)
      /\ main' = (IF Len(verdicts') = Len(suite) THEN "stop" ELSE "case")
      /\ UNCHANGED <<suite, keep, unix, at, started, per, listed, exit>>
      /\ UNCHANGED <<leader, server, port, ready>> /\ UNCHANGED caseVars
  BY DEF HarnessInv, HarnessTypes, Invalid, args, procs
<1>2. CaseInv' /\ rpc' = "idle"
  BY <1>1, CaseUnchanged DEF caseVars
<1>3. Judged(ThisCase, v)
  BY <1>1 DEF Judged
<1>4. at = 1 /\ DOMAIN per = {}
  BY <1>1, Positions DEF Phase, TypeOK
<1> HIDE DEF v
<1> QED BY <1>1, <1>2, <1>3, <1>4, VerdictAdded

(* What is kept of an implementation is sound.                             *)
LEMMA OutcomeIsSound ==
  ASSUME HarnessInv, main = "case"
  PROVE  Sound(ThisCase, Cur, Outcome)
<1>1. Cur \in Wrapped \/ port[Cur] = "own"
  <2>1. Cur \in Impls /\ started = Impls
    BY Positions DEF HarnessInv, HarnessTypes, TypeOK, Phase
  <2> QED BY <2>1 DEF HarnessInv, Servers
<1>2. CASE rpc = "done"
  <2>1. /\ Outcome.pass = CasePasses /\ Outcome.met = AllMet /\ Outcome.own = OwnAnswers
        /\ Outcome.by = IF port[Cur] = "own" THEN "own" ELSE "foreign"
    <3> DEFINE b == IF port[Cur] = "own" THEN "own" ELSE "foreign"
               u == ThisCase.protocol = "cli" /\ IsUnsupported(LastNorm)
    <3>1. Outcome = [pass |-> CasePasses, norm |-> LastNorm, unsupported |-> u,
                     own |-> OwnAnswers, met |-> AllMet, by |-> b]
      BY <1>2 DEF Outcome
    <3> HIDE DEF b, u
    <3>2. \A x, y, z, m, n, o :
            LET r == [pass |-> x, norm |-> y, unsupported |-> z,
                      own |-> m, met |-> n, by |-> o]
            IN r.pass = x /\ r.own = m /\ r.met = n /\ r.by = o
      OBVIOUS
    <3> QED BY <3>1, <3>2, Zenon DEF b
  <2>2. case = ThisCase /\ CaseInv
    BY <1>2 DEF HarnessInv, Phase
  <2>3. ASSUME CasePasses PROVE AllMet /\ (Strict(ThisCase) => OwnAnswers)
    BY <2>2, <2>3, PassIsMet
  <2>4. ASSUME Outcome.pass
        PROVE  /\ Outcome.met
               /\ Strict(ThisCase) => Outcome.own /\ (Cur \in Wrapped \/ Outcome.by = "own")
    BY <1>1, <2>1, <2>3, <2>4, Zenon
  <2> QED BY <2>4, Zenon DEF Sound
<1>3. CASE rpc # "done"
  <2>1. Outcome.pass = FALSE
    BY <1>3 DEF Outcome
  <2> QED BY <2>1, Zenon DEF Sound
<1> QED BY <1>2, <1>3

LEMMA EndsCaseStep == HarnessInv /\ EndsCase => HarnessInv'
<1> SUFFICES ASSUME HarnessInv, EndsCase PROVE HarnessInv'
  OBVIOUS
<1> DEFINE all == WithOutcome
<1>1. /\ TypeOK /\ IsSeq(verdicts) /\ Phase /\ Servers /\ Judgement
      /\ main = "case" /\ ThisCase.valid /\ CloseCase
      /\ UNCHANGED <<suite, keep, unix, started, listed, exit>>
      /\ UNCHANGED <<leader, server, port, ready>>
  BY DEF HarnessInv, HarnessTypes, EndsCase, args, procs
<1>2. CaseInv' /\ rpc' = "idle" /\ closed' \in BOOLEAN
  <2>1. CaseInv'
    BY <1>1, NoCaseInv
  <2> QED BY <1>1, <2>1 DEF CloseCase, CaseInv, CaseTypes
<1>3. /\ at \in DOMAIN Order /\ Cur \in Impls /\ DOMAIN per = Earlier(at)
      /\ IsLast => Earlier(at) \cup {Cur} = Impls
      /\ ~IsLast => at + 1 \in DOMAIN Order /\ Earlier(at + 1) = Earlier(at) \cup {Cur}
      /\ Earlier(at) \subseteq Impls
  BY <1>1, Positions DEF TypeOK, Phase
<1>4. DOMAIN all = Earlier(at) \cup {Cur}
  BY <1>3 DEF WithOutcome
<1>5. ASSUME NEW i \in DOMAIN all PROVE Sound(ThisCase, i, all[i])
  <2>1. CASE i = Cur
    <3>1. all[i] = Outcome
      BY <1>4, <2>1 DEF WithOutcome
    <3> QED BY <1>1, <2>1, <3>1, OutcomeIsSound
  <2>2. CASE i # Cur
    <3>1. i \in DOMAIN per /\ all[i] = per[i]
      BY <1>3, <1>4, <2>2 DEF WithOutcome
    <3> QED BY <1>1, <3>1 DEF Judgement
  <2> QED BY <2>1, <2>2
<1>6. CASE IsLast
  <2>1. /\ verdicts' = Append(verdicts, Verdict(all)) /\ per' = << >> /\ at' = 1
        /\ main' = (IF Len(verdicts') = Len(suite) THEN "stop" ELSE "case")
    BY <1>6, Zenon DEF EndsCase
  <2>2. Verdict(all).class = Classify(Order, ThisCase, all) /\ Verdict(all).per = all
    BY DEF Verdict
  <2> HIDE DEF all
  <2>3. Judged(ThisCase, Verdict(all))
    BY <1>1, <1>3, <1>4, <1>5, <1>6, <2>2 DEF Judged
  <2>4. DOMAIN per' = {}
    BY <2>1, NoRecords, Zenon
  <2> QED BY <1>1, <1>2, <2>1, <2>3, <2>4, VerdictAdded
<1>7. CASE ~IsLast
  <2>1. per' = all /\ at' = at + 1 /\ UNCHANGED <<verdicts, main>>
    BY <1>7, Zenon DEF EndsCase
  <2> HIDE DEF all
  <2>2. ThisCase' = ThisCase
    BY <1>1, <2>1 DEF ThisCase
  <2>3. TypeOK' /\ IsSeq(verdicts')
    BY <1>1, <1>2, <1>3, <1>4, <1>7, <2>1 DEF TypeOK
  <2>4. Phase'
    BY <1>1, <1>2, <1>3, <1>4, <1>7, <2>1, <2>2 DEF Phase
  <2>5. Judgement'
    BY <1>1, <1>5, <2>1, <2>2 DEF Judgement
  <2>6. Servers' /\ Stopping'
    BY <1>1, <2>1 DEF Servers, Stopping
  <2> QED BY <1>2, <2>3, <2>4, <2>5, <2>6 DEF HarnessInv, HarnessTypes
<1> QED BY <1>6, <1>7

-----------------------------------------------------------------------------
(* Stopping and reporting.                                                 *)

LEMMA StopsStep == HarnessInv /\ Stops => HarnessInv'
<1> SUFFICES ASSUME HarnessInv, Stops PROVE HarnessInv'
  OBVIOUS
<1>1. /\ CaseInv /\ TypeOK /\ IsSeq(verdicts) /\ Phase /\ Servers /\ Judgement /\ Stopping
      /\ main = "stop"
      /\ UNCHANGED <<suite, keep, unix, started, per, verdicts, listed, exit>>
      /\ UNCHANGED <<port, ready>> /\ UNCHANGED caseVars
      /\ main' = (IF IsLast THEN "report" ELSE "stop")
      /\ at' = (IF IsLast THEN at ELSE at + 1)
  BY DEF HarnessInv, HarnessTypes, Stops, args
<1>2. UNCHANGED <<case, rpc, step, closed>>
  BY <1>1 DEF caseVars
<1>3. CaseInv'
  BY <1>1, CaseUnchanged
<1>4. /\ at \in DOMAIN Order /\ Cur \in Impls
      /\ IsLast => Earlier(at) \cup {Cur} = Impls
      /\ ~IsLast => at + 1 \in DOMAIN Order /\ Earlier(at + 1) = Earlier(at) \cup {Cur}
  BY <1>1, Positions DEF TypeOK
<1>5. /\ leader' \in [Impls -> ProcStates] /\ server' \in [Impls -> ProcStates]
      /\ \A i \in Impls : IsStopped(i) => IsStopped(i)'
      /\ \A i \in Impls : i = Cur /\ i \in started => Kept \/ IsStopped(i)'
  <2>1. leader \in [Impls -> ProcStates] /\ server \in [Impls -> ProcStates]
    BY <1>1 DEF TypeOK
  <2>2. CASE Cur \in started /\ ~Kept
    <3>1. StopAdapter(Cur)
      BY <2>2 DEF Stops
    <3>2. CASE Cur \in Wrapped
      <4>1. /\ leader' = [leader EXCEPT ![Cur] = "dead"]
            /\ server' = server \/ server' = [server EXCEPT ![Cur] = "dead"]
        BY <3>1, <3>2 DEF StopAdapter, StopWrapped
      <4>2. leader' \in [Impls -> ProcStates] /\ server' \in [Impls -> ProcStates]
        BY <2>1, <4>1 DEF ProcStates
      <4>3. \A i \in Impls : /\ leader[i] # "up" => leader'[i] # "up"
                             /\ server[i] # "up" => server'[i] # "up"
        BY <2>1, <4>1
      <4>4. leader'[Cur] # "up"
        BY <1>4, <2>1, <4>1
      <4> QED BY <3>2, <4>2, <4>3, <4>4 DEF IsStopped
    <3>3. CASE Cur \notin Wrapped
      <4>1. server' = [server EXCEPT ![Cur] = "dead"] /\ leader' = leader
        BY <3>1, <3>3 DEF StopAdapter, StopServer
      <4>2. leader' \in [Impls -> ProcStates] /\ server' \in [Impls -> ProcStates]
        BY <2>1, <4>1 DEF ProcStates
      <4>3. \A i \in Impls : /\ leader[i] # "up" => leader'[i] # "up"
                             /\ server[i] # "up" => server'[i] # "up"
        BY <2>1, <4>1
      <4>4. server'[Cur] # "up"
        BY <1>4, <2>1, <4>1
      <4> QED BY <3>3, <4>2, <4>3, <4>4 DEF IsStopped
    <3> QED BY <3>2, <3>3
  <2>3. CASE ~(Cur \in started /\ ~Kept)
    <3>1. UNCHANGED <<leader, server>>
      BY <2>3 DEF Stops
    <3> QED BY <2>1, <2>3, <3>1 DEF IsStopped
  <2> QED BY <2>2, <2>3
<1>6. TypeOK' /\ IsSeq(verdicts')
  BY <1>1, <1>2, <1>4, <1>5 DEF TypeOK
<1>7. Judgement' /\ Failed' = Failed /\ Kept' = Kept
  BY <1>1, SameVerdicts
<1>8. Phase'
  BY <1>1, <1>2, <1>7 DEF Phase
<1>9. Servers'
  BY <1>1 DEF Servers
<1>10. Stopping'
  <2>1. ASSUME NEW i \in started \cap (Earlier(at) \cup {Cur})
        PROVE  Kept \/ IsStopped(i)'
    <3>1. CASE i = Cur
      BY <1>4, <1>5, <3>1
    <3>2. CASE i # Cur
      <4>1. i \in Impls /\ (Kept \/ IsStopped(i))
        BY <1>1, <3>2 DEF Stopping, TypeOK
      <4> QED BY <1>5, <4>1
    <3> QED BY <3>1, <3>2
  <2>2. started \subseteq Impls
    BY <1>1 DEF TypeOK
  <2> QED BY <1>1, <1>4, <1>7, <2>1, <2>2 DEF Stopping
<1> QED BY <1>3, <1>6, <1>7, <1>8, <1>9, <1>10 DEF HarnessInv, HarnessTypes

LEMMA ReportsStep == HarnessInv /\ Reports => HarnessInv'
<1> SUFFICES ASSUME HarnessInv, Reports PROVE HarnessInv'
  OBVIOUS
<1>1. /\ CaseInv /\ TypeOK /\ IsSeq(verdicts) /\ Phase /\ Servers /\ Judgement /\ Stopping
      /\ main = "report" /\ main' = "done"
      /\ UNCHANGED <<suite, keep, unix, at, started, per, verdicts>>
      /\ UNCHANGED <<leader, server, port, ready>> /\ UNCHANGED caseVars
  BY DEF HarnessInv, HarnessTypes, Reports, args, procs
<1>2. UNCHANGED <<case, rpc, step, closed>>
  BY <1>1 DEF caseVars
<1>3. CaseInv'
  BY <1>1, CaseUnchanged
<1>4. /\ exit # NotYet => listed' = listed /\ exit' = exit
      /\ exit = NotYet => listed' = Listed /\ exit' = IF Failed # {} THEN 1 ELSE 0
  BY DEF Reports
<1>5. TypeOK' /\ IsSeq(verdicts')
  <2>1. Listed \subseteq DOMAIN verdicts
    BY DEF Listed, Failed
  <2> QED BY <1>1, <1>2, <1>4, <2>1 DEF TypeOK
<1>6. Judgement' /\ Failed' = Failed /\ Kept' = Kept
  BY <1>1, SameVerdicts
<1>7. Phase'
  <2>1. Failed = {} => Listed = {}
    BY DEF Listed
  <2>2. exit = 1 \/ (exit = NotYet /\ Len(verdicts) = Len(suite))
    BY <1>1 DEF Phase
  <2>3. exit' = 0 => exit = NotYet /\ Failed = {} /\ listed' = {}
    BY <1>4, <2>1, <2>2
  <2> QED BY <1>1, <1>2, <1>6, <2>2, <2>3 DEF Phase, NotYet
<1>8. Servers'
  BY <1>1 DEF Servers
<1>9. Stopping'
  BY <1>1, <1>6 DEF Stopping, IsStopped
<1> QED BY <1>3, <1>5, <1>6, <1>7, <1>8, <1>9 DEF HarnessInv, HarnessTypes

LEMMA HarnessUnchanged == HarnessInv /\ UNCHANGED vars => HarnessInv'
<1> SUFFICES ASSUME HarnessInv, UNCHANGED vars PROVE HarnessInv'
  OBVIOUS
<1>1. /\ CaseInv /\ TypeOK /\ IsSeq(verdicts) /\ Phase /\ Servers /\ Judgement /\ Stopping
      /\ UNCHANGED <<main, suite, keep, unix, at, started, per, verdicts, listed, exit>>
      /\ UNCHANGED <<leader, server, port, ready>> /\ UNCHANGED caseVars
  BY DEF HarnessInv, HarnessTypes, vars, mainVars, procs
<1>2. UNCHANGED <<case, rpc, step, closed>>
  BY <1>1 DEF caseVars
<1>3. CaseInv'
  BY <1>1, CaseUnchanged
<1>4. TypeOK' /\ IsSeq(verdicts')
  BY <1>1, <1>2 DEF TypeOK
<1>5. Judgement' /\ ThisCase' = ThisCase /\ Failed' = Failed /\ Kept' = Kept
  BY <1>1, SameVerdicts
<1>6. Phase'
  BY <1>1, <1>2, <1>5 DEF Phase
<1>7. Servers' /\ Stopping'
  BY <1>1, <1>5 DEF Servers, Stopping, IsStopped
<1> QED BY <1>3, <1>4, <1>5, <1>6, <1>7 DEF HarnessInv, HarnessTypes

-----------------------------------------------------------------------------
(* The class of a case.                                                    *)

LEMMA ImplsFinite == IsFiniteSet(Impls)
<1>1. Len(Order) \in Nat /\ Impls = {Order[n] : n \in 1..Len(Order)}
  BY OrderFacts
<1>2. IsFiniteSet(1..Len(Order))
  BY <1>1, FS_Interval
<1> DEFINE f == [n \in 1..Len(Order) |-> Order[n]]
<1>3. f \in Surjection(1..Len(Order), Impls)
  BY <1>1 DEF Surjection
<1> QED BY <1>2, <1>3, FS_Surjection

LEMMA FailureIsNamed ==
  ASSUME NEW S \in SUBSET Impls, S # {}
  PROVE  /\ Failure(S) \in FailClasses
         /\ Failure(S) = IF \A i, j \in S : i = j THEN CHOOSE i \in S : TRUE
                         ELSE "both_failure"
<1>1. IsFiniteSet(S)
  BY ImplsFinite, FS_Subset
<1>2. Cardinality(S) = 1 <=> \E x : S = {x}
  BY <1>1, FS_Singleton
<1>3. (\E x : S = {x}) <=> \A i, j \in S : i = j
  OBVIOUS
<1>4. (CHOOSE i \in S : TRUE) \in S
  OBVIOUS
<1> QED BY <1>2, <1>3, <1>4 DEF Failure, FailClasses

(* Classify, where every implementation is required without leave.         *)
LEMMA ClassOfRequired ==
  ASSUME NEW c, NEW v, c.valid, Judged(c, v), Impls \subseteq c.required, c.accepted = {}
  PROVE  v.class = TableClass(v, c)
<1> DEFINE not == Impls \ Conform(v)
<1>1. DOMAIN v.per = Impls /\ v.class = Classify(Order, c, v.per)
  BY DEF Judged
<1>2. FailingRequired(c.required, c.accepted, v.per) = not
  BY <1>1 DEF FailingRequired, Conform
<1>3. Gaps(c.required, c.accepted, v.per) = {}
  BY <1>1 DEF Gaps
<1>4. not \in SUBSET Impls
  OBVIOUS
<1>5. /\ TableClass(v, c) =
           IF not = {} THEN IF SemanticMatch(Order, c.protocol, c.exact, v.per)
                            THEN "pass" ELSE "accepted_difference"
           ELSE IF \A i, j \in not : i = j THEN CHOOSE i \in not : TRUE
           ELSE "both_failure"
  BY Zenon DEF TableClass
<1>6. v.class = IF not # {} THEN Failure(not)
                ELSE IF SemanticMatch(Order, c.protocol, c.exact, v.per)
                THEN "pass" ELSE "accepted_difference"
  BY <1>1, <1>2, <1>3, Zenon DEF Classify
<1> HIDE DEF not
<1>7. CASE not = {}
  BY <1>5, <1>6, <1>7, Zenon
<1>8. CASE not # {}
  <2>1. Failure(not) = IF \A i, j \in not : i = j THEN CHOOSE i \in not : TRUE
                       ELSE "both_failure"
    BY <1>4, <1>8, FailureIsNamed, Zenon
  <2> QED BY <1>5, <1>6, <1>8, <2>1, Zenon
<1> QED BY <1>7, <1>8

(* A case that is not failed was met by every implementation that had to.  *)
LEMMA NotFailedIsMet ==
  ASSUME NEW c, NEW v, Judged(c, v), v.class \notin FailClasses,
         NEW i \in Impls \cap c.required
  PROVE  \/ i \in c.accepted /\ v.per[i].unsupported
         \/ /\ v.per[i].met
            /\ Strict(c) => v.per[i].own /\ (i \in Wrapped \/ v.per[i].by = "own")
<1>1. c.valid
  BY DEF Judged, FailClasses
<1>2. /\ DOMAIN v.per = Impls /\ v.class = Classify(Order, c, v.per)
      /\ Sound(c, i, v.per[i])
  BY <1>1 DEF Judged
<1> DEFINE failing == FailingRequired(c.required, c.accepted, v.per)
<1>3. failing \in SUBSET Impls
  BY <1>2 DEF FailingRequired
<1>4. failing # {} => v.class = Failure(failing)
  BY <1>2, Zenon DEF Classify
<1> HIDE DEF failing
<1>5. failing = {}
  BY <1>3, <1>4, FailureIsNamed, Zenon
<1>6. v.per[i].pass \/ (i \in c.accepted /\ v.per[i].unsupported)
  BY <1>2, <1>5, Zenon DEF failing, FailingRequired
<1> QED BY <1>2, <1>6, Zenon DEF Sound

-----------------------------------------------------------------------------
(* The invariants.                                                         *)

LEMMA HarnessStep == HarnessInv /\ [Next]_vars => HarnessInv'
BY ProbeStep, SpawnStep, AwaitStep, InvalidStep, ConnectsStep, EndsCaseStep, StopsStep,
   ReportsStep, RunsCaseStep, ProcessesStep, ServerDiesStep, HarnessUnchanged
   DEF Next, Harness, Processes, Finished

LEMMA HarnessInvariant == Spec => []HarnessInv
<1>1. Init => HarnessInv
  BY InitStep
<1>2. HarnessInv /\ [Next]_vars => HarnessInv'
  BY HarnessStep
<1> QED BY <1>1, <1>2, PTL DEF Spec

(* TypeOK, whatever the suite and the implementations are: the index, the  *)
(* processes and the step in progress are always ones there are.           *)
THEOREM HarnessTypeCorrect == Spec => []TypeOK
<1>1. HarnessInv => TypeOK
  BY DEF HarnessInv, HarnessTypes
<1> QED BY <1>1, HarnessInvariant, PTL

(* A record that names a type or a status was made from one answer and     *)
(* from its beginning, and a silence that is no protocol error left every  *)
(* reply where it was: for every server, however it cuts its answers.      *)
THEOREM RecordsAreFaithful == Spec => []RecordsTellTheWire
<1>1. HarnessInv => RecordsTellTheWire
  BY RecordsFollow DEF HarnessInv, RecordsTellTheWire
<1> QED BY <1>1, HarnessInvariant, PTL

(* No process that the harness signals outlives the run, unless the        *)
(* servers are kept for a failed case.                                     *)
THEOREM ServersAreStopped == Spec => []StartedIsStopped
<1>1. HarnessInv => StartedIsStopped
  BY DEF HarnessInv, Stopping, StartedIsStopped, Kept, Failed, IsStopped
<1> QED BY <1>1, HarnessInvariant, PTL

(* The class of a case that requires every implementation is the one of    *)
(* the table, for any number of implementations.                           *)
THEOREM ClassesFollowTheTable == Spec => []ClassIsTable
<1>1. ASSUME HarnessInv PROVE ClassIsTable
  <2> SUFFICES ASSUME NEW n \in DOMAIN verdicts, suite[n].valid,
                      Impls \subseteq suite[n].required, suite[n].accepted = {}
               PROVE  verdicts[n].class = TableClass(verdicts[n], suite[n])
    BY DEF ClassIsTable
  <2>1. Judged(suite[n], verdicts[n])
    BY <1>1 DEF HarnessInv, Judgement
  <2> QED BY <2>1, ClassOfRequired
<1> QED BY <1>1, HarnessInvariant, PTL

(* Exit code 0 is earned: every case was classified, and each required     *)
(* implementation met every step of it, or had leave not to.               *)
THEOREM ZeroMeansMet == Spec => []ZeroIsEarned
<1>1. ASSUME HarnessInv PROVE ZeroIsEarned
  <2> SUFFICES ASSUME main = "done", exit = 0
               PROVE  /\ Len(verdicts) = Len(suite) /\ listed = {}
                      /\ \A n \in DOMAIN suite : \A i \in Impls \cap suite[n].required :
                            LET o == verdicts[n].per[i]
                            IN \/ i \in suite[n].accepted /\ o.unsupported
                               \/ /\ o.met
                                  /\ Strict(suite[n]) =>
                                        o.own /\ (i \in Wrapped \/ o.by = "own")
    BY DEF ZeroIsEarned
  <2>1. Len(verdicts) = Len(suite) /\ listed = {} /\ Failed = {}
    BY <1>1 DEF HarnessInv, Phase
  <2>2. DOMAIN verdicts = 1..Len(verdicts) /\ DOMAIN suite = 1..Len(suite)
    BY <1>1, SuiteFacts, LenProperties DEF HarnessInv, HarnessTypes, TypeOK, IsSeq
  <2>3. ASSUME NEW n \in DOMAIN suite
        PROVE  Judged(suite[n], verdicts[n]) /\ verdicts[n].class \notin FailClasses
    BY <1>1, <2>1, <2>2 DEF HarnessInv, Judgement, Failed
  <2> QED BY <2>1, <2>3, NotFailedIsMet
<1> QED BY <1>1, HarnessInvariant, PTL

=============================================================================
