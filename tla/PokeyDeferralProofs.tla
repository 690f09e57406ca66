------------------------- MODULE PokeyDeferralProofs -------------------------
(***************************************************************************)
(* Proofs about deferral, for every length of line, every cost of an       *)
(* instruction and every timer period: each cycle reaches POKEY once, none *)
(* lags while POKEY could interrupt, no debt is forgiven, and no program   *)
(* can tell the deferring scheduler from the one that never defers.        *)
(***************************************************************************)
EXTENDS PokeyDeferral, TLAPS

(* The deferring loop runs only on a quiet POKEY with the gate unbroken.   *)
Quiet(p) == ~p.attached /\ p.tx = 0 /\ "timer" \notin p.irqen

DeferIsQuiet == mode = "defer" /\ phase # "begin" => Quiet(pokey) /\ ~brk

LagIsDeferred == lag > 0 => mode = "defer" /\ phase # "begin"

(* A WSYNC left from outside never meets an instruction.                   *)
NoStaleStall == wsync => phase = "begin" /\ line = 0

IInv == TypeOK /\ EachCycleOnce /\ NoFreeCycles
        /\ DeferIsQuiet /\ LagIsDeferred /\ NoStaleStall

-----------------------------------------------------------------------------
(***************************************************************************)
(* Arithmetic of the timer.                                                *)
(***************************************************************************)

(* A multiple of p that lies strictly between -p and p is zero.            *)
LEMMA SmallMultiple ==
  ASSUME NEW p \in Nat \ {0}, NEW k \in Int, k * p < p, -p < k * p
  PROVE  k = 0
<1>1. CASE k >= 1
  <2>1. (k - 1) * p >= 0 BY <1>1
  <2>2. (k - 1) * p = k * p - p OBVIOUS
  <2> QED BY <2>1, <2>2
<1>2. CASE k <= -1
  <2>1. (-k - 1) * p >= 0 BY <1>2
  <2>2. (-k - 1) * p = -(k * p) - p OBVIOUS
  <2> QED BY <2>1, <2>2
<1> QED BY <1>1, <1>2

(* Division with remainder, with the remainder in range.                   *)
LEMMA Division ==
  ASSUME NEW p \in Nat \ {0}, NEW x \in Int
  PROVE  /\ x % p \in 0..(p - 1)
         /\ x \div p \in Int
         /\ x % p = x - p * (x \div p)
<1>1. x % p \in 0..(p - 1) /\ x \div p \in Int OBVIOUS
<1>2. x % p = x - p * (x \div p) OBVIOUS
<1> QED BY <1>1, <1>2

(* A remainder is all that counts of a number when more is subtracted.     *)
LEMMA RemainderMinus ==
  ASSUME NEW p \in Nat \ {0}, NEW x \in Int, NEW b \in Int
  PROVE  ((x % p) - b) % p = (x - b) % p
<1> DEFINE r  == x % p
           s  == (r - b) % p
           t  == (x - b) % p
           q3 == x \div p
           q2 == (r - b) \div p
           q1 == (x - b) \div p
<1>1. r \in 0..(p - 1) /\ q3 \in Int /\ r = x - p * q3
  BY Division
<1>2. s \in 0..(p - 1) /\ q2 \in Int /\ s = (r - b) - p * q2
  <2>1. r - b \in Int BY <1>1
  <2> HIDE DEF r
  <2> QED BY <2>1, Division
<1>3. t \in 0..(p - 1) /\ q1 \in Int /\ t = (x - b) - p * q1
  BY Division, SMTT(30)
<1> HIDE DEF r, s, t, q1, q2, q3
<1> DEFINE k == q1 - q2 - q3
<1>4. k \in Int BY <1>1, <1>2, <1>3
<1>5. k * p = s - t
  <2>1. k * p = p * q1 - p * q2 - p * q3 BY <1>1, <1>2, <1>3
  <2> QED BY <2>1, <1>1, <1>2, <1>3
<1> HIDE DEF k
<1>6. k = 0 BY <1>2, <1>3, <1>4, <1>5, SmallMultiple
<1>7. s = t BY <1>2, <1>3, <1>5, <1>6
<1> QED BY <1>7 DEF s, t, r

(* A number already in range is its own remainder.                         *)
LEMMA RemainderInRange ==
  ASSUME NEW p \in Nat \ {0}, NEW x \in 0..(p - 1)
  PROVE  x % p = x
<1> DEFINE r == x % p
           q == x \div p
<1>1. r \in 0..(p - 1) /\ q \in Int /\ r = x - p * q BY Division
<1> HIDE DEF r, q
<1>2. q * p = x - r BY <1>1
<1>3. q = 0 BY <1>1, <1>2, SmallMultiple
<1> QED BY <1>1, <1>3 DEF r

-----------------------------------------------------------------------------
(***************************************************************************)
(* POKEY-ADVANCE and POKEY-WRITE.                                          *)
(***************************************************************************)
Fired(p, n) == {s \in p.irqen : IF s = "timer" THEN p.timer <= n
                                               ELSE p.tx \in 1..n}

(* The fields of an advanced POKEY.                                        *)
LEMMA AdvanceFields ==
  ASSUME NEW p \in Pokey, NEW n \in Nat
  PROVE  Advance(p, n) = [timer    |-> ((p.timer - n - 1) % Period) + 1,
                          tx       |-> TxAfter(p, n),
                          holding  |-> p.holding /\ p.tx \notin 1..n,
                          irqen    |-> p.irqen,
                          irqst    |-> p.irqst \cup Fired(p, n),
                          attached |-> p.attached]
  BY Zenon DEF Advance, Fired

(* Advancing keeps every field in its range.                               *)
LEMMA AdvanceType ==
  ASSUME NEW p \in Pokey, NEW n \in Nat
  PROVE  Advance(p, n) \in Pokey
<1>1. ((p.timer - n - 1) % Period) + 1 \in 1..Period
  <2>1. p.timer - n - 1 \in Int BY PokeyAssumption DEF Pokey
  <2> DEFINE x == p.timer - n - 1
  <2> HIDE DEF x
  <2>2. x % Period \in 0..(Period - 1) BY <2>1, PokeyAssumption, Division DEF x
  <2>3. (x % Period) + 1 \in 1..Period BY <2>2, PokeyAssumption
  <2> QED BY <2>3 DEF x
<1>2. TxAfter(p, n) \in 0..ByteTime
  BY PokeyAssumption DEF TxAfter, Pokey
<1>3. (p.holding /\ p.tx \notin 1..n) \in BOOLEAN OBVIOUS
<1>4. p.irqst \cup Fired(p, n) \in SUBSET Sources BY DEF Fired, Pokey
<1> DEFINE t == ((p.timer - n - 1) % Period) + 1
           h == p.holding /\ p.tx \notin 1..n
           i == p.irqst \cup Fired(p, n)
<1> HIDE DEF t, h, i
<1>5. Advance(p, n) = [timer |-> t, tx |-> TxAfter(p, n), holding |-> h,
                       irqen |-> p.irqen, irqst |-> i,
                       attached |-> p.attached]
  BY AdvanceFields DEF t, h, i
<1>6. t \in 1..Period /\ h \in BOOLEAN /\ i \in SUBSET Sources
  BY <1>1, <1>3, <1>4 DEF t, h, i
<1> QED BY <1>2, <1>5, <1>6 DEF Pokey

(* A write leaves a POKEY.                                                 *)
LEMMA WriteType ==
  ASSUME NEW p \in Pokey, NEW q \in Write(p)
  PROVE  q \in Pokey
<1>1. ByteTime \in 0..ByteTime /\ Period \in 1..Period BY PokeyAssumption
<1>2. CASE q = p BY <1>2
<1>3. CASE q = [p EXCEPT !.timer = Period] BY <1>1, <1>3 DEF Pokey
<1>4. CASE \E e \in SUBSET Sources :
             q = [p EXCEPT !.irqen = e, !.irqst = @ \cap e]
  BY <1>4 DEF Pokey
<1>5. CASE q = [p EXCEPT !.tx = ByteTime, !.holding = FALSE,
                         !.irqst = @ \cup (p.irqen \cap {"serial"})]
  BY <1>1, <1>5 DEF Pokey, Sources
<1>6. CASE q = [p EXCEPT !.holding = TRUE] BY <1>6 DEF Pokey
<1> QED BY <1>2, <1>3, <1>4, <1>5, <1>6 DEF Write

(* Advancing by no cycles changes nothing.                                 *)
LEMMA AdvanceZero ==
  ASSUME NEW p \in Pokey
  PROVE  Advance(p, 0) = p
<1>1. p.timer - 0 - 1 = p.timer - 1 /\ p.timer - 1 \in 0..(Period - 1)
  BY PokeyAssumption DEF Pokey
<1>2. ((p.timer - 0 - 1) % Period) + 1 = p.timer
  <2> DEFINE x == p.timer - 1
  <2> HIDE DEF x
  <2>1. x % Period = x BY <1>1, PokeyAssumption, RemainderInRange DEF x
  <2>2. (x % Period) + 1 = p.timer BY <2>1, PokeyAssumption DEF x, Pokey
  <2> QED BY <1>1, <2>2 DEF x
<1>3. TxAfter(p, 0) = p.tx BY PokeyAssumption DEF TxAfter, Pokey
<1>4. p.tx \notin 1..0 /\ p.irqst \cup Fired(p, 0) = p.irqst
  BY PokeyAssumption DEF Fired, Pokey
<1>5. (p.holding /\ p.tx \notin 1..0) = p.holding
  BY <1>4, Zenon DEF Pokey
<1>6. Advance(p, 0) = [timer |-> p.timer, tx |-> p.tx, holding |-> p.holding,
                       irqen |-> p.irqen, irqst |-> p.irqst,
                       attached |-> p.attached]
  <2>1. 0 \in Nat OBVIOUS
  <2> QED BY <2>1, <1>2, <1>3, <1>4, <1>5, AdvanceFields, Zenon
<1> QED BY <1>6 DEF Pokey

(* A quiet POKEY raises nothing while it is advanced and stays quiet.      *)
LEMMA AdvanceQuiet ==
  ASSUME NEW p \in Pokey, NEW n \in Nat, Quiet(p)
  PROVE  /\ Advance(p, n) = [p EXCEPT !.timer = ((p.timer - n - 1) % Period) + 1]
         /\ Quiet(Advance(p, n))
         /\ Advance(p, n).irqst = p.irqst
<1>1. TxAfter(p, n) = 0 /\ p.tx \notin 1..n BY DEF TxAfter, Quiet
<1>2. p.irqst \cup Fired(p, n) = p.irqst
  BY DEF Fired, Quiet, Pokey, Sources
<1>3. (p.holding /\ p.tx \notin 1..n) = p.holding
  BY <1>1, Zenon DEF Pokey
<1>4. Advance(p, n) = [timer    |-> ((p.timer - n - 1) % Period) + 1,
                       tx       |-> 0, holding |-> p.holding,
                       irqen    |-> p.irqen, irqst |-> p.irqst,
                       attached |-> p.attached]
  BY <1>1, <1>2, <1>3, AdvanceFields, Zenon
<1> DEFINE t == ((p.timer - n - 1) % Period) + 1
<1> HIDE DEF t
<1>5. [timer |-> t, tx |-> 0, holding |-> p.holding, irqen |-> p.irqen,
       irqst |-> p.irqst, attached |-> p.attached] = [p EXCEPT !.timer = t]
  BY DEF Quiet, Pokey
<1>6. [p EXCEPT !.timer = t].irqst = p.irqst /\ Quiet([p EXCEPT !.timer = t])
  BY DEF Quiet, Pokey
<1> QED BY <1>4, <1>5, <1>6 DEF t

(* Two advances of a quiet POKEY are one: what makes deferral sound.       *)
LEMMA AdvanceTwice ==
  ASSUME NEW p \in Pokey, NEW a \in Nat, NEW b \in Nat, Quiet(p)
  PROVE  Advance(Advance(p, a), b) = Advance(p, a + b)
<1> DEFINE x == p.timer - a - 1
           t == (x % Period) + 1
           q == [p EXCEPT !.timer = t]
<1>1. x \in Int BY PokeyAssumption DEF Pokey
<1>2. Advance(p, a) = q BY AdvanceQuiet
<1>3. q \in Pokey /\ Quiet(q) BY <1>2, AdvanceQuiet, AdvanceType
<1>4. Advance(q, b) = [q EXCEPT !.timer = ((q.timer - b - 1) % Period) + 1]
  BY <1>3, AdvanceQuiet
<1>5. q.timer - b - 1 = (x % Period) - b
  <2> HIDE DEF x
  <2>1. q.timer = (x % Period) + 1 BY DEF Pokey
  <2>2. x % Period \in Int BY <1>1, PokeyAssumption, Division
  <2> QED BY <2>1, <2>2
<1>6. ((x % Period) - b) % Period = (x - b) % Period
  <2> HIDE DEF x
  <2>1. Period \in Nat \ {0} /\ b \in Int BY PokeyAssumption
  <2> QED BY <1>1, <2>1, RemainderMinus, Zenon
<1>7. x - b = p.timer - (a + b) - 1 BY PokeyAssumption DEF Pokey
<1>8. Advance(q, b) = [p EXCEPT !.timer = ((p.timer - (a + b) - 1) % Period) + 1]
  <2> DEFINE y == p.timer - (a + b) - 1
  <2>1. ((q.timer - b - 1) % Period) + 1 = (y % Period) + 1
    BY <1>5, <1>6, <1>7
  <2> HIDE DEF y, t
  <2>2. Advance(q, b) = [q EXCEPT !.timer = (y % Period) + 1] BY <1>4, <2>1
  <2> QED BY <2>2 DEF y, Pokey
<1>9. Advance(p, a + b) = [p EXCEPT !.timer = ((p.timer - (a + b) - 1) % Period) + 1]
  BY AdvanceQuiet
<1> QED BY <1>2, <1>8, <1>9

-----------------------------------------------------------------------------
(***************************************************************************)
(* The inductive invariant.                                                *)
(***************************************************************************)

(* The scheduler starts in the invariant.                                  *)
LEMMA InitIInv == DInit => IInv
<1> SUFFICES ASSUME DInit PROVE IInv
  OBVIOUS
<1> USE DEF DInit, Init
<1>1. pokey \in Pokey
  BY PokeyAssumption DEF Pokey, Sources
<1>2. TypeOK
  <2>1. /\ line \in 0..(Lines - 1) /\ budget >= 2 - MaxCost
        /\ 0 \in 0..LineCycles /\ delivered \in 0..LineCycles
    BY LineAssumption, CostsAssumption
  <2>2. seen.irq \in BOOLEAN /\ seen.reg \subseteq Pokey
    BY DEF Nothing
  <2>3. /\ halted \in BOOLEAN /\ brk \in BOOLEAN /\ wsync \in BOOLEAN
        /\ phase = "begin" /\ mode = "plain" /\ line \in 0..(Lines - 1)
        /\ budget = 0 /\ slack = 0 /\ lag = 0 /\ remaining = 0
    BY <2>1
  <2> HIDE DEF DInit, Init
  <2> QED BY <1>1, <2>1, <2>2, <2>3 DEF TypeOK
<1> QED
  BY <1>2, LineAssumption
  DEF IInv, EachCycleOnce, NoFreeCycles, DeferIsQuiet, LagIsDeferred,
      NoStaleStall

(* The lag is a number of cycles that POKEY can be advanced by.            *)
LEMMA SyncedType == IInv => Synced \in Pokey
  BY AdvanceType DEF IInv, TypeOK, Synced

(* What an instruction finds of POKEY is typed.                            *)
LEMMA FoundType ==
  ASSUME NEW p, NEW S \in SUBSET Pokey
  PROVE  Found(p, S).irq \in BOOLEAN /\ Found(p, S).reg \in SUBSET Pokey
  BY DEF Found

(* Every access leaves a POKEY, and only a write may leave it loud.        *)
LEMMA AccessedType ==
  ASSUME IInv, NEW kind \in Kinds, NEW q \in Accessed(kind)
  PROVE  /\ q \in Pokey
         /\ kind # "write" /\ Quiet(pokey) => Quiet(q)
<1>1. pokey \in Pokey /\ lag \in Nat BY LineAssumption DEF IInv, TypeOK
<1>2. CASE kind = "read"
  BY <1>1, <1>2, SyncedType, AdvanceQuiet DEF Accessed, Synced
<1>3. CASE kind = "write"
  BY <1>3, SyncedType, WriteType DEF Accessed
<1>4. CASE kind \notin {"read", "write"}
  BY <1>1, <1>4 DEF Accessed
<1> QED BY <1>2, <1>3, <1>4

(* A line starts.                                                          *)
LEMMA BeginLineStep ==
  ASSUME IInv, NEW stolen \in Steals, BeginLine(stolen)
  PROVE  IInv'
<1> USE DEF BeginLine, Begin
<1>1. stolen \in 0..LineCycles BY StealsAssumption
<1>2. lag = 0 BY DEF IInv, EachCycleOnce
<1>3. TypeOK'
  <2>1. /\ budget' \in Int /\ budget' >= 2 - MaxCost /\ slack' \in Int
        /\ remaining' \in 0..LineCycles /\ delivered' \in 0..LineCycles
    BY <1>1, LineAssumption, CostsAssumption DEF IInv, TypeOK
  <2>2. wsync' \in BOOLEAN /\ brk' \in BOOLEAN
    BY DEF IInv, TypeOK
  <2>3. seen'.irq \in BOOLEAN /\ seen'.reg \subseteq Pokey
    BY DEF Nothing
  <2> QED BY <2>1, <2>2, <2>3 DEF IInv, TypeOK
<1>4. EachCycleOnce' BY <1>2, LineAssumption DEF EachCycleOnce
<1>5. NoFreeCycles'
  BY <1>1, LineAssumption DEF IInv, TypeOK, NoFreeCycles
<1>6. DeferIsQuiet' BY DEF DeferIsQuiet, Deferrable, Quiet
<1>7. LagIsDeferred' BY <1>2 DEF LagIsDeferred
<1>8. NoStaleStall' BY DEF IInv, NoStaleStall
<1> QED BY <1>3, <1>4, <1>5, <1>6, <1>7, <1>8 DEF IInv

(* The parts of a sum of naturals are at most the sum.                     *)
LEMMA PartsOfSum ==
  ASSUME NEW a \in Nat, NEW b \in Nat, NEW c \in Nat, NEW n,
         a + b + c = n
  PROVE  a \in 0..n /\ b \in 0..n /\ c \in 0..n
  OBVIOUS

(* What Execute does to everything but POKEY, the lag and the mode.        *)
LEMMA ExecuteFacts ==
  ASSUME IInv, NEW kind \in Kinds, NEW u \in Costs, Execute(kind, u)
  PROVE  /\ phase = "run" /\ phase' \in {"run", "end"}
         /\ line' \in 0..(Lines - 1)
         /\ budget' \in Int /\ budget' >= 2 - MaxCost
         /\ Chunk(u) \in 0..remaining
         /\ remaining' = remaining - Chunk(u)
         /\ halted' \in BOOLEAN /\ brk' \in BOOLEAN /\ wsync' \in BOOLEAN
         /\ seen'.irq \in BOOLEAN /\ seen'.reg \subseteq Pokey
         /\ slack' \in Int /\ budget' <= slack'
         /\ ~wsync /\ ~wsync'
<1>1. u \in 1..MaxCost /\ MaxCost \in Nat /\ MaxCost >= 2
  BY CostsAssumption
<1>2. phase = "run" /\ budget \in Int /\ budget >= 2
  BY DEF IInv, TypeOK, Execute, CanRun
<1>3. Clamp(kind, u) \in {budget - u, 0} /\ Clamp(kind, u) <= budget - u
  BY <1>1, <1>2 DEF Clamp, MinOf
<1>4. budget' \in Int /\ budget' >= 2 - MaxCost /\ budget' <= budget - u
  BY <1>1, <1>2, <1>3 DEF Execute
<1>5. slack' \in Int /\ budget' <= slack'
  BY <1>1, <1>2, <1>4 DEF IInv, TypeOK, NoFreeCycles, Execute
<1>6. Chunk(u) \in 0..remaining
  BY <1>1, LineAssumption DEF Chunk, MinOf, IInv, TypeOK
<1>7. seen'.irq \in BOOLEAN /\ seen'.reg \subseteq Pokey
  BY SyncedType, FoundType DEF Execute
<1>8. ~wsync BY <1>2 DEF IInv, NoStaleStall
<1>9. phase' \in {"run", "end"} BY <1>2 DEF Execute
<1>10. halted' \in BOOLEAN /\ brk' \in BOOLEAN /\ wsync' \in BOOLEAN /\ ~wsync'
  BY DEF Execute, IInv, TypeOK
<1> QED
  BY <1>2, <1>4, <1>5, <1>6, <1>7, <1>8, <1>9, <1>10
  DEF Execute, IInv, TypeOK

(* What a step of either loop preserves, once POKEY, the lag and the mode  *)
(* are accounted for.                                                      *)
LEMMA ExecuteStep ==
  ASSUME IInv, NEW kind \in Kinds, NEW u \in Costs, Execute(kind, u),
         pokey' \in Pokey, lag' \in Nat, mode' \in {"defer", "plain"},
         delivered' \in Nat, delivered' + lag' + remaining' = LineCycles,
         mode' = "defer" => Quiet(pokey') /\ ~brk',
         lag' > 0 => mode' = "defer"
  PROVE  IInv'
<1>1. phase = "run" /\ phase' \in {"run", "end"} /\ ~wsync'
  BY ExecuteFacts
<1>2. remaining' \in Nat /\ LineCycles \in Nat
  BY ExecuteFacts, LineAssumption DEF IInv, TypeOK
<1>3. /\ remaining' \in 0..LineCycles /\ lag' \in 0..LineCycles
      /\ delivered' \in 0..LineCycles
  BY <1>2, PartsOfSum
<1>4. TypeOK' BY <1>1, <1>3, ExecuteFacts DEF TypeOK
<1>5. EachCycleOnce' BY <1>1 DEF EachCycleOnce
<1>6. NoFreeCycles' BY ExecuteFacts DEF NoFreeCycles
<1>7. DeferIsQuiet' BY DEF DeferIsQuiet
<1>8. LagIsDeferred' BY <1>1 DEF LagIsDeferred
<1>9. NoStaleStall' BY <1>1 DEF NoStaleStall
<1> QED BY <1>4, <1>5, <1>6, <1>7, <1>8, <1>9 DEF IInv

(* What is paid off is part of the lag.                                    *)
LEMMA PaidOffType ==
  ASSUME IInv, NEW kind \in Kinds
  PROVE  PaidOff(kind) \in 0..lag
  BY LineAssumption DEF IInv, TypeOK, PaidOff

(* An instruction of the non-deferring loop.                               *)
LEMMA PlainStepStep ==
  ASSUME IInv, NEW kind \in Kinds, NEW u \in Costs, PlainStep(kind, u)
  PROVE  IInv'
<1>1. Execute(kind, u) /\ mode' = "plain" BY DEF PlainStep
<1>2. lag = 0 /\ PaidOff(kind) = 0
  BY PaidOffType, LineAssumption
  DEF PlainStep, IInv, TypeOK, LagIsDeferred, PaidOff
<1>3. Chunk(u) \in 0..remaining /\ remaining' = remaining - Chunk(u)
  BY <1>1, ExecuteFacts
<1>4. remaining \in Nat BY LineAssumption DEF IInv, TypeOK
<1>5. pokey' \in Pokey
  <2>1. PICK q \in Accessed(kind) : pokey' = Advance(q, Chunk(u))
    BY DEF PlainStep
  <2>2. Chunk(u) \in Nat BY <1>3, <1>4
  <2> QED BY <2>1, <2>2, AccessedType, AdvanceType
<1>6. lag' = 0 /\ delivered' = delivered + Chunk(u)
  BY <1>2, <1>3, <1>4, LineAssumption DEF PlainStep, IInv, TypeOK
<1>7. delivered' \in Nat /\ delivered' + lag' + remaining' = LineCycles
  BY <1>2, <1>3, <1>4, <1>6, LineAssumption DEF IInv, TypeOK, EachCycleOnce
<1> QED BY <1>1, <1>5, <1>6, <1>7, ExecuteStep

(* An instruction of the deferring loop that leaves the gate whole.        *)
LEMMA DeferStepStep ==
  ASSUME IInv, NEW kind \in Kinds, NEW u \in Costs, DeferStep(kind, u)
  PROVE  IInv'
<1>1. Execute(kind, u) /\ mode' = "defer" BY DEF DeferStep
<1>2. ~wsync /\ phase = "run" BY <1>1, ExecuteFacts
<1>3. kind # "write" /\ ~brk' /\ Quiet(pokey)
  BY <1>2
  DEF DeferStep, Stalls, Execute, IInv, DeferIsQuiet
<1>4. pokey' \in Pokey /\ Quiet(pokey')
  BY <1>3, AccessedType DEF DeferStep
<1>5. Chunk(u) \in 0..remaining /\ remaining' = remaining - Chunk(u)
  BY <1>1, ExecuteFacts
<1>6. remaining \in Nat /\ lag \in Nat /\ delivered \in Nat /\ PaidOff(kind) \in 0..lag
  BY PaidOffType, LineAssumption DEF IInv, TypeOK
<1>7. lag' \in Nat /\ delivered' \in Nat /\ delivered' + lag' + remaining' = LineCycles
  BY <1>5, <1>6 DEF DeferStep, IInv, EachCycleOnce
<1> QED BY <1>1, <1>3, <1>4, <1>7, ExecuteStep

(* An instruction that breaks the gate.                                    *)
LEMMA BreakStepStep ==
  ASSUME IInv, NEW kind \in Kinds, NEW u \in Costs, BreakStep(kind, u)
  PROVE  IInv'
<1>1. Execute(kind, u) /\ mode' = "plain" /\ lag' = 0 BY DEF BreakStep
<1>2. Chunk(u) \in 0..remaining /\ remaining' = remaining - Chunk(u)
  BY <1>1, ExecuteFacts
<1>3. remaining \in Nat /\ lag \in Nat /\ delivered \in Nat /\ PaidOff(kind) \in 0..lag
  BY PaidOffType, LineAssumption DEF IInv, TypeOK
<1>4. delivered' \in Nat /\ delivered' + lag' + remaining' = LineCycles
  BY <1>1, <1>2, <1>3 DEF BreakStep, IInv, EachCycleOnce
<1>5. pokey' \in Pokey
  <2>1. PICK q \in Accessed(kind) :
             pokey' = Advance(q, lag - PaidOff(kind) + Chunk(u))
    BY DEF BreakStep
  <2>2. lag - PaidOff(kind) + Chunk(u) \in Nat BY <1>2, <1>3
  <2> QED BY <2>1, <2>2, AccessedType, AdvanceType
<1> QED BY <1>1, <1>4, <1>5, ExecuteStep

(* A KIL opcode.                                                           *)
LEMMA HaltStepStep == ASSUME IInv, HaltStep PROVE IInv'
<1>1. seen'.irq \in BOOLEAN /\ seen'.reg \subseteq Pokey
  BY FoundType DEF HaltStep, Halt
<1> QED
  BY <1>1
  DEF HaltStep, Halt, CanRun, IInv, TypeOK, EachCycleOnce, NoFreeCycles,
      DeferIsQuiet, LagIsDeferred, NoStaleStall, Quiet

(* A cold reset.                                                           *)
LEMMA ColdResetStep == ASSUME IInv, ColdReset PROVE IInv'
  BY DEF ColdReset, Reset, IInv, TypeOK, EachCycleOnce, NoFreeCycles,
         DeferIsQuiet, LagIsDeferred, NoStaleStall, Quiet

(* The end of a line.                                                      *)
LEMMA EndLineStep == ASSUME IInv, EndLine PROVE IInv'
<1>1. remaining \in Nat /\ lag \in Nat /\ delivered \in Nat
  BY LineAssumption DEF IInv, TypeOK
<1>2. pokey' \in Pokey
  BY <1>1, SyncedType, AdvanceType DEF EndLine, Folded, Synced
<1>3. delivered' = LineCycles /\ lag' = 0 /\ remaining' = 0
  BY <1>1, LineAssumption DEF EndLine, Folded, IInv, EachCycleOnce
<1>4. line' \in 0..(Lines - 1)
  <2>1. line + 1 \in Int /\ Lines \in Nat \ {0}
    BY LineAssumption DEF IInv, TypeOK
  <2> QED BY <2>1, Division DEF EndLine
<1>5. /\ budget' \in Int /\ budget' >= 2 - MaxCost
      /\ slack' \in Int /\ budget' <= slack'
  BY CostsAssumption DEF EndLine, IInv, TypeOK, NoFreeCycles
<1>6. TypeOK'
  BY <1>2, <1>3, <1>4, <1>5, LineAssumption
  DEF EndLine, IInv, TypeOK, Nothing
<1>7. EachCycleOnce' BY <1>3, LineAssumption DEF EachCycleOnce
<1>8. phase' = "begin" /\ ~wsync'
  BY DEF EndLine, IInv, NoStaleStall, CanRun
<1> QED
  BY <1>3, <1>5, <1>6, <1>7, <1>8
  DEF IInv, NoFreeCycles, DeferIsQuiet, LagIsDeferred, NoStaleStall

(* What happens between two calls.                                         *)
LEMMA BetweenCallsStep ==
  ASSUME IInv, OutsideWrite \/ OutsideStall \/ AttachAudio
  PROVE  IInv'
<1>1. lag = 0 /\ phase = "begin" /\ line = 0 /\ lag' = 0 /\ delivered' = delivered
  BY LineAssumption
  DEF OutsideWrite, OutsideStall, AttachAudio, BetweenCalls, IInv, TypeOK,
      EachCycleOnce
<1>2. pokey' \in Pokey
  <2>1. CASE OutsideWrite BY <2>1, SyncedType, WriteType DEF OutsideWrite
  <2>2. CASE OutsideStall BY <2>2 DEF OutsideStall, IInv, TypeOK
  <2>3. CASE AttachAudio
    <3>1. Synced.attached \in BOOLEAN BY SyncedType DEF Pokey
    <3> QED BY <2>3, <3>1, SyncedType DEF AttachAudio, Pokey
  <2> QED BY <2>1, <2>2, <2>3
<1>3. Unscheduled
  BY DEF OutsideWrite, OutsideStall, AttachAudio
<1>4. brk' \in BOOLEAN /\ wsync' \in BOOLEAN
  BY DEF OutsideWrite, OutsideStall, AttachAudio, IInv, TypeOK
<1>5. TypeOK'
  BY <1>1, <1>2, <1>3, <1>4, LineAssumption DEF Unscheduled, IInv, TypeOK
<1> QED
  BY <1>1, <1>3, <1>5
  DEF Unscheduled, IInv, EachCycleOnce, NoFreeCycles, DeferIsQuiet,
      LagIsDeferred, NoStaleStall

(* Every step preserves the invariant.                                     *)
LEMMA InductiveStep == IInv /\ [DNext]_dvars => IInv'
<1> SUFFICES ASSUME IInv, [DNext]_dvars PROVE IInv'
  OBVIOUS
<1>1. ASSUME NEW s \in Steals, BeginLine(s) PROVE IInv'
  BY <1>1, BeginLineStep
<1>2. ASSUME NEW kind \in Kinds, NEW u \in Costs,
             PlainStep(kind, u) \/ DeferStep(kind, u) \/ BreakStep(kind, u)
      PROVE  IInv'
  BY <1>2, PlainStepStep, DeferStepStep, BreakStepStep
<1>3. CASE HaltStep BY <1>3, HaltStepStep
<1>4. CASE EndLine BY <1>4, EndLineStep
<1>5. CASE OutsideWrite \/ OutsideStall \/ AttachAudio
  BY <1>5, BetweenCallsStep
<1>6. CASE ColdReset BY <1>6, ColdResetStep
<1>7. CASE UNCHANGED dvars
  BY <1>7
  DEF dvars, vars, IInv, TypeOK, EachCycleOnce, NoFreeCycles, DeferIsQuiet,
      LagIsDeferred, NoStaleStall, Quiet
<1> QED BY <1>1, <1>2, <1>3, <1>4, <1>5, <1>6, <1>7 DEF DNext

(* The scheduler never leaves the invariant.                               *)
THEOREM InductiveInvariant == DSpec => []IInv
  BY InitIInv, InductiveStep, PTL DEF DSpec

(* Types, among them that no line leaves more debt than one instruction.   *)
THEOREM TypeCorrect == DSpec => []TypeOK
<1>1. IInv => TypeOK BY DEF IInv
<1> QED BY <1>1, InductiveInvariant, PTL

(* Each of a line's cycles reaches POKEY exactly once.                     *)
THEOREM CyclesAreConserved == DSpec => []EachCycleOnce
<1>1. IInv => EachCycleOnce BY DEF IInv
<1> QED BY <1>1, InductiveInvariant, PTL

(* No cycle lags while POKEY could raise an interrupt.                     *)
THEOREM LagStaysQuiet == DSpec => []LagIsQuiet
<1>1. IInv => LagIsQuiet
  BY DEF IInv, LagIsDeferred, DeferIsQuiet, LagIsQuiet, Quiet
<1> QED BY <1>1, InductiveInvariant, PTL

(* The CPU never runs on cycles it was not granted.                        *)
THEOREM NothingIsFree == DSpec => []NoFreeCycles
<1>1. IInv => NoFreeCycles BY DEF IInv
<1> QED BY <1>1, InductiveInvariant, PTL

-----------------------------------------------------------------------------
(***************************************************************************)
(* Refinement.  The clock's POKEY is the real one with the lag paid off.   *)
(***************************************************************************)

(* With no lag the two are the same, now and after a step.                 *)
LEMMA NoLagSynced == IInv /\ lag = 0 => Synced = pokey
  BY AdvanceZero DEF IInv, TypeOK, Synced

(* The same in the next state, which a leaf cannot instantiate by itself.  *)
LEMMA NoLagSyncedNext == IInv' /\ lag' = 0 => Synced' = pokey'
  BY AdvanceZero DEF IInv, TypeOK, Synced

(* An instruction of the loops finds the IRQ line the clock would find.    *)
LEMMA SameLine ==
  ASSUME IInv, phase = "run"
  PROVE  Synced.irqst = pokey.irqst
<1>1. pokey \in Pokey /\ lag \in Nat BY LineAssumption DEF IInv, TypeOK
<1>2. CASE mode = "defer"
  BY <1>1, <1>2, AdvanceQuiet DEF IInv, DeferIsQuiet, Synced
<1>3. CASE mode # "defer"
  <2>1. lag = 0 BY <1>1, <1>3 DEF IInv, LagIsDeferred
  <2> QED BY <2>1, NoLagSynced
<1> QED BY <1>2, <1>3

(* The initial states map to initial states.                               *)
LEMMA ClockInit == DInit => Clock!Init
<1> SUFFICES ASSUME DInit PROVE Clock!Init
  OBVIOUS
<1>1. Synced = pokey BY InitIInv, NoLagSynced DEF DInit
<1> QED BY <1>1 DEF DInit, Init, Clock!Init, Nothing, Clock!Nothing

(* The clock's view of an access: the POKEY after it, with what still lags.*)
LEMMA ClockAccess ==
  ASSUME IInv, IInv', NEW kind \in Kinds, NEW u \in Costs,
         PlainStep(kind, u) \/ DeferStep(kind, u) \/ BreakStep(kind, u)
  PROVE  \E q \in (IF kind = "write" THEN Write(Synced) ELSE {Synced}) :
            Synced' = Advance(q, Chunk(u))
<1>1. Execute(kind, u) BY DEF PlainStep, DeferStep, BreakStep
<1>2. /\ pokey \in Pokey /\ lag \in Nat /\ Chunk(u) \in Nat
      /\ Synced \in Pokey /\ phase = "run" /\ ~wsync
  BY <1>1, ExecuteFacts, SyncedType, LineAssumption DEF IInv, TypeOK
<1>3. CASE PlainStep(kind, u)
  <2>1. lag = 0 /\ lag' = 0
    BY <1>2, <1>3 DEF PlainStep, IInv, LagIsDeferred, PaidOff
  <2>2. PICK q \in Accessed(kind) : pokey' = Advance(q, Chunk(u))
    BY <1>3 DEF PlainStep
  <2>3. q \in (IF kind = "write" THEN Write(Synced) ELSE {Synced})
    BY <2>1, <2>2, NoLagSynced DEF Accessed
  <2> QED BY <2>1, <2>2, <2>3, NoLagSyncedNext
<1>4. CASE DeferStep(kind, u)
  <2>1. kind # "write" /\ Quiet(pokey)
    BY <1>2, <1>4 DEF DeferStep, Stalls, IInv, DeferIsQuiet
  <2>2. CASE kind = "read"
    <3>1. pokey' = Synced /\ lag' = Chunk(u)
      BY <1>2, <1>4, <2>2 DEF DeferStep, Accessed, PaidOff
    <3>2. Synced' = Advance(Synced, Chunk(u)) BY <3>1 DEF Synced
    <3> QED BY <2>1, <3>2
  <2>3. CASE kind # "read"
    <3>1. pokey' = pokey /\ lag' = lag + Chunk(u)
      BY <1>2, <1>4, <2>1, <2>3 DEF DeferStep, Accessed, PaidOff
    <3>2. Synced' = Advance(pokey, lag + Chunk(u)) BY <3>1 DEF Synced
    <3>3. Synced' = Advance(Synced, Chunk(u))
      BY <1>2, <2>1, <3>2, AdvanceTwice DEF Synced
    <3> QED BY <2>1, <3>3
  <2> QED BY <2>2, <2>3
<1>5. CASE BreakStep(kind, u)
  <2>1. kind = "write"
    BY <1>2, <1>5 DEF BreakStep, IInv, DeferIsQuiet
  <2>2. PICK q \in Accessed(kind) :
             pokey' = Advance(q, lag - PaidOff(kind) + Chunk(u))
    BY <1>5 DEF BreakStep
  <2>3. lag - PaidOff(kind) + Chunk(u) = Chunk(u) /\ q \in Write(Synced)
    BY <1>2, <2>1, <2>2 DEF PaidOff, Accessed
  <2>4. lag' = 0 BY <1>5 DEF BreakStep
  <2> QED BY <2>1, <2>2, <2>3, <2>4, NoLagSyncedNext
<1> QED BY <1>3, <1>4, <1>5

(* An instruction maps to one of the clock's.                              *)
LEMMA ClockInstruction ==
  ASSUME IInv, IInv', NEW kind \in Kinds, NEW u \in Costs,
         PlainStep(kind, u) \/ DeferStep(kind, u) \/ BreakStep(kind, u)
  PROVE  Clock!Next
<1>1. Execute(kind, u) BY DEF PlainStep, DeferStep, BreakStep
<1>2. CanRun /\ ~wsync BY <1>1, ExecuteFacts DEF Execute
<1>3. Synced.irqst = pokey.irqst BY <1>2, SameLine DEF CanRun
<1>4. PICK q \in (IF kind = "write" THEN Write(Synced) ELSE {Synced}) :
           Synced' = Advance(q, Chunk(u))
  BY ClockAccess
<1>5. Clock!Spend(u, q)
  BY <1>1, <1>2, <1>4
  DEF Clock!Spend, Execute, Chunk, CanRun, Clock!CanRun, MinOf, Clock!MinOf,
      Advance, Clock!Advance, TxAfter, Clock!TxAfter
<1>6. seen' = Clock!Found(Synced, IF kind = "read" THEN {Synced} ELSE {})
  BY <1>1, <1>3 DEF Execute, Found, Clock!Found
<1>7. CASE kind = "plain"
  <2>1. Clock!Plain(u)
    BY <1>1, <1>2, <1>4, <1>5, <1>6, <1>7
    DEF Clock!Plain, Clock!Carry, Execute, Clamp, Stalls
  <2> QED BY <2>1 DEF Clock!Next
<1>8. CASE kind = "read"
  <2>1. Clock!Read(u)
    BY <1>1, <1>2, <1>4, <1>5, <1>6, <1>8
    DEF Clock!Read, Clock!Carry, Execute, Clamp, Stalls
  <2> QED BY <2>1 DEF Clock!Next
<1>9. CASE kind = "write"
  <2>1. q \in Clock!Write(Synced)
    BY <1>4, <1>9 DEF Write, Clock!Write, Sources, Clock!Sources
  <2>2. Clock!Poke(u)
    BY <1>1, <1>2, <1>5, <1>6, <1>9, <2>1
    DEF Clock!Poke, Clock!Carry, Execute, Clamp, Stalls
  <2> QED BY <2>2 DEF Clock!Next
<1>10. CASE kind = "stall"
  <2>1. Clock!Stall(u)
    BY <1>1, <1>4, <1>5, <1>6, <1>10
    DEF Clock!Stall, Execute, Clamp, Stalls, MinOf, Clock!MinOf
  <2> QED BY <2>1 DEF Clock!Next
<1> QED BY <1>7, <1>8, <1>9, <1>10 DEF Kinds

(* Every step maps to a step of the clock or to none.                      *)
LEMMA ClockStep ==
  ASSUME IInv, IInv', [DNext]_dvars
  PROVE  [Clock!Next]_Clock!vars
<1>1. ASSUME NEW s \in Steals, BeginLine(s) PROVE Clock!Next
  <2>1. lag = 0 /\ lag' = 0 /\ pokey' = pokey
    BY <1>1 DEF BeginLine, Begin, IInv, EachCycleOnce
  <2>2. Synced' = Synced BY <2>1, NoLagSynced, NoLagSyncedNext
  <2>3. Clock!Begin(s)
    BY <1>1, <2>2
    DEF BeginLine, Begin, Clock!Begin, Nothing, Clock!Nothing
  <2> QED BY <2>3 DEF Clock!Next
<1>2. ASSUME NEW kind \in Kinds, NEW u \in Costs,
             PlainStep(kind, u) \/ DeferStep(kind, u) \/ BreakStep(kind, u)
      PROVE  Clock!Next
  BY <1>2, ClockInstruction
<1>3. CASE HaltStep
  <2>1. Synced' = Synced BY <1>3 DEF HaltStep, Halt, Synced
  <2>2. Synced.irqst = pokey.irqst
    BY <1>3, SameLine DEF HaltStep, Halt, CanRun
  <2>3. Clock!Halt
    BY <1>3, <2>1, <2>2
    DEF HaltStep, Halt, CanRun, Clock!Halt, Clock!CanRun, Found, Clock!Found
  <2> QED BY <2>3 DEF Clock!Next
<1>4. CASE EndLine
  <2>1. Synced' = pokey' BY <1>4, NoLagSyncedNext DEF EndLine
  <2>2. Clock!End
    BY <1>4, <2>1
    DEF EndLine, Folded, Synced, Clock!End, CanRun, Clock!CanRun, Nothing, Clock!Nothing,
        Advance, Clock!Advance, TxAfter, Clock!TxAfter
  <2> QED BY <2>2 DEF Clock!Next
<1>5. CASE OutsideWrite \/ AttachAudio
  <2>1. Synced' = pokey' BY <1>5, NoLagSyncedNext DEF OutsideWrite, AttachAudio
  <2>2. Synced' \in Write(Synced) \cup {[Synced EXCEPT !.attached = ~@]}
    BY <1>5, <2>1 DEF OutsideWrite, AttachAudio
  <2>3. Clock!Outside
    BY <1>5, <2>2
    DEF OutsideWrite, AttachAudio, BetweenCalls, Unscheduled, Clock!Outside,
        Write, Clock!Write, Sources, Clock!Sources
  <2> QED BY <2>3 DEF Clock!Next
<1>6. CASE OutsideStall
  BY <1>6 DEF OutsideStall, Unscheduled, Clock!vars, Synced
<1>7. CASE ColdReset
  <2>1. Clock!Reset BY <1>7 DEF ColdReset, Reset, Clock!Reset, Synced
  <2> QED BY <2>1 DEF Clock!Next
<1>8. CASE UNCHANGED dvars
  BY <1>8 DEF dvars, vars, Clock!vars, Synced
<1> QED BY <1>1, <1>2, <1>3, <1>4, <1>5, <1>6, <1>7, <1>8 DEF DNext

(* No program can tell the deferring scheduler from one that advances      *)
(* POKEY after every instruction.                                          *)
THEOREM DeferralIsInvisible == DSpec => ImplementsLineClock
<1>1. IInv /\ IInv' /\ [DNext]_dvars => [Clock!Next]_Clock!vars
  BY ClockStep
<1> QED
  BY ClockInit, <1>1, InductiveInvariant, PTL
  DEF DSpec, ImplementsLineClock, Clock!Spec
=============================================================================
