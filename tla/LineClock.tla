------------------------------ MODULE LineClock ------------------------------
(***************************************************************************)
(* What a program may rely on of time inside a scanline: the CPU runs      *)
(* whole instructions against a budget that carries from line to line, and *)
(* POKEY is advanced after every instruction, by exactly one line's cycles *)
(* per line.  This is %RUN-CLOCKS of src/src/machine.lisp as it is without *)
(* deferral; PokeyDeferral is the scheduler as it is, and implements it.   *)
(*                                                                         *)
(* POKEY is reduced to what can be told of it at an instruction boundary:  *)
(* one timer, the serial transmitter with its holding register, the two    *)
(* interrupt sources these feed with their enable bits, and whether an     *)
(* audio unit or an input state is attached.                               *)
(***************************************************************************)
EXTENDS Integers

CONSTANTS LineCycles,   \* cycles of a line (114)
          Lines,        \* lines run by one call of %RUN-CLOCKS (262)
          Steals,       \* cycles ANTIC may take from a line
          MaxCost,      \* cycles of the longest instruction
          Costs,        \* cycles of an instruction or interrupt entry
          Period,       \* cycles between two underflows of the timer
          ByteTime      \* cycles of one transmitted byte

ASSUME LineAssumption   == LineCycles \in Nat \ {0} /\ Lines \in Nat \ {0}
ASSUME StealsAssumption == Steals \subseteq 0..LineCycles
ASSUME CostsAssumption  == /\ MaxCost \in Nat /\ MaxCost >= 2
                           /\ Costs \subseteq 1..MaxCost
ASSUME PokeyAssumption  == Period \in Nat \ {0} /\ ByteTime \in Nat \ {0}

VARIABLES phase,      \* "begin", "run" or "end" of the current line
          line,       \* lines completed in this call
          budget,     \* CPU-BUDGET
          remaining,  \* POKEY-REMAINING
          halted,     \* CPU-HALTED
          pokey,      \* POKEY
          seen        \* what the last step, an instruction, found of POKEY

Sources == {"timer", "serial"}

Pokey == [timer : 1..Period, tx : 0..ByteTime, holding : BOOLEAN,
          irqen : SUBSET Sources, irqst : SUBSET Sources, attached : BOOLEAN]

(* An instruction finds the IRQ line up or down; one that reads $D2xx also *)
(* finds the register, so POKEY as it then is.                             *)
Nothing == [irq |-> FALSE, reg |-> {}]
Found(p, reg) == [irq |-> p.irqst # {}, reg |-> reg]

MinOf(a, b) == IF a <= b THEN a ELSE b

(* The transmitter n cycles on: the byte that finishes hands over to the   *)
(* holding register, and the countdown carries its remainder.              *)
TxAfter(p, n) ==
    CASE p.tx > n                          -> p.tx - n
      [] p.tx \in 1..n /\ p.holding        -> IF p.tx + ByteTime > n
                                              THEN p.tx + ByteTime - n ELSE 0
      [] OTHER                             -> 0

(* POKEY-ADVANCE by n cycles.  A disabled source latches nothing.          *)
Advance(p, n) ==
    LET fired == {s \in p.irqen : IF s = "timer" THEN p.timer <= n
                                                 ELSE p.tx \in 1..n}
    IN  [timer    |-> ((p.timer - n - 1) % Period) + 1,
         tx       |-> TxAfter(p, n),
         holding  |-> p.holding /\ p.tx \notin 1..n,
         irqen    |-> p.irqen,
         irqst    |-> p.irqst \cup fired,
         attached |-> p.attached]

(* POKEY-WRITE: STIMER, IRQEN (which acknowledges what it disables),       *)
(* SEROUT to an idle or to a busy transmitter, any other register.         *)
Write(p) ==
    {p, [p EXCEPT !.timer = Period]}
    \cup {[p EXCEPT !.irqen = e, !.irqst = @ \cap e] : e \in SUBSET Sources}
    \cup {IF p.tx = 0
          THEN [p EXCEPT !.tx = ByteTime, !.holding = FALSE,
                         !.irqst = @ \cup (p.irqen \cap {"serial"})]
          ELSE [p EXCEPT !.holding = TRUE]}

vars == <<phase, line, budget, remaining, halted, pokey, seen>>

Init ==
    /\ phase = "begin" /\ line = 0 /\ budget = 0 /\ remaining = 0
    /\ halted = FALSE
    /\ pokey = [timer |-> 1, tx |-> 0, holding |-> FALSE,
                irqen |-> {}, irqst |-> {}, attached |-> FALSE]
    /\ seen = Nothing

Begin(stolen) ==
    /\ phase = "begin"
    /\ phase' = "run"
    /\ budget' = budget + LineCycles - stolen
    /\ remaining' = LineCycles
    /\ seen' = Nothing
    /\ UNCHANGED <<line, halted, pokey>>

CanRun == phase = "run" /\ budget >= 2 /\ ~halted

(* An instruction of u cycles that leaves POKEY as q, and the cycles then. *)
Spend(u, q) ==
    /\ CanRun
    /\ remaining' = remaining - MinOf(u, remaining)
    /\ pokey' = Advance(q, MinOf(u, remaining))
    /\ UNCHANGED <<line, halted>>

Carry(u) == budget' = budget - u /\ UNCHANGED phase

Plain(u) == Spend(u, pokey) /\ Carry(u) /\ seen' = Found(pokey, {})

Read(u) == Spend(u, pokey) /\ Carry(u) /\ seen' = Found(pokey, {pokey})

Poke(u) ==
    /\ \E q \in Write(pokey) : Spend(u, q)
    /\ Carry(u)
    /\ seen' = Found(pokey, {})

(* A WSYNC write gives the rest of the line away, but not a debt.          *)
Stall(u) ==
    /\ Spend(u, pokey)
    /\ budget' = MinOf(budget - u, 0)
    /\ phase' = "end"
    /\ seen' = Found(pokey, {})

(* A KIL opcode halts the CPU and costs nothing.                           *)
Halt ==
    /\ CanRun
    /\ halted' = TRUE
    /\ seen' = Found(pokey, {})
    /\ UNCHANGED <<phase, line, budget, remaining, pokey>>

End ==
    /\ phase = "end" \/ (phase = "run" /\ ~CanRun)
    /\ pokey' = Advance(pokey, remaining)
    /\ remaining' = 0
    /\ phase' = "begin"
    /\ line' = (line + 1) % Lines
    /\ budget' = IF line' = 0 THEN 0 ELSE budget
    /\ seen' = Nothing
    /\ UNCHANGED halted

(* Between two calls: a write from outside, or an attachment.              *)
Outside ==
    /\ phase = "begin" /\ line = 0
    /\ pokey' \in Write(pokey) \cup {[pokey EXCEPT !.attached = ~@]}
    /\ UNCHANGED <<phase, line, budget, remaining, halted, seen>>

(* A cold reset wakes a halted CPU.                                        *)
Reset ==
    /\ phase = "begin" /\ line = 0
    /\ halted' = FALSE
    /\ UNCHANGED <<phase, line, budget, remaining, pokey, seen>>

Next ==
    \/ \E s \in Steals : Begin(s)
    \/ \E u \in Costs : Plain(u) \/ Read(u) \/ Poke(u) \/ Stall(u)
    \/ Halt \/ End \/ Outside \/ Reset

Spec == Init /\ [][Next]_vars
=============================================================================
