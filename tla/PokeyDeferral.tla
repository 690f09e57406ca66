---------------------------- MODULE PokeyDeferral ----------------------------
(***************************************************************************)
(* The scanline scheduler as src/src/machine.lisp has it: on a line where  *)
(* nothing POKEY does can be told, %RUN-CLOCKS does not advance the chip   *)
(* after every instruction but adds the cycles to POKEY-LAG.  The lag is   *)
(* paid off before every access to $D2xx, when a write breaks the gate,    *)
(* and at the end of the line.                                             *)
(***************************************************************************)
EXTENDS LineClock

VARIABLES lag,        \* POKEY-LAG
          brk,        \* POKEY-DEFER-BREAK-P
          wsync,      \* a WSYNC write ANTIC has not handed out yet
          mode,       \* "defer" or "plain": the loop the line is in
          delivered,  \* history: cycles POKEY was advanced by in this line
          slack       \* history: cycles granted to the CPU less those it used

dvars == <<vars, lag, brk, wsync, mode, delivered, slack>>

DInit ==
    /\ Init
    /\ lag = 0 /\ brk = FALSE /\ wsync = FALSE /\ mode = "plain"
    /\ delivered = LineCycles /\ slack = 0

(* %MACHINE-SYNC-POKEY                                                     *)
Synced == Advance(pokey, lag)

(* Two mutants: a timer interrupt, or the end of a byte, is not thought of.*)
DeferrableWithTimers == ~pokey.attached /\ pokey.tx = 0
DeferrableWhileSending == ~pokey.attached /\ "timer" \notin pokey.irqen

(* POKEY-DEFERRABLE-P                                                      *)
Deferrable == ~pokey.attached /\ pokey.tx = 0 /\ "timer" \notin pokey.irqen

(***************************************************************************)
(* The line starts.  A break or a WSYNC left by a store outside the        *)
(* scheduler is discarded, the break every line, WSYNC once per call.      *)
(***************************************************************************)
BeginLine(stolen) ==
    /\ Begin(stolen)
    /\ brk' = FALSE
    /\ wsync' = (wsync /\ line # 0)
    /\ mode' = IF Deferrable THEN "defer" ELSE "plain"
    /\ delivered' = 0
    /\ slack' = slack + LineCycles - stolen
    /\ UNCHANGED lag

Kinds == {"plain", "read", "write", "stall"}

(* The wrapped $D2xx closures pay the lag off first.                       *)
PaidOff(kind) == IF kind \in {"read", "write"} THEN lag ELSE 0

Accessed(kind) ==
    CASE kind = "read"  -> {Synced}
      [] kind = "write" -> Write(Synced)
      [] OTHER          -> {pokey}

(* An instruction's cycles count for POKEY as far as the line has them;    *)
(* the mutant counts them all.                                             *)
UncappedChunk(u) == u
Chunk(u) == MinOf(u, remaining)

(* A WSYNC write ends the line for the CPU: a surplus is lost, a debt is   *)
(* kept.  The mutant forgives it.                                          *)
Stalls(kind) == wsync \/ kind = "stall"

ForgivingClamp(kind, u) == IF Stalls(kind) THEN 0 ELSE budget - u
Clamp(kind, u) == IF Stalls(kind) THEN MinOf(budget - u, 0) ELSE budget - u

(***************************************************************************)
(* What the two loops do alike after STEP-CPU.                             *)
(***************************************************************************)
Execute(kind, u) ==
    /\ CanRun
    /\ seen' = Found(pokey, IF kind = "read" THEN {Synced} ELSE {})
    /\ budget' = Clamp(kind, u)
    /\ slack' = slack - u
    /\ remaining' = remaining - Chunk(u)
    /\ brk' = (brk \/ kind = "write")
    /\ wsync' = FALSE
    /\ phase' = IF Stalls(kind) THEN "end" ELSE phase
    /\ UNCHANGED <<line, halted>>

(* The non-deferring loop: POKEY is advanced with the instruction.         *)
PlainStep(kind, u) ==
    /\ mode = "plain"
    /\ Execute(kind, u)
    /\ \E q \in Accessed(kind) : pokey' = Advance(q, Chunk(u))
    /\ delivered' = delivered + PaidOff(kind) + Chunk(u)
    /\ lag' = lag - PaidOff(kind)
    /\ UNCHANGED mode

(* The deferring loop, no write so far: the cycles join the lag.           *)
DeferStep(kind, u) ==
    /\ mode = "defer"
    /\ Stalls(kind) \/ ~(brk \/ kind = "write")
    /\ Execute(kind, u)
    /\ pokey' \in Accessed(kind)
    /\ delivered' = delivered + PaidOff(kind)
    /\ lag' = lag - PaidOff(kind) + Chunk(u)
    /\ UNCHANGED mode

(* The deferring loop after a write: all is delivered, and the line goes   *)
(* on in the other loop.                                                   *)
BreakStep(kind, u) ==
    /\ mode = "defer"
    /\ ~Stalls(kind) /\ (brk \/ kind = "write")
    /\ Execute(kind, u)
    /\ \E q \in Accessed(kind) :
          pokey' = Advance(q, lag - PaidOff(kind) + Chunk(u))
    /\ delivered' = delivered + lag + Chunk(u)
    /\ lag' = 0
    /\ mode' = "plain"

HaltStep == Halt /\ UNCHANGED <<lag, brk, wsync, mode, delivered, slack>>

(* The end of the line: the lag first, then what no instruction claimed.   *)
(* The mutant forgets the lag.                                             *)
NothingFolded == 0
Folded == lag

EndLine ==
    /\ phase = "end" \/ (phase = "run" /\ ~CanRun)
    /\ pokey' = Advance(Advance(pokey, Folded), remaining)
    /\ delivered' = delivered + Folded + remaining
    /\ lag' = 0
    /\ remaining' = 0
    /\ phase' = "begin"
    /\ line' = (line + 1) % Lines
    /\ budget' = IF line' = 0 THEN 0 ELSE budget
    /\ slack' = IF line' = 0 THEN 0 ELSE slack
    /\ seen' = Nothing
    /\ UNCHANGED <<halted, brk, wsync, mode>>

(***************************************************************************)
(* Between two calls: commands from the mailbox and tracing store through  *)
(* the same bus, and the post-frame callback attaches or detaches audio.   *)
(***************************************************************************)
BetweenCalls == phase = "begin" /\ line = 0

Unscheduled == UNCHANGED <<phase, line, budget, remaining, halted, seen,
                           mode, slack>>

OutsideWrite ==
    /\ BetweenCalls
    /\ pokey' \in Write(Synced)
    /\ delivered' = delivered + lag
    /\ lag' = 0
    /\ brk' = TRUE
    /\ UNCHANGED wsync
    /\ Unscheduled

OutsideStall ==
    /\ BetweenCalls
    /\ wsync' = TRUE
    /\ UNCHANGED <<pokey, lag, brk, delivered>>
    /\ Unscheduled

AttachAudio ==
    /\ BetweenCalls
    /\ pokey' = [Synced EXCEPT !.attached = ~@]
    /\ delivered' = delivered + lag
    /\ lag' = 0
    /\ UNCHANGED <<brk, wsync>>
    /\ Unscheduled

(* Of a cold reset only the CPU's part matters here: POKEY is not reset.   *)
ColdReset ==
    /\ Reset
    /\ UNCHANGED <<lag, brk, wsync, mode, delivered, slack>>

DNext ==
    \/ \E s \in Steals : BeginLine(s)
    \/ \E kind \in Kinds, u \in Costs :
          PlainStep(kind, u) \/ DeferStep(kind, u) \/ BreakStep(kind, u)
    \/ HaltStep \/ EndLine
    \/ OutsideWrite \/ OutsideStall \/ AttachAudio \/ ColdReset

DSpec == DInit /\ [][DNext]_dvars

-----------------------------------------------------------------------------
(***************************************************************************)
(* Types.  The debt a line leaves to the next is that of one instruction.  *)
(***************************************************************************)
TypeOK ==
    /\ phase \in {"begin", "run", "end"}
    /\ line \in 0..(Lines - 1)
    /\ budget \in Int /\ budget >= 2 - MaxCost
    /\ remaining \in 0..LineCycles
    /\ halted \in BOOLEAN
    /\ pokey \in Pokey
    /\ seen.irq \in BOOLEAN /\ seen.reg \subseteq Pokey
    /\ lag \in 0..LineCycles
    /\ brk \in BOOLEAN /\ wsync \in BOOLEAN
    /\ mode \in {"defer", "plain"}
    /\ delivered \in 0..LineCycles
    /\ slack \in Int

(* Every cycle of a line reaches POKEY once: it is delivered, or lags, or  *)
(* is still unclaimed, and at the end of the line nothing lags.            *)
EachCycleOnce ==
    /\ delivered + lag + remaining = LineCycles
    /\ phase = "begin" => lag = 0 /\ remaining = 0

(* Cycles lag only while POKEY can raise no interrupt: nothing attached,   *)
(* nothing transmitting, no timer enabled, in the deferring loop.          *)
LagIsQuiet ==
    lag > 0 => /\ mode = "defer"
               /\ ~pokey.attached /\ pokey.tx = 0
               /\ "timer" \notin pokey.irqen

(* The CPU never runs ahead of the clock: what it may still run is at most *)
(* what the call granted less what the CPU has used, whatever WSYNC clamps.*)
NoFreeCycles == budget <= slack

(* No program can tell deferral from advancing POKEY at every instruction: *)
(* every register read and every look at the IRQ line finds the same.      *)
Clock == INSTANCE LineClock WITH pokey <- Synced
ImplementsLineClock == Clock!Spec
=============================================================================
