----------------------------- MODULE DisplayList -----------------------------
(***************************************************************************)
(* ANTIC's walk of the display list (src/src/antic.lisp), a scanline at a  *)
(* time: the vertical blank, the fetch of an instruction when a mode line  *)
(* is due, the display list interrupt on a mode line's last scanline, and  *)
(* the counters that say which scanline of a mode line this is and where   *)
(* its screen data are.  Between a line's start and its end the program    *)
(* may write memory and the registers that steer the walk.                 *)
(*                                                                         *)
(* A cell of memory is an instruction with its operand bytes, or, where    *)
(* ANTIC reads it as screen data, just a value.  NMIEN, NMIST and cycles   *)
(* are left out: what a line start rings is kept in RANG.                  *)
(***************************************************************************)
EXTENDS Naturals

CONSTANTS MemSize,      \* cells of memory (64K bytes)
          PageSize,     \* cells of a page (256 bytes)
          Lines,        \* +SCANLINES-PER-FRAME+ (262)
          ActiveStart,  \* +ACTIVE-START-SCANLINE+ (8)
          VbiLine,      \* +VBI-SCANLINE+ (248)
          MaxLines,     \* scanlines of the longest mode line (16)
          RowBytes,     \* BYTES-PER-SCREEN-ROW (10 to 40)
          Lists,        \* the memories the program may start with
          Pokes         \* stores of the program: <<address, cell>>

Addrs == 0..(MemSize - 1)

(* BLANK is mode 0, SHOW a mode of 2 to 15 with ADDR its LMS operand.      *)
NoAddr == MemSize
Insts ==
    [kind : {"blank"}, lines : 1..MaxLines, addr : {NoAddr}, dli : BOOLEAN]
    \cup [kind : {"show"}, lines : 1..MaxLines, addr : Addrs \cup {NoAddr},
          dli : BOOLEAN]
    \cup [kind : {"jmp", "jvb"}, lines : {0}, addr : Addrs, dli : BOOLEAN]

ASSUME SizesAssumption ==
    /\ PageSize \in Nat \ {0} /\ MemSize \in Nat \ {0}
    /\ MemSize % PageSize = 0
    /\ RowBytes \in Nat /\ MaxLines \in Nat \ {0}
ASSUME LinesAssumption ==
    /\ Lines \in Nat /\ VbiLine \in Nat /\ ActiveStart \in Nat
    /\ 0 < ActiveStart /\ ActiveStart < VbiLine /\ VbiLine < Lines
ASSUME ListsAssumption ==
    /\ \A m \in Lists : m \in [Addrs -> Insts]
    /\ \A p \in Pokes : p[1] \in Addrs /\ p[2] \in Insts

VARIABLES
    mem,        \* RAM
    phase,      \* "begin" or "run": the current scanline is due, or started
    scanline,   \* SCANLINE
    dlist,      \* DLIST-POINTER
    off,        \* DL-OFFSET
    reg,        \* DLISTL and DLISTH in the register file
    dma,        \* DMACTL is not 0
    cur,        \* CURRENT-MODE
    remaining,  \* MODE-SCANLINES-REMAINING
    armed,      \* DLI-ARMED
    jvb,        \* JVB-WAIT
    scanY,      \* SCAN-Y
    screen,     \* SCREEN-DATA-PTR
    shown,      \* RENDER-SCREEN-DATA-PTR
    rang,       \* what this line's start latched into NMIST
    age,        \* history: the scanline begun last is this one, from 1, of
                \* its mode line, or 0 if it is of none
    cut,        \* history: DLISTL or DLISTH was written since it began
    gap         \* history: DMA was off at the end of one of its scanlines

pointers == <<dlist, off, reg>>
modeline == <<cur, remaining, armed, scanY>>
history  == <<age, cut, gap>>
vars == <<mem, phase, scanline, pointers, dma, modeline, jvb, screen, shown,
          rang, history>>

Fetched == mem[(dlist + off) % MemSize]

InRegion   == ActiveStart <= scanline /\ scanline < VbiLine
Displaying == InRegion /\ dma

(* Fresh from MAKE-ANTIC, at the top of a frame.                           *)
Init ==
    /\ mem \in Lists
    /\ phase = "begin" /\ scanline = 0
    /\ dlist = 0 /\ off = 0 /\ reg = 0
    /\ dma = FALSE
    /\ cur = [kind |-> "blank", lines |-> 1, addr |-> NoAddr, dli |-> FALSE]
    /\ remaining = 0 /\ armed = FALSE /\ jvb = FALSE
    /\ scanY = 0 /\ screen = 0 /\ shown = 0
    /\ rang = {} /\ age = 0 /\ cut = FALSE /\ gap = FALSE

-----------------------------------------------------------------------------
(* %BEGIN-SCANLINE-EVENTS, the four ways it can go.                        *)

(* Mutant of BeginVbi: the list's address is left where it was.             *)
BeginVbiUnlatched ==
    /\ phase = "begin" /\ scanline = VbiLine
    /\ phase' = "run"
    /\ rang' = {"vbi"}
    /\ jvb' = FALSE
    /\ remaining' = 0
    /\ shown' = screen
    /\ age' = 0 /\ cut' = FALSE
    /\ UNCHANGED <<mem, scanline, pointers, dma, cur, armed, scanY, screen,
                   gap>>

(* The vertical blank releases JVB, drops what is left of a mode line and  *)
(* latches the display list's address anew.                                *)
BeginVbi ==
    /\ phase = "begin" /\ scanline = VbiLine
    /\ phase' = "run"
    /\ rang' = {"vbi"}
    /\ jvb' = FALSE
    /\ remaining' = 0
    /\ dlist' = reg /\ off' = 0
    /\ shown' = screen
    /\ age' = 0 /\ cut' = FALSE
    /\ UNCHANGED <<mem, scanline, reg, dma, cur, armed, scanY, screen, gap>>

FetchDue == remaining = 0 /\ ~jvb /\ Displaying

(* The interrupt rings when one scanline remains, and is then disarmed.    *)
Ring(isArmed, left) ==
    /\ rang' = IF isArmed /\ left = 1 THEN {"dli"} ELSE {}
    /\ armed' = (isArmed /\ left # 1)

(* PROCESS-DL-INSTRUCTION for a blank or a displayed mode line.            *)
BeginModeLine ==
    /\ phase = "begin" /\ FetchDue
    /\ Fetched.kind \in {"blank", "show"}
    /\ phase' = "run"
    /\ off' = off + 1
    /\ cur' = Fetched
    /\ remaining' = Fetched.lines
    /\ scanY' = 0
    /\ screen' = IF Fetched.addr = NoAddr THEN screen ELSE Fetched.addr
    /\ Ring(Fetched.dli, Fetched.lines)
    /\ shown' = screen'
    /\ age' = 1 /\ cut' = FALSE /\ gap' = FALSE
    /\ UNCHANGED <<mem, scanline, dlist, reg, dma, jvb>>

(* PROCESS-DL-INSTRUCTION for JMP and JVB: the scanline shows nothing.     *)
BeginJump ==
    /\ phase = "begin" /\ FetchDue
    /\ Fetched.kind \in {"jmp", "jvb"}
    /\ phase' = "run"
    /\ dlist' = Fetched.addr /\ off' = 0
    /\ cur' = Fetched
    /\ jvb' = (Fetched.kind = "jvb")
    /\ Ring(Fetched.dli, 0)
    /\ shown' = screen
    /\ age' = 0 /\ cut' = FALSE
    /\ UNCHANGED <<mem, scanline, reg, dma, remaining, scanY, screen, gap>>

BeginOther ==
    /\ phase = "begin" /\ scanline # VbiLine /\ ~FetchDue
    /\ phase' = "run"
    /\ Ring(armed, remaining)
    /\ shown' = screen
    /\ age' = IF age \in 1..(cur.lines - 1) /\ ~cut THEN age + 1 ELSE 0
    /\ cut' = FALSE
    /\ UNCHANGED <<mem, scanline, pointers, dma, cur, remaining, jvb, scanY,
                   screen, gap>>

(* %END-SCANLINE-EVENTS.                                                   *)
Shows   == Displaying /\ cur.kind = "show"

(* Mutant of Ends: a line too soon.                                        *)
EndsTooSoon == scanY + 2 >= cur.lines

Ends == scanY + 1 = cur.lines


(* Mutant of ScanYAfter: blank lines do not count theirs.                  *)
ScanYAfterShown ==
    IF Displaying /\ cur.kind = "show" THEN (scanY + 1) % cur.lines ELSE scanY

(* Mutant of ScanYAfter: it runs on until the next fetch resets it.        *)
ScanYAfterUnwrapped == IF ~Displaying THEN scanY ELSE scanY + 1

ScanYAfter ==
    IF ~Displaying THEN scanY
    ELSE IF cur.lines = 0 THEN 0 ELSE (scanY + 1) % cur.lines

ScreenAfter == IF Shows /\ Ends THEN (screen + RowBytes) % MemSize ELSE screen

EndLine ==
    /\ phase = "run"
    /\ phase' = "begin"
    /\ remaining' = IF remaining > 0 THEN remaining - 1 ELSE 0
    /\ scanY' = ScanYAfter
    /\ screen' = ScreenAfter
    /\ scanline' = (scanline + 1) % Lines
    /\ rang' = {}
    /\ gap' = (gap \/ ~dma)
    /\ UNCHANGED <<mem, pointers, dma, cur, armed, jvb, shown, age, cut>>

-----------------------------------------------------------------------------
(* Stores: by the program while a scanline runs, by a command between two  *)
(* frames.                                                                 *)

Storing == phase = "run" \/ scanline = 0

Poke(a, i) ==
    /\ Storing
    /\ mem' = [mem EXCEPT ![a] = i]
    /\ UNCHANGED <<phase, scanline, pointers, dma, modeline, jvb, screen,
                   shown, rang, history>>

(* Mutant of WriteDlist: the mode line in flight goes on.                   *)
WriteDlistOnly(r, p) ==
    /\ Storing
    /\ reg' = r
    /\ dlist' = p
    /\ off' = 0
    /\ cut' = TRUE
    /\ UNCHANGED <<mem, phase, scanline, dma, modeline, jvb, screen, shown,
                   rang, age, gap>>

(* ANTIC-WRITE to DLISTL or DLISTH moves one byte of the live pointer too, *)
(* and ends the mode line in flight.                                       *)
LowByte(p, v)  == (p - (p % PageSize)) + v
HighByte(p, v) == v * PageSize + (p % PageSize)

WriteDlist(r, p) ==
    /\ Storing
    /\ reg' = r
    /\ dlist' = p
    /\ off' = 0
    /\ remaining' = 0
    /\ cut' = TRUE
    /\ UNCHANGED <<mem, phase, scanline, dma, cur, armed, scanY, jvb, screen,
                   shown, rang, age, gap>>

WriteDlistL(v) == WriteDlist(LowByte(reg, v), LowByte(dlist, v))
WriteDlistH(v) == WriteDlist(HighByte(reg, v), HighByte(dlist, v))

WriteDmactl(on) ==
    /\ Storing
    /\ dma' = on
    /\ UNCHANGED <<mem, phase, scanline, pointers, modeline, jvb, screen,
                   shown, rang, history>>

BeginLine == BeginVbi \/ BeginModeLine \/ BeginJump \/ BeginOther

Store ==
    \/ \E p \in Pokes : Poke(p[1], p[2])
    \/ \E v \in 0..(PageSize - 1) : WriteDlistL(v)
    \/ \E v \in 0..(MemSize \div PageSize - 1) : WriteDlistH(v)
    \/ \E on \in BOOLEAN : WriteDmactl(on)

Next == BeginLine \/ EndLine \/ Store

Spec == Init /\ [][Next]_vars

-----------------------------------------------------------------------------
(* The counters of a mode line stay within its length.  A jump has none,   *)
(* and leaves SCAN-Y to the end of its scanline.                           *)
WithinModeLine ==
    /\ remaining <= cur.lines /\ age <= cur.lines
    /\ scanY < MaxLines /\ (cur.lines > 0 => scanY < cur.lines)

(* An instruction a scanline, from the first displayed one.                *)
OneAScanline ==
    /\ phase = "begin" /\ ActiveStart <= scanline /\ scanline <= VbiLine =>
            off <= scanline - ActiveStart
    /\ phase = "run" /\ InRegion => off <= (scanline - ActiveStart) + 1

Types ==
    /\ mem \in [Addrs -> Insts]
    /\ phase \in {"begin", "run"}
    /\ scanline \in 0..(Lines - 1)
    /\ dlist \in Addrs /\ reg \in Addrs
    /\ off \in 0..(VbiLine - ActiveStart)
    /\ dma \in BOOLEAN
    /\ cur \in Insts
    /\ remaining \in Nat
    /\ armed \in BOOLEAN /\ jvb \in BOOLEAN
    /\ scanY \in Nat
    /\ screen \in Addrs /\ shown \in Addrs
    /\ rang \in {{}, {"dli"}, {"vbi"}}
    /\ age \in Nat /\ cut \in BOOLEAN /\ gap \in BOOLEAN

(* Types, with the two bounds the code leaves unsaid: of the counters of a *)
(* mode line by its length, through jumps, cut mode lines and DMA turned   *)
(* off and on, and of DL-OFFSET by the scanlines displayed so far in this  *)
(* frame, for lists that never jump too (%END-SCANLINE-EVENTS,             *)
(* PROCESS-DL-INSTRUCTION, the latch at the vertical blank).               *)
TypeOK == Types /\ WithinModeLine /\ OneAScanline

(* A display list interrupt rings on the last scanline of a mode line that *)
(* asks for it, once, and on no other: not for a mode line the vertical    *)
(* blank or a new list cut short, not for a jump, not later.               *)
(* (%BEGIN-SCANLINE-EVENTS, DLI-ARMED against MODE-SCANLINES-REMAINING.)   *)
DliOnLastLine ==
    phase = "run" =>
        ("dli" \in rang <=> age > 0 /\ age = cur.lines /\ cur.dli)

(* SCAN-Y is the scanline within the mode line, unless DMA was off at the  *)
(* end of one of its scanlines.  It is counted apart from                  *)
(* MODE-SCANLINES-REMAINING, and DLIST writes, jumps and the vertical      *)
(* blank reset only the latter.                                            *)
ScanYIsLine ==
    phase = "run" /\ age > 0 /\ ~gap => scanY = age - 1

(* From the vertical blank to the first displayed scanline ANTIC stands at *)
(* the top of the list the registers name, with no mode line in flight,    *)
(* wherever the last frame ended and whatever was written since.           *)
InBlank == \/ scanline < ActiveStart
           \/ scanline = ActiveStart /\ phase = "begin"
           \/ scanline = VbiLine /\ phase = "run"
           \/ scanline > VbiLine
BlankIsReady ==
    InBlank => dlist = reg /\ off = 0 /\ remaining = 0 /\ ~jvb /\ age = 0

(* The line buffer: the renderer's pointer stays where it is for all the   *)
(* scanlines of a mode line, and a mode line consumes one row of screen    *)
(* memory when it ends, never earlier and never twice.                     *)
KeepsRow ==
    /\ phase = "begin" /\ age > 0 /\ age' = age + 1 /\ ~gap => shown' = shown
    /\ phase = "run" /\ phase' = "begin" /\ age > 0 /\ ~cut /\ ~gap =>
            screen' = IF Shows /\ age = cur.lines
                      THEN (screen + RowBytes) % MemSize ELSE screen

RowAtATime == [][KeepsRow]_vars
=============================================================================
