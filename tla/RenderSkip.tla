------------------------------ MODULE RenderSkip ------------------------------
(***************************************************************************)
(* Rendering on top of DisplayList: the scanline callback the machine      *)
(* calls when a line has ended (src/src/aesp.lisp, src/src/machine.lisp),  *)
(* and the decision it takes at row 0 to leave the whole frame undrawn     *)
(* because none of the pages the display list reaches is dirty.  It is     *)
(* taken from ANTIC's state after the first line, one instruction into     *)
(* the list.                                                               *)
(*                                                                         *)
(* Left out: the character set's and the player/missile windows, whose     *)
(* pages the walk marks from registers alone, and the $D000-$D7FF pages,   *)
(* on which it only gives up and has the frame drawn.                      *)
(***************************************************************************)
EXTENDS DisplayList

CONSTANT MaxEntries       \* +WATCHED-PAGES-MAX-DL-ENTRIES+ (512)
ASSUME MaxEntriesAssumption == MaxEntries \in Nat

VARIABLES
    pageDirty,  \* PAGE-DIRTY: the pages stored to since the last full render
    regsDirty,  \* IO-REGS-DIRTY-P
    rendering,  \* RENDER-THIS-FRAME-P
    fb,         \* the framebuffer, a picture per row
    touched,    \* history: something was stored since row 0's decision
    early,      \* history: something was stored during row 0, before it
    swallowed,  \* history: the last full render was of such a frame
    jumped      \* history: row 0's instruction was a jump

stores == <<touched, early, swallowed, jumped>>
rendervars == <<pageDirty, regsDirty, rendering, fb, stores>>
allvars == <<vars, rendervars>>

Page(a) == a \div PageSize
Pages   == 0..(MemSize \div PageSize - 1)
Rows    == 0..(VbiLine - ActiveStart - 1)

(* The pages of a row of screen memory.                                    *)
RowAddrs(a) == {(a + k) % MemSize : k \in 0..(RowBytes - 1)}
RowPages(a) == {Page(b) : b \in RowAddrs(a)}

(* Mutant of WalkInstruction: screen memory is not marked.                 *)
WalkInstructionListOnly(w) ==
    LET i      == mem[w.at]
        next   == (w.at + 1) % MemSize
        marked == w.pages \cup {Page(w.at)}
    IN  CASE i.kind = "jvb" -> [w EXCEPT !.pages = marked, !.ended = TRUE]
          [] i.kind = "jmp" -> [w EXCEPT !.pages = marked, !.at = i.addr]
          [] i.kind \in {"blank", "show"} ->
                [w EXCEPT !.pages = marked, !.at = next]

(* ANTIC-COLLECT-WATCHED-PAGES.  A walk has the address of its next        *)
(* instruction, the memory scan address, the pages it marked, and whether  *)
(* it met the JVB that ends a list.                                        *)
WalkInstruction(w) ==
    LET i      == mem[w.at]
        next   == (w.at + 1) % MemSize
        marked == w.pages \cup {Page(w.at)}
        scan   == IF i.addr = NoAddr THEN w.scan ELSE i.addr
    IN  CASE i.kind = "jvb"   -> [w EXCEPT !.pages = marked, !.ended = TRUE]
          [] i.kind = "jmp"   -> [w EXCEPT !.pages = marked, !.at = i.addr]
          [] i.kind = "blank" -> [w EXCEPT !.pages = marked, !.at = next]
          [] i.kind = "show"  ->
                [at |-> next, scan |-> (scan + RowBytes) % MemSize,
                 pages |-> marked \cup RowPages(scan), ended |-> FALSE]

WalkStart(at, scan) == [at |-> at, scan |-> scan, pages |-> {}, ended |-> FALSE]

WalkSteps(at, scan) ==
    LET walk[n \in 0..MaxEntries] ==
            IF n = 0 THEN WalkStart(at, scan)
            ELSE IF walk[n - 1].ended THEN walk[n - 1]
                                      ELSE WalkInstruction(walk[n - 1])
    IN  walk

WalkFrom(at, scan) == WalkSteps(at, scan)[MaxEntries]

(* MACHINE-DISPLAY-CHANGED-SINCE-RENDER-P, as a line's end leaves ANTIC.   *)
DisplayChanged ==
    \/ regsDirty
    \/ dma /\ LET w == WalkFrom(dlist, ScreenAfter)
              IN  ~w.ended \/ w.pages \cap pageDirty # {}

(* RENDER-SCANLINE: a row of the background, or the data of the mode line  *)
(* at the glyph row SCAN-Y says.                                           *)
Background == [glyphRow |-> 0, data |-> {}]
Picture(y) ==
    IF dma /\ cur.kind = "show"
    THEN [glyphRow |-> y, data |-> {<<a, mem[a]>> : a \in RowAddrs(shown)}]
    ELSE Background

Row == scanline - ActiveStart

RenderInit ==
    /\ Init
    /\ pageDirty = Pages /\ regsDirty = TRUE
    /\ rendering = FALSE
    /\ fb = [r \in Rows |-> Background]
    /\ touched = FALSE /\ early = FALSE /\ swallowed = FALSE /\ jumped = FALSE

(* The line ends, then the callback runs, with SCAN-Y already advanced.    *)
RenderLineEnd ==
    /\ EndLine
    /\ IF ~InRegion THEN UNCHANGED rendervars ELSE
       /\ rendering' = IF Row = 0 THEN DisplayChanged ELSE rendering
       /\ touched' = (Row # 0 /\ touched)
       /\ early' = FALSE
       /\ swallowed' = IF Row = 0 /\ rendering' THEN early ELSE swallowed
       /\ jumped' = IF Row = 0 THEN dma /\ cur.kind \in {"jmp", "jvb"} ELSE jumped
       /\ IF Row = 0 /\ rendering' THEN pageDirty' = {} /\ regsDirty' = FALSE
                                   ELSE UNCHANGED <<pageDirty, regsDirty>>
       /\ fb' = IF rendering' THEN [fb EXCEPT ![Row] = Picture(ScanYAfter)]
                              ELSE fb

Stored ==
    /\ touched' = TRUE
    /\ early' = (scanline = ActiveStart)
    /\ UNCHANGED <<swallowed, jumped>>

(* BUS-WRITE marks the page, IO-WRITE every register but WSYNC, NMIEN and  *)
(* NMIRES.                                                                 *)
RenderPoke(a, i) ==
    /\ Poke(a, i)
    /\ pageDirty' = pageDirty \cup {Page(a)}
    /\ Stored
    /\ UNCHANGED <<regsDirty, rendering, fb>>

RegisterWritten ==
    /\ regsDirty' = TRUE
    /\ Stored
    /\ UNCHANGED <<pageDirty, rendering, fb>>

RenderStore ==
    \/ \E p \in Pokes : RenderPoke(p[1], p[2])
    \/ \E v \in 0..(PageSize - 1) : WriteDlistL(v) /\ RegisterWritten
    \/ \E v \in 0..(MemSize \div PageSize - 1) :
            WriteDlistH(v) /\ RegisterWritten
    \/ \E on \in BOOLEAN : WriteDmactl(on) /\ RegisterWritten

RenderNext ==
    \/ BeginLine /\ UNCHANGED rendervars
    \/ RenderLineEnd
    \/ RenderStore

RenderSpec == RenderInit /\ [][RenderNext]_allvars

-----------------------------------------------------------------------------
(* Properties.                                                             *)

(* A row has just been drawn or left as it was.                            *)
RowDone == /\ phase = "begin"
           /\ ActiveStart < scanline /\ scanline <= VbiLine
DoneRow == scanline - 1 - ActiveStart

(* MACHINE-DISPLAY-CHANGED-SINCE-RENDER-P promises that it is false only   *)
(* if nothing that feeds the renderer has changed: a frame left undrawn,   *)
(* and not stored to after the decision, would have come out the same.     *)
SkipIsSound ==
    RowDone /\ ~rendering /\ ~touched => fb[DoneRow] = Picture(scanY)

(* That holds for lists whose first mode line shown says where its data    *)
(* are, when the walk from the live pointer sees the whole of the list:    *)
(* row 0 was no jump away from its beginning, which a store may have       *)
(* changed by now.  It needs too that the last full render did not forget  *)
(* stores made in its own first row: row 0 is fetched before the line      *)
(* runs, and what the line stores is wiped from the dirty map when it ends.*)
PassBy(a) ==
    CASE mem[a].kind = "blank" -> (a + 1) % MemSize
      [] mem[a].kind = "jmp"   -> mem[a].addr
      [] OTHER                 -> a

Heading ==
    LET first[n \in 0..MaxEntries] ==
            IF n = 0 THEN reg ELSE PassBy(first[n - 1])
    IN  first

Anchored == LET i == mem[Heading[MaxEntries]]
            IN  i.kind = "show" => i.addr # NoAddr

SkipSoundIfAnchored == Anchored /\ ~jumped /\ ~swallowed => SkipIsSound

(* The row of a glyph drawn on a scanline is the scanline's number within  *)
(* its mode line (%CHAR-ROW-BITS on SCAN-Y).                               *)
PlainModeLine == age > 0 /\ ~gap /\ ~cut
GlyphRowIsLine ==
    RowDone /\ rendering /\ PlainModeLine /\ Picture(scanY) # Background =>
        fb[DoneRow].glyphRow = age - 1
=============================================================================
