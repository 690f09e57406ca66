--------------------------- MODULE RenderSkipProofs ---------------------------
(***************************************************************************)
(* Proofs about ANTIC's walk of the display list and about the frames left *)
(* undrawn on top of it, for every memory, every list and every store: the *)
(* display list interrupt, the scanline counters and the line buffer keep  *)
(* to the mode line, the vertical blank makes the list ready, and a frame  *)
(* that is skipped would have come out the same.                           *)
(***************************************************************************)
EXTENDS RenderSkip, NumberLemmas

-----------------------------------------------------------------------------
(***************************************************************************)
(* Arithmetic of addresses.                                                *)
(***************************************************************************)

(* A write of one byte of the display list's address leaves an address.    *)
LEMMA LowByteAddr ==
  ASSUME NEW p \in Addrs, NEW v \in 0..(PageSize - 1)
  PROVE  LowByte(p, v) \in Addrs
<1> DEFINE q == p \div PageSize
           k == MemSize \div PageSize
<1>1. p \in Nat /\ p < MemSize /\ PageSize \in Nat \ {0} /\ MemSize \in Nat
  BY SizesAssumption DEF Addrs
<1>2. q \in Nat /\ k \in Nat /\ p = PageSize * q + (p % PageSize)
  BY <1>1, Division
<1>3. q < k /\ MemSize = PageSize * k
  BY <1>1, SizesAssumption, BlockBefore
<1>4. p % PageSize \in 0..(PageSize - 1)
  BY <1>1, Division
<1> HIDE DEF q, k
<1>5. PageSize * q + PageSize <= PageSize * k /\ PageSize * q \in Nat
  BY <1>1, <1>2, <1>3, CopiesFit
<1>6. LowByte(p, v) = PageSize * q + v
  BY <1>1, <1>2, <1>4, <1>5 DEF LowByte
<1> QED BY <1>1, <1>3, <1>5, <1>6 DEF Addrs

LEMMA HighByteAddr ==
  ASSUME NEW p \in Addrs, NEW v \in 0..(MemSize \div PageSize - 1)
  PROVE  HighByte(p, v) \in Addrs
<1> DEFINE k == MemSize \div PageSize
<1>1. p \in Nat /\ p < MemSize /\ PageSize \in Nat \ {0} /\ MemSize \in Nat
  BY SizesAssumption DEF Addrs
<1>2. k \in Nat /\ MemSize = PageSize * k
  BY <1>1, SizesAssumption, BlockBefore, Division
<1>3. p % PageSize \in 0..(PageSize - 1) /\ v \in Nat /\ v < k
  BY <1>1, <1>2, Division
<1> HIDE DEF k
<1>4. PageSize * v + PageSize <= PageSize * k /\ PageSize * v \in Nat
  BY <1>1, <1>2, <1>3, CopiesFit
<1>5. HighByte(p, v) = PageSize * v + (p % PageSize)
  BY <1>1, <1>3 DEF HighByte
<1> QED BY <1>1, <1>2, <1>3, <1>4, <1>5 DEF Addrs

(* Screen memory wraps at the end of memory.                               *)
LEMMA WrapsToAddr ==
  ASSUME NEW x \in Nat
  PROVE  x % MemSize \in Addrs
BY SizesAssumption DEF Addrs

LEMMA OnwardAddr ==
  ASSUME NEW a \in Addrs, NEW k \in Nat
  PROVE  (a + k) % MemSize \in Addrs
<1>1. a + k \in Nat
  BY SizesAssumption DEF Addrs
<1> QED BY <1>1, WrapsToAddr

-----------------------------------------------------------------------------
(***************************************************************************)
(* The walk of the display list: the inductive invariant.                  *)
(***************************************************************************)

(* A scanline of a mode line is one of its lines, in the displayed region. *)
InModeLine ==
    age > 0 =>
        /\ cur.lines \in Nat /\ age <= cur.lines
        /\ ActiveStart <= scanline
        /\ phase = "run" => scanline < VbiLine
        /\ phase = "begin" => ActiveStart < scanline /\ scanline <= VbiLine

(* What remains of it, and whether it will still ring, go by its age; a    *)
(* mode line that was cut short, and none, has nothing left.               *)
LeftByAge ==
    IF age > 0 /\ ~cut
    THEN /\ remaining = (IF phase = "run" THEN (cur.lines - age) + 1
                                          ELSE cur.lines - age)
         /\ armed <=> cur.dli /\ age < cur.lines
    ELSE remaining = 0

(* SCAN-Y goes by its age, while DMA stays on.                             *)
ScanYByAge ==
    age > 0 /\ ~gap =>
        scanY = (IF phase = "run" THEN age - 1
                 ELSE IF age = cur.lines THEN 0 ELSE age)

(* The renderer's pointer is ANTIC's while a scanline runs, and stays so   *)
(* behind the scanlines that end no row.                                   *)
SamePointer ==
    /\ phase = "run" => shown = screen
    /\ phase = "begin" /\ age > 0 /\ age < cur.lines /\ ~gap => shown = screen

WalkInv == /\ Types /\ WithinModeLine /\ BlankIsReady /\ OneAScanline /\ InModeLine
           /\ LeftByAge /\ ScanYByAge /\ SamePointer /\ DliOnLastLine

(* What an instruction is made of.                                         *)
LEMMA InstFields ==
  ASSUME NEW i \in Insts
  PROVE  /\ i.kind \in {"blank", "show", "jmp", "jvb"}
         /\ i.dli \in BOOLEAN
         /\ i.kind \in {"blank", "show"} => i.lines \in 1..MaxLines
         /\ i.kind \in {"jmp", "jvb"} => i.lines = 0 /\ i.addr \in Addrs
         /\ i.addr \in Addrs \cup {NoAddr}
  BY DEF Insts

(* The registers of a frame are numbers.                                   *)
LEMMA Numbers ==
  /\ MemSize \in Nat \ {0} /\ PageSize \in Nat \ {0}
  /\ MaxLines \in Nat \ {0} /\ RowBytes \in Nat
  /\ Lines \in Nat /\ VbiLine \in Nat /\ ActiveStart \in Nat
  /\ 0 < ActiveStart /\ ActiveStart < VbiLine /\ VbiLine < Lines
  BY SizesAssumption, LinesAssumption

LEMMA FetchedInst == Types => Fetched \in Insts
<1> SUFFICES ASSUME Types PROVE Fetched \in Insts
  OBVIOUS
<1>1. dlist + off \in Nat
  BY Numbers DEF Types, Addrs
<1> QED BY <1>1, WrapsToAddr DEF Types, Fetched

LEMMA NextScanline ==
  ASSUME scanline \in 0..(Lines - 1)
  PROVE  (scanline + 1) % Lines = IF scanline + 1 = Lines THEN 0 ELSE scanline + 1
  BY Numbers, NextWithin

LEMMA WalkInit == Init => WalkInv
<1> SUFFICES ASSUME Init PROVE WalkInv
  OBVIOUS
<1>1. cur \in Insts
  BY Numbers DEF Init, Insts
<1>2. Types
  <2>1. mem \in [Addrs -> Insts]
    BY ListsAssumption DEF Init
  <2>2. 0 \in Addrs
    BY Numbers DEF Addrs
  <2>3. rang \in {{}, {"dli"}, {"vbi"}}
    BY Zenon DEF Init
  <2>4. /\ phase \in {"begin", "run"} /\ scanline \in 0..(Lines - 1)
        /\ off \in 0..(VbiLine - ActiveStart) /\ remaining \in Nat /\ scanY \in Nat
        /\ age \in Nat
    BY Numbers DEF Init
  <2>5. /\ dma \in BOOLEAN /\ armed \in BOOLEAN /\ jvb \in BOOLEAN
        /\ cut \in BOOLEAN /\ gap \in BOOLEAN
    BY Zenon DEF Init
  <2> QED BY <1>1, <2>1, <2>2, <2>3, <2>4, <2>5, Zenon DEF Init, Types
<1> QED BY <1>2, Numbers
        DEF Init, WalkInv, BlankIsReady, OneAScanline, InModeLine, LeftByAge,
            ScanYByAge, SamePointer, DliOnLastLine, InRegion, WithinModeLine

(* %BEGIN-SCANLINE-EVENTS keeps it.                                        *)
LEMMA BeginVbiStep == WalkInv /\ BeginVbi => WalkInv'
<1> SUFFICES ASSUME WalkInv, BeginVbi PROVE WalkInv'
  OBVIOUS
<1>1. Types /\ scanline = VbiLine
  BY DEF WalkInv, BeginVbi
<1>2. Types'
  <2>1. rang' \in {{}, {"dli"}, {"vbi"}}
    BY Zenon DEF BeginVbi
  <2>2. off' \in 0..(VbiLine - ActiveStart) /\ remaining' \in Nat /\ age' \in Nat
    BY Numbers DEF BeginVbi
  <2>3. jvb' \in BOOLEAN /\ cut' \in BOOLEAN
    BY Zenon DEF BeginVbi
  <2> QED BY <1>1, <2>1, <2>2, <2>3, Zenon DEF BeginVbi, Types
<1>3. BlankIsReady'
  BY DEF BeginVbi, BlankIsReady
<1>4. OneAScanline' /\ InModeLine' /\ LeftByAge' /\ ScanYByAge'
  BY <1>1, Numbers DEF BeginVbi, OneAScanline, InModeLine, LeftByAge, ScanYByAge, InRegion
<1>5. SamePointer' /\ DliOnLastLine'
  BY DEF BeginVbi, SamePointer, DliOnLastLine
<1>6. WithinModeLine'
  <2>1. cur.lines \in Nat
    BY <1>1, InstFields, Numbers DEF Types
  <2> QED BY <2>1 DEF WalkInv, WithinModeLine, BeginVbi
<1> QED BY <1>2, <1>3, <1>4, <1>5, <1>6 DEF WalkInv

(* What a line start rings, and what stays armed.                          *)
LEMMA RingFacts ==
  ASSUME NEW isArmed \in BOOLEAN, NEW left, Ring(isArmed, left)
  PROVE  /\ rang' \in {{}, {"dli"}, {"vbi"}}
         /\ armed' \in BOOLEAN
         /\ "dli" \in rang' <=> isArmed /\ left = 1
         /\ armed' <=> isArmed /\ left # 1
<1>1. CASE isArmed /\ left = 1
  <2>1. rang' = {"dli"} /\ armed' = FALSE
    BY <1>1, Zenon DEF Ring
  <2> QED BY <1>1, <2>1, Zenon
<1>2. CASE ~(isArmed /\ left = 1)
  <2>1. rang' = {} /\ armed' = isArmed
    BY <1>2 DEF Ring
  <2> QED BY <1>2, <2>1
<1> QED BY <1>1, <1>2

(* The scanline on which an instruction is due.                            *)
LEMMA DueScanline ==
  ASSUME WalkInv, phase = "begin", InRegion
  PROVE  /\ scanline \in 0..(Lines - 1) /\ ActiveStart <= scanline /\ scanline < VbiLine
         /\ off \in Nat /\ off <= scanline - ActiveStart
  BY Numbers DEF WalkInv, Types, OneAScanline, InRegion

LEMMA BeginModeLineStep == WalkInv /\ BeginModeLine => WalkInv'
<1> SUFFICES ASSUME WalkInv, BeginModeLine PROVE WalkInv'
  OBVIOUS
<1>1. Types /\ phase = "begin" /\ InRegion
  BY DEF WalkInv, BeginModeLine, FetchDue, Displaying
<1>2. Fetched \in Insts /\ Fetched.kind \in {"blank", "show"}
  BY <1>1, FetchedInst DEF BeginModeLine
<1>3. /\ Fetched.lines \in 1..MaxLines /\ Fetched.dli \in BOOLEAN
      /\ Fetched.addr \in Addrs \cup {NoAddr}
  BY <1>2, InstFields
<1>4. /\ rang' \in {{}, {"dli"}, {"vbi"}} /\ armed' \in BOOLEAN
      /\ "dli" \in rang' <=> Fetched.dli /\ Fetched.lines = 1
      /\ armed' <=> Fetched.dli /\ Fetched.lines # 1
  BY <1>3, RingFacts DEF BeginModeLine
<1>5. /\ phase' = "run" /\ scanline' = scanline /\ off' = off + 1 /\ cur' = Fetched
      /\ remaining' = Fetched.lines /\ scanY' = 0 /\ age' = 1 /\ cut' = FALSE /\ gap' = FALSE
      /\ shown' = screen' /\ UNCHANGED <<mem, dlist, reg, dma, jvb>>
      /\ screen' = IF Fetched.addr = NoAddr THEN screen ELSE Fetched.addr
  BY Zenon DEF BeginModeLine
<1>6. /\ scanline \in 0..(Lines - 1) /\ ActiveStart <= scanline /\ scanline < VbiLine
      /\ off \in Nat /\ off <= scanline - ActiveStart
  BY <1>1, DueScanline
<1>7. Types'
  <2>1. screen' \in Addrs
    BY <1>1, <1>3, <1>5 DEF Types
  <2>2. off' \in 0..(VbiLine - ActiveStart) /\ remaining' \in Nat /\ scanY' \in Nat /\ age' \in Nat
    BY <1>3, <1>5, <1>6, Numbers
  <2>3. cut' \in BOOLEAN /\ gap' \in BOOLEAN /\ phase' \in {"begin", "run"}
    BY <1>5, Zenon
  <2> QED BY <1>1, <1>2, <1>4, <1>5, <2>1, <2>2, <2>3, Zenon DEF Types
<1>8. BlankIsReady' /\ OneAScanline' /\ InModeLine'
  BY <1>3, <1>5, <1>6, Numbers DEF BlankIsReady, InBlank, OneAScanline, InModeLine, InRegion
<1>9. LeftByAge'
  BY <1>3, <1>4, <1>5, Numbers DEF LeftByAge
<1>10. ScanYByAge' /\ SamePointer'
  BY <1>5 DEF ScanYByAge, SamePointer
<1>11. DliOnLastLine'
  BY <1>3, <1>4, <1>5 DEF DliOnLastLine
<1>12. WithinModeLine'
  BY <1>3, <1>5, Numbers DEF WithinModeLine
<1> QED BY <1>7, <1>8, <1>9, <1>10, <1>11, <1>12 DEF WalkInv

LEMMA BeginJumpStep == WalkInv /\ BeginJump => WalkInv'
<1> SUFFICES ASSUME WalkInv, BeginJump PROVE WalkInv'
  OBVIOUS
<1>1. Types /\ phase = "begin" /\ InRegion /\ remaining = 0
  BY DEF WalkInv, BeginJump, FetchDue, Displaying
<1>2. Fetched \in Insts /\ Fetched.kind \in {"jmp", "jvb"}
  BY <1>1, FetchedInst DEF BeginJump
<1>3. Fetched.dli \in BOOLEAN /\ Fetched.addr \in Addrs
  BY <1>2, InstFields
<1>4. /\ rang' \in {{}, {"dli"}, {"vbi"}} /\ armed' \in BOOLEAN /\ "dli" \notin rang'
  BY <1>3, RingFacts DEF BeginJump
<1>5. /\ phase' = "run" /\ scanline' = scanline /\ dlist' = Fetched.addr /\ off' = 0
      /\ cur' = Fetched /\ age' = 0 /\ cut' = FALSE /\ shown' = screen
      /\ jvb' \in BOOLEAN
      /\ UNCHANGED <<mem, reg, dma, remaining, scanY, screen, gap>>
  BY Zenon DEF BeginJump
<1>6. scanline \in 0..(Lines - 1) /\ ActiveStart <= scanline /\ scanline < VbiLine
  BY <1>1, DueScanline
<1>7. Types'
  <2>1. off' \in 0..(VbiLine - ActiveStart) /\ age' \in Nat
    BY <1>5, Numbers
  <2>2. cut' \in BOOLEAN /\ phase' \in {"begin", "run"}
    BY <1>5, Zenon
  <2> QED BY <1>1, <1>2, <1>3, <1>4, <1>5, <2>1, <2>2, Zenon DEF Types
<1>8. BlankIsReady' /\ OneAScanline' /\ InModeLine'
  BY <1>5, <1>6, Numbers DEF BlankIsReady, InBlank, OneAScanline, InModeLine, InRegion
<1>9. LeftByAge' /\ ScanYByAge' /\ SamePointer' /\ DliOnLastLine'
  BY <1>1, <1>4, <1>5 DEF LeftByAge, ScanYByAge, SamePointer, DliOnLastLine
<1>10. WithinModeLine'
  <2>1. Fetched.lines = 0 /\ scanY < MaxLines
    BY <1>2, InstFields DEF WalkInv, WithinModeLine
  <2> QED BY <1>1, <1>5, <2>1 DEF WithinModeLine
<1> QED BY <1>7, <1>8, <1>9, <1>10 DEF WalkInv

LEMMA BeginOtherStep == WalkInv /\ BeginOther => WalkInv'
<1> SUFFICES ASSUME WalkInv, BeginOther PROVE WalkInv'
  OBVIOUS
<1>1. /\ Types /\ phase = "begin" /\ scanline # VbiLine
      /\ BlankIsReady /\ OneAScanline /\ InModeLine /\ LeftByAge /\ ScanYByAge
  BY DEF WalkInv, BeginOther
<1>2. /\ scanline \in 0..(Lines - 1) /\ off \in Nat /\ remaining \in Nat /\ age \in Nat
      /\ armed \in BOOLEAN /\ cur \in Insts /\ cut \in BOOLEAN /\ gap \in BOOLEAN
  BY <1>1, Numbers DEF Types
<1>3. /\ rang' \in {{}, {"dli"}, {"vbi"}} /\ armed' \in BOOLEAN
      /\ "dli" \in rang' <=> armed /\ remaining = 1
      /\ armed' <=> armed /\ remaining # 1
  BY <1>2, RingFacts DEF BeginOther
<1>4. /\ phase' = "run" /\ shown' = screen /\ cut' = FALSE
      /\ UNCHANGED <<mem, scanline, dlist, off, reg, dma, cur, remaining, jvb, scanY, screen, gap>>
  BY Zenon DEF BeginOther, pointers
<1>5. \/ /\ age > 0 /\ ~cut /\ cur.lines \in Nat /\ age < cur.lines /\ age' = age + 1
         /\ remaining = cur.lines - age /\ (armed <=> cur.dli)
      \/ age' = 0 /\ remaining = 0
  BY <1>1, <1>2 DEF BeginOther, InModeLine, LeftByAge
<1>6. Types'
  <2>1. age' \in Nat
    BY <1>2, <1>5
  <2>2. cut' \in BOOLEAN /\ phase' \in {"begin", "run"}
    BY <1>4, Zenon
  <2> QED BY <1>1, <1>3, <1>4, <2>1, <2>2, Zenon DEF Types
<1>7. BlankIsReady'
  <2>1. InBlank' => InBlank
    BY <1>1, <1>2, <1>4, Numbers DEF InBlank
  <2>2. age = 0 => age' = 0
    BY <1>5
  <2> QED BY <1>1, <1>4, <2>1, <2>2, Zenon DEF BlankIsReady
<1>8. OneAScanline'
  BY <1>1, <1>2, <1>4, Numbers DEF OneAScanline, InRegion
<1>9. InModeLine'
  BY <1>1, <1>2, <1>4, <1>5, Numbers DEF InModeLine
<1>10. LeftByAge' /\ DliOnLastLine'
  BY <1>2, <1>3, <1>4, <1>5 DEF LeftByAge, DliOnLastLine
<1>11. ScanYByAge' /\ SamePointer'
  BY <1>1, <1>2, <1>4, <1>5 DEF ScanYByAge, SamePointer
<1>12. WithinModeLine'
  <2>1. WithinModeLine /\ cur.lines \in Nat
    BY <1>2, InstFields, Numbers DEF WalkInv
  <2> QED BY <1>2, <1>4, <1>5, <2>1 DEF WithinModeLine
<1> QED BY <1>6, <1>7, <1>8, <1>9, <1>10, <1>11, <1>12 DEF WalkInv

(* A mode line ends on the scanline of its age, and starts over there.     *)
LEMMA ScanYAfterAge ==
  ASSUME age \in Nat, age > 0, cur.lines \in Nat, age <= cur.lines, scanY = age - 1, Displaying
  PROVE  /\ ScanYAfter = IF age = cur.lines THEN 0 ELSE age
         /\ Ends <=> age = cur.lines
<1>1. cur.lines \in Nat \ {0} /\ scanY \in 0..(cur.lines - 1)
  OBVIOUS
<1>2. (scanY + 1) % cur.lines = IF scanY + 1 = cur.lines THEN 0 ELSE scanY + 1
  BY <1>1, NextWithin
<1> QED BY <1>1, <1>2 DEF ScanYAfter, Ends

(* %END-SCANLINE-EVENTS keeps it.                                          *)
LEMMA EndLineStep == WalkInv /\ EndLine => WalkInv'
<1> SUFFICES ASSUME WalkInv, EndLine PROVE WalkInv'
  OBVIOUS
<1>1. /\ Types /\ phase = "run" /\ BlankIsReady /\ OneAScanline /\ InModeLine
      /\ LeftByAge /\ ScanYByAge /\ SamePointer
  BY DEF WalkInv, EndLine
<1>2. /\ scanline \in 0..(Lines - 1) /\ off \in Nat /\ remaining \in Nat /\ age \in Nat
      /\ armed \in BOOLEAN /\ cur \in Insts /\ cut \in BOOLEAN /\ gap \in BOOLEAN
      /\ dma \in BOOLEAN /\ scanY \in Nat /\ screen \in Addrs
  BY <1>1, Numbers DEF Types
<1>3. /\ phase' = "begin" /\ scanY' = ScanYAfter /\ screen' = ScreenAfter /\ rang' = {}
      /\ remaining' = (IF remaining > 0 THEN remaining - 1 ELSE 0)
      /\ scanline' = (IF scanline + 1 = Lines THEN 0 ELSE scanline + 1)
      /\ gap' = (gap \/ ~dma)
      /\ UNCHANGED <<mem, dlist, off, reg, dma, cur, armed, jvb, shown, age, cut>>
  BY <1>2, NextScanline DEF EndLine, pointers
<1>4. ScanYAfter \in Nat
  <2>1. cur.lines \in Nat
    BY <1>2, InstFields, Numbers
  <2>2. cur.lines # 0 => (scanY + 1) % cur.lines \in Nat
    BY <1>2, <2>1
  <2> QED BY <1>2, <2>1, <2>2 DEF ScanYAfter
<1>14. WithinModeLine'
  <2>1. WithinModeLine /\ cur.lines \in 0..MaxLines /\ MaxLines \in Nat \ {0}
    BY <1>2, InstFields, Numbers DEF WalkInv
  <2>2. scanY' < MaxLines /\ (cur.lines > 0 => scanY' < cur.lines)
    <3>1. CASE ~Displaying
      BY <1>3, <2>1, <3>1 DEF ScanYAfter, WithinModeLine
    <3>2. CASE Displaying /\ cur.lines = 0
      BY <1>3, <2>1, <3>2 DEF ScanYAfter
    <3>3. CASE Displaying /\ cur.lines # 0
      <4>1. (scanY + 1) % cur.lines = IF scanY + 1 = cur.lines THEN 0 ELSE scanY + 1
        BY <1>2, <2>1, <3>3, NextWithin DEF WithinModeLine
      <4>2. scanY < cur.lines
        BY <2>1, <3>3 DEF WithinModeLine
      <4> QED BY <1>2, <1>3, <2>1, <3>3, <4>1, <4>2 DEF ScanYAfter
    <3> QED BY <3>1, <3>2, <3>3
  <2> QED BY <1>2, <1>3, <2>1, <2>2 DEF WithinModeLine
<1>5. ScreenAfter \in Addrs
  <2>1. screen + RowBytes \in Nat
    BY <1>2, Numbers DEF Addrs
  <2>2. (screen + RowBytes) % MemSize \in Addrs
    BY <2>1, WrapsToAddr
  <2> QED BY <1>2, <2>2 DEF ScreenAfter
<1>6. Types'
  <2>1. scanline' \in 0..(Lines - 1) /\ remaining' \in Nat
    BY <1>2, <1>3, Numbers
  <2>2. gap' \in BOOLEAN /\ phase' \in {"begin", "run"} /\ rang' \in {{}, {"dli"}, {"vbi"}}
    BY <1>2, <1>3, Zenon
  <2> QED BY <1>1, <1>3, <1>4, <1>5, <2>1, <2>2, Zenon DEF Types
<1>7. BlankIsReady'
  <2>1. InBlank' => InBlank
    BY <1>1, <1>2, <1>3, Numbers DEF InBlank
  <2>2. remaining = 0 => remaining' = 0
    BY <1>3
  <2> QED BY <1>1, <1>3, <2>1, <2>2, Zenon DEF BlankIsReady
<1>8. OneAScanline'
  <2>1. scanline' = ActiveStart => off' = 0
    BY <1>1, <1>2, <1>3, Numbers DEF BlankIsReady, InBlank
  <2> QED BY <1>1, <1>2, <1>3, <2>1, Numbers DEF OneAScanline, InRegion
<1>9. InModeLine'
  BY <1>1, <1>2, <1>3, Numbers DEF InModeLine
<1>10. LeftByAge' /\ DliOnLastLine'
  BY <1>1, <1>2, <1>3 DEF LeftByAge, DliOnLastLine, InModeLine
<1>11. ASSUME age > 0, ~gap'
       PROVE  /\ scanY = age - 1 /\ cur.lines \in Nat /\ age <= cur.lines /\ Displaying
  BY <1>1, <1>2, <1>3, <1>11 DEF InModeLine, ScanYByAge, Displaying, InRegion
<1>12. ScanYByAge'
  <2> SUFFICES ASSUME age > 0, ~gap' PROVE scanY' = IF age = cur.lines THEN 0 ELSE age
    BY <1>3 DEF ScanYByAge
  <2> QED BY <1>2, <1>3, <1>11, ScanYAfterAge
<1>13. SamePointer'
  <2> SUFFICES ASSUME age > 0, age < cur.lines, ~gap' PROVE shown' = screen'
    BY <1>3 DEF SamePointer
  <2>1. ~Ends
    BY <1>2, <1>11, ScanYAfterAge
  <2> QED BY <1>1, <1>3, <2>1 DEF SamePointer, ScreenAfter
<1> QED BY <1>6, <1>7, <1>8, <1>9, <1>10, <1>12, <1>13, <1>14 DEF WalkInv

(* Stores keep it.                                                         *)
LEMMA PokeStep == ASSUME NEW p \in Pokes, WalkInv, Poke(p[1], p[2]) PROVE WalkInv'
<1>1. Types /\ p[1] \in Addrs /\ p[2] \in Insts
  BY ListsAssumption DEF WalkInv
<1>2. /\ mem' = [mem EXCEPT ![p[1]] = p[2]]
      /\ UNCHANGED <<phase, scanline, dlist, off, reg, dma, cur, remaining, armed, jvb, scanY,
                     screen, shown, rang, age, cut, gap>>
  BY Zenon DEF Poke, pointers, modeline, history
<1>3. mem' \in [Addrs -> Insts]
  BY <1>1, <1>2 DEF Types
<1>4. Types'
  BY <1>1, <1>2, <1>3, Zenon DEF Types
<1> QED BY <1>2, <1>4 DEF WalkInv, BlankIsReady, InBlank, OneAScanline, InModeLine, LeftByAge,
                          ScanYByAge, SamePointer, DliOnLastLine, InRegion, WithinModeLine

LEMMA WriteDmactlStep == ASSUME NEW on \in BOOLEAN, WalkInv, WriteDmactl(on) PROVE WalkInv'
<1>1. /\ dma' = on
      /\ UNCHANGED <<mem, phase, scanline, dlist, off, reg, cur, remaining, armed, jvb, scanY,
                     screen, shown, rang, age, cut, gap>>
  BY Zenon DEF WriteDmactl, pointers, modeline, history
<1>2. Types'
  BY <1>1, Zenon DEF WalkInv, Types
<1> QED BY <1>1, <1>2 DEF WalkInv, BlankIsReady, InBlank, OneAScanline, InModeLine, LeftByAge,
                          ScanYByAge, SamePointer, DliOnLastLine, InRegion, WithinModeLine

(* Both bytes alike: the live pointer stays with the register.             *)
LEMMA WriteDlistStep ==
  ASSUME NEW r \in Addrs, NEW p \in Addrs, WalkInv, WriteDlist(r, p), dlist = reg => r = p
  PROVE  WalkInv'
<1>1. /\ reg' = r /\ dlist' = p /\ off' = 0 /\ remaining' = 0 /\ cut' = TRUE
      /\ UNCHANGED <<mem, phase, scanline, dma, cur, armed, jvb, scanY, screen, shown, rang,
                     age, gap>>
  BY Zenon DEF WriteDlist
<1>2. Types /\ phase \in {"begin", "run"} /\ scanline \in 0..(Lines - 1)
  BY DEF WalkInv, Types
<1>3. Types'
  <2>1. off' \in 0..(VbiLine - ActiveStart) /\ remaining' \in Nat
    BY <1>1, Numbers
  <2> QED BY <1>1, <1>2, <2>1, Zenon DEF Types
<1>4. OneAScanline'
  BY <1>1, <1>2, Numbers DEF OneAScanline, InRegion
<1>5. WithinModeLine'
  <2>1. cur.lines \in Nat
    BY <1>2, InstFields, Numbers DEF Types
  <2> QED BY <1>1, <2>1 DEF WalkInv, WithinModeLine
<1> QED BY <1>1, <1>3, <1>4, <1>5 DEF WalkInv, BlankIsReady, InBlank, InModeLine, LeftByAge,
                          ScanYByAge, SamePointer, DliOnLastLine

LEMMA StoreStep == WalkInv /\ Store => WalkInv'
<1> SUFFICES ASSUME WalkInv, Store PROVE WalkInv'
  OBVIOUS
<1>1. dlist \in Addrs /\ reg \in Addrs
  BY DEF WalkInv, Types
<1>2. ASSUME NEW v \in 0..(PageSize - 1), WriteDlistL(v) PROVE WalkInv'
  BY <1>1, <1>2, LowByteAddr, WriteDlistStep DEF WriteDlistL
<1>3. ASSUME NEW v \in 0..(MemSize \div PageSize - 1), WriteDlistH(v) PROVE WalkInv'
  BY <1>1, <1>3, HighByteAddr, WriteDlistStep DEF WriteDlistH
<1> QED BY <1>2, <1>3, PokeStep, WriteDmactlStep DEF Store

LEMMA WalkStutter == WalkInv /\ UNCHANGED vars => WalkInv'
  BY DEF WalkInv, Types, BlankIsReady, InBlank, OneAScanline, InModeLine, LeftByAge, ScanYByAge,
         SamePointer, DliOnLastLine, InRegion, WithinModeLine, vars, pointers, modeline, history

LEMMA WalkStep == WalkInv /\ [Next]_vars => WalkInv'
  BY BeginVbiStep, BeginModeLineStep, BeginJumpStep, BeginOtherStep, EndLineStep, StoreStep,
     WalkStutter DEF Next, BeginLine

(* ScanYIsLine is what ScanYByAge says of a scanline that runs.            *)
LEMMA ScanYWhileRunning == WalkInv => ScanYIsLine
  BY DEF WalkInv, ScanYByAge, ScanYIsLine

(* A step of the walk keeps the renderer's pointer within a mode line, and *)
(* moves ANTIC's on by a row where one ends.                               *)
LEMMA RowStep == WalkInv /\ [Next]_vars => [KeepsRow]_vars
<1> SUFFICES ASSUME WalkInv, Next PROVE KeepsRow
  OBVIOUS
<1>1. ASSUME phase = "begin", age > 0, age' = age + 1, ~gap PROVE shown' = shown
  <2>1. age \in Nat /\ cur.lines \in Nat /\ (age < cur.lines => shown = screen)
    BY <1>1 DEF WalkInv, Types, InModeLine, SamePointer
  <2>2. CASE BeginOther
    BY <2>1, <2>2, <1>1 DEF BeginOther
  <2>3. CASE BeginVbi \/ BeginModeLine \/ BeginJump
    BY <2>1, <2>3, <1>1 DEF BeginVbi, BeginModeLine, BeginJump
  <2>4. CASE EndLine
    BY <2>4, <1>1 DEF EndLine
  <2>5. CASE Store
    BY <2>1, <2>5, <1>1 DEF Store, Poke, WriteDlistL, WriteDlistH, WriteDlist, WriteDmactl, history
  <2> QED BY <2>2, <2>3, <2>4, <2>5 DEF Next, BeginLine
<1>2. ASSUME phase = "run", phase' = "begin", age > 0, ~cut, ~gap
      PROVE  screen' = IF Shows /\ age = cur.lines THEN (screen + RowBytes) % MemSize
                                                   ELSE screen
  <2>1. EndLine
    BY <1>2 DEF Next, BeginLine, BeginVbi, BeginModeLine, BeginJump, BeginOther, Store, Poke,
                WriteDlistL, WriteDlistH, WriteDlist, WriteDmactl
  <2>2. /\ age \in Nat /\ cur.lines \in Nat /\ age <= cur.lines /\ scanY = age - 1
    BY <1>2 DEF WalkInv, Types, InModeLine, ScanYByAge
  <2>3. Ends <=> age = cur.lines
    BY <2>2 DEF Ends
  <2> QED BY <2>1, <2>3 DEF EndLine, ScreenAfter
<1> QED BY <1>1, <1>2 DEF KeepsRow

(* The walk as a whole: its invariant holds in every state.                *)
THEOREM WalkInvariant == Spec => []WalkInv
  BY WalkInit, WalkStep, PTL DEF Spec

-----------------------------------------------------------------------------
(***************************************************************************)
(* The walk of ANTIC-COLLECT-WATCHED-PAGES.                                *)
(***************************************************************************)
Walks == [at : Addrs, scan : Addrs, pages : SUBSET Int, ended : BOOLEAN]

Marks(w) == w.pages \cup {Page(w.at)}
ScanOf(w) == IF mem[w.at].addr = NoAddr THEN w.scan ELSE mem[w.at].addr

(* What one instruction makes of a walk.                                   *)
LEMMA WalkInstructionFields ==
  ASSUME mem \in [Addrs -> Insts], NEW w \in Walks, ~w.ended
  PROVE  /\ WalkInstruction(w) \in Walks
         /\ WalkInstruction(w).ended = (mem[w.at].kind = "jvb")
         /\ w.pages \subseteq WalkInstruction(w).pages
         /\ Page(w.at) \in WalkInstruction(w).pages
         /\ mem[w.at].kind = "jmp" =>
              /\ WalkInstruction(w).at = mem[w.at].addr
              /\ WalkInstruction(w).scan = w.scan
         /\ mem[w.at].kind = "blank" =>
              /\ WalkInstruction(w).at = (w.at + 1) % MemSize
              /\ WalkInstruction(w).scan = w.scan
         /\ mem[w.at].kind = "show" =>
              /\ WalkInstruction(w).at = (w.at + 1) % MemSize
              /\ RowPages(ScanOf(w)) \subseteq WalkInstruction(w).pages
              /\ WalkInstruction(w).scan = (ScanOf(w) + RowBytes) % MemSize
<1> DEFINE i == mem[w.at]
           next == (w.at + 1) % MemSize
<1>1. w.at \in Addrs /\ w.scan \in Addrs /\ w.pages \subseteq Int /\ w.ended \in BOOLEAN
  BY DEF Walks
<1>2. /\ i.kind \in {"blank", "show", "jmp", "jvb"} /\ i.addr \in Addrs \cup {NoAddr}
      /\ i.kind \in {"jmp", "jvb"} => i.addr \in Addrs
  BY <1>1, InstFields
<1>3. next \in Addrs
  BY <1>1, OnwardAddr
<1>4. Page(w.at) \in Int
  BY <1>1, Numbers DEF Page, Addrs
<1>5. Marks(w) \subseteq Int /\ w.pages \subseteq Marks(w) /\ Page(w.at) \in Marks(w)
  BY <1>1, <1>4 DEF Marks
<1> HIDE DEF i, next
<1>6. CASE i.kind = "jvb"
  <2>1. WalkInstruction(w) = [w EXCEPT !.pages = Marks(w), !.ended = TRUE]
    BY <1>6 DEF WalkInstruction, Marks, i
  <2> QED BY <1>1, <1>5, <1>6, <2>1 DEF Walks, i
<1>7. CASE i.kind = "jmp"
  <2>1. WalkInstruction(w) = [w EXCEPT !.pages = Marks(w), !.at = i.addr]
    BY <1>7 DEF WalkInstruction, Marks, i
  <2> QED BY <1>1, <1>2, <1>5, <1>7, <2>1 DEF Walks, i
<1>8. CASE i.kind = "blank"
  <2>1. WalkInstruction(w) = [w EXCEPT !.pages = Marks(w), !.at = next]
    BY <1>8 DEF WalkInstruction, Marks, i, next
  <2> QED BY <1>1, <1>3, <1>5, <1>8, <2>1 DEF Walks, i, next
<1>9. CASE i.kind = "show"
  <2>1. WalkInstruction(w) = [at |-> next, scan |-> (ScanOf(w) + RowBytes) % MemSize,
                              pages |-> Marks(w) \cup RowPages(ScanOf(w)), ended |-> FALSE]
    BY <1>9 DEF WalkInstruction, Marks, ScanOf, i, next
  <2>2. ScanOf(w) \in Addrs
    BY <1>1, <1>2 DEF ScanOf, i
  <2>3. (ScanOf(w) + RowBytes) % MemSize \in Addrs
    BY <2>2, Numbers, OnwardAddr
  <2>4. RowPages(ScanOf(w)) \subseteq Int
    <3>1. ASSUME NEW b \in RowAddrs(ScanOf(w)) PROVE Page(b) \in Int
      <4>1. PICK k \in 0..(RowBytes - 1) : b = (ScanOf(w) + k) % MemSize
        BY DEF RowAddrs
      <4>2. b \in Nat
        BY <2>2, <4>1, Numbers DEF Addrs
      <4> QED BY <4>2, Numbers DEF Page
    <3> QED BY <3>1 DEF RowPages
  <2>5. WalkInstruction(w) \in Walks
    BY <1>3, <1>5, <2>1, <2>3, <2>4 DEF Walks
  <2>6. /\ WalkInstruction(w).ended = FALSE /\ WalkInstruction(w).at = next
        /\ WalkInstruction(w).scan = (ScanOf(w) + RowBytes) % MemSize
        /\ WalkInstruction(w).pages = Marks(w) \cup RowPages(ScanOf(w))
    BY <2>1
  <2> HIDE DEF i
  <2> QED BY <1>5, <1>9, <2>5, <2>6 DEF i, next
<1>10. i.kind \in {"jvb", "jmp", "blank", "show"}
  BY <1>2
<1> QED BY <1>6, <1>7, <1>8, <1>9, <1>10, Zenon DEF i

(* The walk takes one instruction after the other until it ends.           *)
LEMMA WalkIsIteration ==
  ASSUME mem \in [Addrs -> Insts], NEW at \in Addrs, NEW scan \in Addrs
  PROVE  /\ WalkSteps(at, scan) \in [0..MaxEntries -> Walks]
         /\ WalkSteps(at, scan)[0] = WalkStart(at, scan)
         /\ \A n \in 1..MaxEntries :
              WalkSteps(at, scan)[n] =
                IF WalkSteps(at, scan)[n - 1].ended
                THEN WalkSteps(at, scan)[n - 1]
                ELSE WalkInstruction(WalkSteps(at, scan)[n - 1])
<1> DEFINE Defines(f) == f = [n \in 0..MaxEntries |->
                                IF n = 0 THEN WalkStart(at, scan)
                                ELSE IF f[n - 1].ended THEN f[n - 1]
                                                       ELSE WalkInstruction(f[n - 1])]
           G == [w \in Walks |-> IF w.ended THEN w ELSE WalkInstruction(w)]
<1>1. WalkStart(at, scan) \in Walks
  BY DEF WalkStart, Walks
<1>2. G \in [Walks -> Walks]
  BY WalkInstructionFields
<1>3. PICK f \in [0..MaxEntries -> Walks] :
        IsIteration(f, MaxEntries, WalkStart(at, scan), G)
  BY <1>1, <1>2, MaxEntriesAssumption, Iteration
<1>4. \A n \in 1..MaxEntries : f[n] = IF f[n - 1].ended THEN f[n - 1]
                                                      ELSE WalkInstruction(f[n - 1])
  <2> SUFFICES ASSUME NEW n \in 1..MaxEntries
               PROVE  f[n] = IF f[n - 1].ended THEN f[n - 1] ELSE WalkInstruction(f[n - 1])
    OBVIOUS
  <2>1. f[n - 1] \in Walks
    BY MaxEntriesAssumption
  <2>2. f[n] = G[f[n - 1]]
    BY <1>3 DEF IsIteration
  <2> QED BY <2>1, <2>2
<1>5. f[0] = WalkStart(at, scan)
  BY <1>3 DEF IsIteration
<1>6. Defines(f)
  <2> DEFINE g == [n \in 0..MaxEntries |-> IF n = 0 THEN WalkStart(at, scan)
                                           ELSE IF f[n - 1].ended THEN f[n - 1]
                                                ELSE WalkInstruction(f[n - 1])]
  <2>1. ASSUME NEW n \in 0..MaxEntries PROVE f[n] = g[n]
    BY <1>4, <1>5, MaxEntriesAssumption
  <2>2. DOMAIN f = 0..MaxEntries /\ f = [n \in 0..MaxEntries |-> f[n]]
    OBVIOUS
  <2> QED BY <2>1, <2>2
<1>7. WalkSteps(at, scan) = CHOOSE walk : Defines(walk)
  BY DEF WalkSteps
<1> DEFINE w == WalkSteps(at, scan)
<1>8. Defines(w)
  <2> HIDE DEF Defines
  <2> QED BY <1>6, <1>7
<1>9. /\ w[0] = WalkStart(at, scan)
      /\ \A n \in 1..MaxEntries : w[n] = IF w[n - 1].ended THEN w[n - 1]
                                         ELSE WalkInstruction(w[n - 1])
      /\ w = [n \in 0..MaxEntries |-> w[n]]
  <2> DEFINE g == [n \in 0..MaxEntries |-> IF n = 0 THEN WalkStart(at, scan)
                                           ELSE IF w[n - 1].ended THEN w[n - 1]
                                                ELSE WalkInstruction(w[n - 1])]
  <2>1. w = g
    BY <1>8
  <2> HIDE DEF w
  <2>2. /\ g[0] = WalkStart(at, scan)
        /\ \A n \in 1..MaxEntries : g[n] = IF w[n - 1].ended THEN w[n - 1]
                                           ELSE WalkInstruction(w[n - 1])
        /\ g = [n \in 0..MaxEntries |-> g[n]]
    BY MaxEntriesAssumption
  <2> HIDE DEF g
  <2> QED BY <2>1, <2>2, Zenon
<1>10. \A n \in 0..MaxEntries : w[n] \in Walks
  <2> DEFINE H == {n \in 0..MaxEntries : w[n] \in Walks}
  <2>1. 0 \in H
    BY <1>1, <1>9, MaxEntriesAssumption
  <2>2. ASSUME NEW n \in 1..MaxEntries, n - 1 \in H PROVE n \in H
    <3>1. w[n - 1] \in Walks
      BY <2>2
    <3>2. ~w[n - 1].ended => WalkInstruction(w[n - 1]) \in Walks
      BY <3>1, WalkInstructionFields
    <3>3. w[n] \in Walks
      BY <1>9, <3>1, <3>2
    <3> QED BY <3>3, MaxEntriesAssumption
  <2> HIDE DEF H
  <2>3. \A n \in 0..MaxEntries : n \in H
    BY <2>1, <2>2, MaxEntriesAssumption, Induction
  <2> QED BY <2>3 DEF H
<1> HIDE DEF w
<1>11. w \in [0..MaxEntries -> Walks]
  BY <1>9, <1>10
<1> QED BY <1>9, <1>11 DEF w

(* Heading passes one blank line or jump by after the other.               *)
LEMMA PassByAddr ==
  ASSUME mem \in [Addrs -> Insts], NEW a \in Addrs
  PROVE  PassBy(a) \in Addrs
  BY InstFields, OnwardAddr DEF PassBy

LEMMA HeadingIsIteration ==
  ASSUME mem \in [Addrs -> Insts], reg \in Addrs
  PROVE  /\ Heading \in [0..MaxEntries -> Addrs]
         /\ Heading[0] = reg
         /\ \A n \in 1..MaxEntries : Heading[n] = PassBy(Heading[n - 1])
<1> DEFINE Defines(f) == f = [n \in 0..MaxEntries |->
                                IF n = 0 THEN reg ELSE PassBy(f[n - 1])]
           G == [a \in Addrs |-> PassBy(a)]
           h == Heading
<1>1. G \in [Addrs -> Addrs]
  BY PassByAddr
<1>2. PICK f \in [0..MaxEntries -> Addrs] : IsIteration(f, MaxEntries, reg, G)
  BY <1>1, MaxEntriesAssumption, Iteration
<1>3. \A n \in 1..MaxEntries : f[n] = PassBy(f[n - 1])
  <2> SUFFICES ASSUME NEW n \in 1..MaxEntries PROVE f[n] = PassBy(f[n - 1])
    OBVIOUS
  <2>1. f[n - 1] \in Addrs
    BY MaxEntriesAssumption
  <2>2. f[n] = G[f[n - 1]]
    BY <1>2 DEF IsIteration
  <2> QED BY <2>1, <2>2
<1>4. Defines(f)
  <2> DEFINE g == [n \in 0..MaxEntries |-> IF n = 0 THEN reg ELSE PassBy(f[n - 1])]
  <2>1. ASSUME NEW n \in 0..MaxEntries PROVE f[n] = g[n]
    BY <1>2, <1>3, MaxEntriesAssumption DEF IsIteration
  <2>2. f = [n \in 0..MaxEntries |-> f[n]]
    OBVIOUS
  <2> QED BY <2>1, <2>2
<1>5. Defines(h)
  <2>1. h = CHOOSE first : Defines(first)
    BY DEF Heading
  <2> HIDE DEF Defines
  <2> QED BY <1>4, <2>1
<1>6. /\ h[0] = reg /\ \A n \in 1..MaxEntries : h[n] = PassBy(h[n - 1])
      /\ h = [n \in 0..MaxEntries |-> h[n]]
  <2> DEFINE g == [n \in 0..MaxEntries |-> IF n = 0 THEN reg ELSE PassBy(h[n - 1])]
  <2>1. h = g
    BY <1>5
  <2> HIDE DEF h
  <2>2. /\ g[0] = reg /\ \A n \in 1..MaxEntries : g[n] = PassBy(h[n - 1])
        /\ g = [n \in 0..MaxEntries |-> g[n]]
    BY MaxEntriesAssumption
  <2> HIDE DEF g
  <2> QED BY <2>1, <2>2, Zenon
<1>7. \A n \in 0..MaxEntries : h[n] \in Addrs
  <2> HIDE DEF h
  <2> DEFINE H == {n \in 0..MaxEntries : h[n] \in Addrs}
  <2>1. 0 \in H
    BY <1>6, MaxEntriesAssumption
  <2>2. ASSUME NEW n \in 1..MaxEntries, n - 1 \in H PROVE n \in H
    <3>1. h[n - 1] \in Addrs
      BY <2>2
    <3>2. PassBy(h[n - 1]) \in Addrs
      BY <3>1, PassByAddr
    <3>3. h[n] \in Addrs
      BY <1>6, <3>2
    <3> QED BY <3>3, MaxEntriesAssumption
  <2> HIDE DEF H
  <2>3. \A n \in 0..MaxEntries : n \in H
    BY <2>1, <2>2, MaxEntriesAssumption, Induction
  <2> QED BY <2>3 DEF H
<1> HIDE DEF h
<1> QED BY <1>6, <1>7 DEF h

-----------------------------------------------------------------------------
(***************************************************************************)
(* A frame's scanlines, as the list in memory prescribes them: what the    *)
(* walk is in the middle of on each row, from the address in the registers *)
(* on.  Where screen data are is not known (NoAddr) until a mode line says.*)
(***************************************************************************)
Rows0 == (VbiLine - ActiveStart) - 1

Places == [from : Addrs, at : Addrs, cur : Insts, left : Nat, jvb : BOOLEAN, y : Nat,
           screen : Addrs \cup {NoAddr}]

(* The scanline that begins with the instruction at a.                     *)
Fetching(a, s) ==
    [from   |-> a,
     at     |-> IF mem[a].kind \in {"jmp", "jvb"} THEN mem[a].addr ELSE (a + 1) % MemSize,
     cur    |-> mem[a],
     left   |-> mem[a].lines,
     jvb    |-> mem[a].kind = "jvb",
     y      |-> 0,
     screen |-> IF mem[a].kind = "show" /\ mem[a].addr # NoAddr THEN mem[a].addr ELSE s]

(* A scanline's end, and the scanline that follows.                        *)
Finishing(p) ==
    [from   |-> p.from,
     at     |-> p.at,
     cur    |-> p.cur,
     left   |-> IF p.left > 0 THEN p.left - 1 ELSE 0,
     jvb    |-> p.jvb,
     y      |-> IF p.cur.lines = 0 THEN 0 ELSE (p.y + 1) % p.cur.lines,
     screen |-> IF p.cur.kind = "show" /\ p.y + 1 = p.cur.lines /\ p.screen # NoAddr
                THEN (p.screen + RowBytes) % MemSize ELSE p.screen]

Following(p) ==
    IF Finishing(p).left = 0 /\ ~p.jvb THEN Fetching(p.at, Finishing(p).screen)
                                       ELSE Finishing(p)

IsLines(t, k) == t[0] = Fetching(reg, NoAddr) /\ \A j \in 1..k : t[j] = Following(t[j - 1])

LEMMA FetchingType ==
  ASSUME mem \in [Addrs -> Insts], NEW a \in Addrs, NEW s \in Addrs \cup {NoAddr}
  PROVE  Fetching(a, s) \in Places
<1>1. mem[a] \in Insts
  OBVIOUS
<1>2. /\ mem[a].kind \in {"jmp", "jvb"} => mem[a].addr \in Addrs
      /\ mem[a].addr \in Addrs \cup {NoAddr} /\ mem[a].lines \in Nat
  BY <1>1, InstFields, Numbers
<1>3. (a + 1) % MemSize \in Addrs
  BY OnwardAddr
<1> QED BY <1>1, <1>2, <1>3 DEF Fetching, Places

LEMMA FinishingType ==
  ASSUME NEW p \in Places
  PROVE  Finishing(p) \in Places
<1>1. /\ p.from \in Addrs /\ p.at \in Addrs /\ p.cur \in Insts /\ p.left \in Nat
      /\ p.jvb \in BOOLEAN /\ p.y \in Nat /\ p.screen \in Addrs \cup {NoAddr}
  BY DEF Places
<1>2. p.cur.lines \in Nat
  BY <1>1, InstFields, Numbers
<1>3. Finishing(p).left \in Nat
  BY <1>1 DEF Finishing
<1>4. Finishing(p).y \in Nat
  <2>1. p.cur.lines # 0 => (p.y + 1) % p.cur.lines \in Nat
    BY <1>1, <1>2
  <2> QED BY <2>1 DEF Finishing
<1>5. Finishing(p).screen \in Addrs \cup {NoAddr}
  <2>1. p.screen # NoAddr => (p.screen + RowBytes) % MemSize \in Addrs
    BY <1>1, Numbers, OnwardAddr
  <2> QED BY <1>1, <2>1 DEF Finishing
<1> QED BY <1>1, <1>3, <1>4, <1>5 DEF Finishing, Places

LEMMA FollowingType ==
  ASSUME mem \in [Addrs -> Insts], NEW p \in Places
  PROVE  Following(p) \in Places
<1>1. Finishing(p) \in Places /\ Finishing(p).screen \in Addrs \cup {NoAddr} /\ p.at \in Addrs
  BY FinishingType DEF Places
<1> QED BY <1>1, FetchingType DEF Following

(* The lines of a frame exist, up to any row.                              *)
LEMMA LinesExist ==
  ASSUME mem \in [Addrs -> Insts], reg \in Addrs, NEW k \in Nat
  PROVE  \E t \in [0..k -> Places] : IsLines(t, k)
<1> DEFINE G == [p \in Places |-> Following(p)]
<1>1. G \in [Places -> Places] /\ Fetching(reg, NoAddr) \in Places
  BY FollowingType, FetchingType
<1>2. PICK t \in [0..k -> Places] : IsIteration(t, k, Fetching(reg, NoAddr), G)
  BY <1>1, Iteration
<1>3. \A j \in 1..k : t[j] = Following(t[j - 1])
  <2> SUFFICES ASSUME NEW j \in 1..k PROVE t[j] = Following(t[j - 1])
    OBVIOUS
  <2>1. t[j - 1] \in Places /\ t[j] = G[t[j - 1]]
    BY <1>2 DEF IsIteration
  <2> QED BY <2>1
<1> QED BY <1>2, <1>3 DEF IsLines, IsIteration

(* They are places of the walk, whatever function gives them.              *)
LEMMA LinesAreMembers ==
  ASSUME mem \in [Addrs -> Insts], reg \in Addrs, NEW k \in Nat, NEW t, IsLines(t, k)
  PROVE  \A j \in 0..k : t[j] \in Places
<1> DEFINE H == {j \in 0..k : t[j] \in Places}
<1>1. 0 \in H
  BY FetchingType DEF IsLines
<1>2. ASSUME NEW j \in 1..k, j - 1 \in H PROVE j \in H
  BY <1>2, FollowingType DEF IsLines
<1> HIDE DEF H
<1>3. \A j \in 0..k : j \in H
  BY <1>1, <1>2, Induction
<1> QED BY <1>3 DEF H

-----------------------------------------------------------------------------
(***************************************************************************)
(* The renderer on top of the walk: types, and every step is a step of it. *)
(***************************************************************************)
RenderTypes ==
    /\ rendering \in BOOLEAN /\ regsDirty \in BOOLEAN /\ touched \in BOOLEAN
    /\ early \in BOOLEAN /\ swallowed \in BOOLEAN /\ jumped \in BOOLEAN
    /\ fb = [r \in Rows |-> fb[r]]

LEMMA DisplayChangedType == regsDirty \in BOOLEAN => DisplayChanged \in BOOLEAN
  BY DEF DisplayChanged

LEMMA RenderTypesInit == RenderInit => RenderTypes
  BY DEF RenderInit, RenderTypes

LEMMA RenderTypesStep == RenderTypes /\ RenderNext => RenderTypes'
<1> SUFFICES ASSUME RenderTypes, RenderNext PROVE RenderTypes'
  OBVIOUS
<1>1. CASE UNCHANGED rendervars
  BY <1>1 DEF RenderTypes, rendervars, stores
<1>2. CASE RenderLineEnd /\ InRegion
  <2>1. DisplayChanged \in BOOLEAN
    BY DisplayChangedType DEF RenderTypes
  <2>2. rendering' \in BOOLEAN /\ touched' \in BOOLEAN /\ early' \in BOOLEAN
    BY <1>2, <2>1 DEF RenderLineEnd, RenderTypes
  <2>3. swallowed' \in BOOLEAN
    BY <1>2 DEF RenderLineEnd, RenderTypes
  <2>4. jumped' \in BOOLEAN
    BY <1>2 DEF RenderLineEnd, RenderTypes
  <2>5. regsDirty' \in BOOLEAN
    BY <1>2 DEF RenderLineEnd, RenderTypes
  <2>6. fb' = [r \in Rows |-> fb'[r]]
    <3>1. DOMAIN fb = Rows
      BY DEF RenderTypes
    <3>2. fb' = (IF rendering' THEN [fb EXCEPT ![Row] = Picture(ScanYAfter)] ELSE fb)
      BY <1>2 DEF RenderLineEnd
    <3>3. CASE rendering'
      BY <3>1, <3>2, <3>3
    <3>4. CASE ~rendering'
      BY <3>2, <3>4 DEF RenderTypes
    <3> QED BY <3>3, <3>4
  <2> QED BY <2>2, <2>3, <2>4, <2>5, <2>6 DEF RenderTypes
<1>3. CASE RenderLineEnd /\ ~InRegion
  BY <1>1, <1>3 DEF RenderLineEnd
<1>4. CASE RenderStore
  <2>1. Stored /\ UNCHANGED <<rendering, fb>> /\ regsDirty' \in BOOLEAN
    BY <1>4 DEF RenderStore, RenderPoke, RegisterWritten, RenderTypes
  <2> QED BY <2>1 DEF Stored, RenderTypes
<1> QED BY <1>1, <1>2, <1>3, <1>4 DEF RenderNext

LEMMA RenderTypesStutter == RenderTypes /\ UNCHANGED allvars => RenderTypes'
  BY DEF RenderTypes, allvars, rendervars, stores

LEMMA RenderWalks == RenderNext => Next
<1>1. RenderStore => Store
  BY DEF RenderStore, RenderPoke, Store
<1>2. RenderLineEnd => EndLine
  BY DEF RenderLineEnd
<1> QED BY <1>1, <1>2 DEF RenderNext, Next

(* Rendering adds to the walk of the display list and takes nothing from   *)
(* it: with the renderer's variables hidden, the machine is DisplayList's. *)
THEOREM RenderImplementsDisplayList == RenderSpec => Spec
<1>1. RenderInit => Init
  BY DEF RenderInit
<1>2. [RenderNext]_allvars => [Next]_vars
  BY RenderWalks DEF allvars
<1> QED BY <1>1, <1>2, PTL DEF RenderSpec, Spec

(* Types: SCAN-Y and MODE-SCANLINES-REMAINING stay within the mode line's  *)
(* length, and DL-OFFSET within the scanlines displayed so far, for every  *)
(* memory and whatever is stored when (%END-SCANLINE-EVENTS,               *)
(* PROCESS-DL-INSTRUCTION).                                                *)
THEOREM TypeCorrect == RenderSpec => []TypeOK
<1>1. WalkInv => TypeOK
  BY DEF WalkInv, TypeOK
<1> QED BY <1>1, WalkInvariant, RenderImplementsDisplayList, PTL

(* A display list interrupt rings on the last scanline of a mode line that *)
(* asks for it and on no other (%BEGIN-SCANLINE-EVENTS).                   *)
THEOREM DliRingsOnLastLine == RenderSpec => []DliOnLastLine
<1>1. WalkInv => DliOnLastLine
  BY DEF WalkInv
<1> QED BY <1>1, WalkInvariant, RenderImplementsDisplayList, PTL

(* SCAN-Y is the scanline within the mode line (%END-SCANLINE-EVENTS).     *)
THEOREM ScanYCountsLines == RenderSpec => []ScanYIsLine
  BY ScanYWhileRunning, WalkInvariant, RenderImplementsDisplayList, PTL

(* The vertical blank leaves ANTIC at the top of the list the registers    *)
(* name, and nothing moves it away before the first displayed scanline.    *)
THEOREM BlankMakesReady == RenderSpec => []BlankIsReady
<1>1. WalkInv => BlankIsReady
  BY DEF WalkInv
<1> QED BY <1>1, WalkInvariant, RenderImplementsDisplayList, PTL

(* A mode line's scanlines share a row of screen memory and consume it at  *)
(* the end of the last one (%BEGIN- and %END-SCANLINE-EVENTS).             *)
THEOREM ModeLineTakesARow == RenderSpec => RowAtATime
<1>1. Spec => [][KeepsRow]_vars
  BY RowStep, WalkInvariant, PTL DEF Spec
<1> QED BY <1>1, RenderImplementsDisplayList, PTL DEF RowAtATime

-----------------------------------------------------------------------------
(***************************************************************************)
(* ANTIC keeps to the lines its list prescribes while nothing of them has  *)
(* been stored to.                                                         *)
(***************************************************************************)

(* ANTIC is at a place of the walk.                                        *)
At(p) ==
    /\ (dlist + off) % MemSize = p.at
    /\ cur = p.cur /\ remaining = p.left /\ jvb = p.jvb
    /\ p.cur.kind \in {"blank", "show"} => scanY = p.y
    /\ p.screen # NoAddr => screen = p.screen

(* Nothing that a line is made from is on a dirty page.                    *)
TouchFree(p) ==
    /\ Page(p.from) \notin pageDirty
    /\ p.cur.kind = "show" /\ p.screen # NoAddr => RowPages(p.screen) \cap pageDirty = {}

CleanTo(t, k) == \A j \in 0..k : TouchFree(t[j])

(* The line says where its data are, and what a row of it looks like.      *)
Known(p) == p.cur.kind = "show" => p.screen # NoAddr
PictureOf(p) ==
    IF p.cur.kind = "show"
    THEN [glyphRow |-> Finishing(p).y, data |-> {<<a, mem[a]>> : a \in RowAddrs(p.screen)}]
    ELSE Background

(* A place's fields.                                                       *)
LEMMA PlaceFields ==
  ASSUME NEW p \in Places
  PROVE  /\ p.from \in Addrs /\ p.at \in Addrs /\ p.cur \in Insts /\ p.left \in Nat
         /\ p.jvb \in BOOLEAN /\ p.y \in Nat /\ p.screen \in Addrs \cup {NoAddr}
         /\ p.cur.kind \in {"blank", "show", "jmp", "jvb"}
         /\ p.cur.kind \in {"blank", "show"} => p.cur.lines \in Nat \ {0}
         /\ p.cur.kind \in {"jmp", "jvb"} => p.cur.lines = 0 /\ p.cur.addr \in Addrs
         /\ p.cur.addr \in Addrs \cup {NoAddr}
<1>1. p.cur \in Insts
  BY DEF Places
<1>2. 1..MaxLines \subseteq Nat \ {0}
  BY Numbers
<1> QED BY <1>1, <1>2, InstFields DEF Places

(* An address is its own remainder, and is not NoAddr.                     *)
LEMMA AddrWraps ==
  ASSUME NEW a \in Addrs
  PROVE  a % MemSize = a /\ (a + 0) % MemSize = a /\ a # NoAddr
<1>1. a \in 0..(MemSize - 1) /\ a + 0 = a
  BY Numbers DEF Addrs
<1> QED BY <1>1, Numbers, RemainderInRange DEF NoAddr

(* The instruction that a line start fetches puts ANTIC at its place.      *)
LEMMA FetchArrives ==
  ASSUME WalkInv, BeginModeLine \/ BeginJump,
         NEW a, a = (dlist + off) % MemSize,
         NEW s, s # NoAddr => screen = s
  PROVE  At(Fetching(a, s))'
<1>1. /\ Types /\ off \in Nat /\ dlist \in Nat /\ dlist + off \in Nat
      /\ remaining = 0 /\ ~jvb
  BY Numbers DEF WalkInv, Types, Addrs, BeginModeLine, BeginJump, FetchDue
<1>2. a \in Addrs /\ Fetched = mem[a] /\ mem[a] \in Insts /\ mem' = mem
  BY <1>1, WrapsToAddr DEF Types, Fetched, BeginModeLine, BeginJump
<1>6. PICK p : p = Fetching(a, s)
  OBVIOUS
<1>3. Fetching(a, s)' = p
  BY <1>2, <1>6 DEF Fetching
<1>4. CASE BeginModeLine
  <2>1. /\ Fetched.kind \in {"blank", "show"} /\ off' = off + 1 /\ dlist' = dlist
        /\ cur' = Fetched /\ remaining' = Fetched.lines /\ scanY' = 0 /\ jvb' = jvb
        /\ screen' = IF Fetched.addr = NoAddr THEN screen ELSE Fetched.addr
    BY <1>4 DEF BeginModeLine
  <2>2. (dlist' + off') % MemSize = (a + 1) % MemSize
    <3>1. (dlist + (off + 1)) % MemSize = (((dlist + off) % MemSize) + 1) % MemSize
      <4> DEFINE x == dlist + off
      <4>1. x \in Nat /\ dlist + (off + 1) = x + 1
        BY <1>1
      <4> HIDE DEF x
      <4>2. (x + 1) % MemSize = ((x % MemSize) + 1) % MemSize
        BY <4>1, Numbers, RemainderStep
      <4> QED BY <4>1, <4>2 DEF x
    <3> QED BY <2>1, <3>1
  <2>3. /\ p.at = (a + 1) % MemSize /\ p.cur = mem[a] /\ p.left = mem[a].lines
        /\ p.jvb = FALSE /\ p.y = 0
        /\ p.screen = IF mem[a].kind = "show" /\ mem[a].addr # NoAddr THEN mem[a].addr ELSE s
    BY <1>2, <1>6, <2>1 DEF Fetching
  <2>4. mem[a].kind = "blank" => mem[a].addr = NoAddr
    BY <1>2 DEF Insts
  <2>5. p.screen # NoAddr => screen' = p.screen
    BY <1>2, <2>1, <2>3, <2>4
  <2>6. jvb' = p.jvb
    BY <1>1, <2>1, <2>3 DEF Types
  <2>7. cur' = p.cur /\ remaining' = p.left /\ scanY' = p.y
    BY <1>2, <2>1, <2>3
  <2>8. At(p)'
    BY <2>2, <2>3, <2>5, <2>6, <2>7 DEF At
  <2> QED BY <1>3, <2>8 DEF At
<1>5. CASE BeginJump
  <2>1. /\ Fetched.kind \in {"jmp", "jvb"} /\ off' = 0 /\ dlist' = Fetched.addr
        /\ cur' = Fetched /\ remaining' = remaining /\ jvb' = (Fetched.kind = "jvb")
        /\ screen' = screen
    BY <1>5 DEF BeginJump, modeline
  <2>2. /\ p.at = mem[a].addr /\ p.cur = mem[a] /\ p.left = mem[a].lines
        /\ p.jvb = (mem[a].kind = "jvb") /\ p.screen = s
    BY <1>2, <1>6, <2>1 DEF Fetching
  <2>3. mem[a].addr \in Addrs /\ mem[a].lines = 0
    BY <1>2, <2>1, InstFields
  <2>4. (dlist' + off') % MemSize = mem[a].addr
    BY <1>2, <2>1, <2>3, AddrWraps
  <2>5. jvb' = p.jvb
    BY <1>2, <2>1, <2>2, Zenon
  <2>6. ~ (p.cur.kind \in {"blank", "show"}) /\ cur' = p.cur
    BY <1>2, <2>1, <2>2
  <2>7. At(p)'
    BY <1>1, <2>1, <2>2, <2>3, <2>4, <2>5, <2>6 DEF At
  <2> QED BY <1>3, <2>7 DEF At
<1> QED BY <1>4, <1>5

(* A displayed scanline's end takes ANTIC to the end of its line, with the *)
(* renderer's pointer where the line's data were.                          *)
LEMMA EndArrives ==
  ASSUME WalkInv, EndLine, Displaying, NEW p \in Places, At(p)
  PROVE  /\ At(Finishing(p))'
         /\ p.screen # NoAddr => shown' = p.screen
         /\ p.cur.kind = "show" => ScanYAfter = Finishing(p).y
<1>1. /\ p.from \in Addrs /\ p.left \in Nat /\ p.screen \in Addrs \cup {NoAddr}
      /\ p.cur.kind \in {"blank", "show", "jmp", "jvb"}
      /\ p.cur.kind \in {"blank", "show"} => p.cur.lines \in Nat \ {0}
      /\ p.cur.kind \in {"jmp", "jvb"} => p.cur.lines = 0
  BY PlaceFields
<1>2. /\ dlist' = dlist /\ off' = off /\ cur' = cur /\ jvb' = jvb /\ shown' = shown
      /\ remaining' = IF remaining > 0 THEN remaining - 1 ELSE 0
      /\ scanY' = ScanYAfter /\ screen' = ScreenAfter /\ phase = "run"
  BY DEF EndLine, pointers
<1>3. shown = screen
  BY <1>2 DEF WalkInv, SamePointer
<1> DEFINE q == Finishing(p)
<1>4. /\ q.at = p.at /\ q.cur = p.cur /\ q.jvb = p.jvb
      /\ q.left = (IF p.left > 0 THEN p.left - 1 ELSE 0)
      /\ q.y = (IF p.cur.lines = 0 THEN 0 ELSE (p.y + 1) % p.cur.lines)
      /\ q.screen = IF p.cur.kind = "show" /\ p.y + 1 = p.cur.lines /\ p.screen # NoAddr
                    THEN (p.screen + RowBytes) % MemSize ELSE p.screen
  BY DEF Finishing
<1> HIDE DEF q
<1>5. p.cur.kind \in {"blank", "show"} => ScanYAfter = q.y
  BY <1>1, <1>4 DEF At, ScanYAfter
<1>6. q.screen # NoAddr => screen' = q.screen
  <2>1. q.screen # NoAddr => p.screen # NoAddr /\ screen = p.screen
    BY <1>4 DEF At
  <2>2. Shows /\ Ends <=> p.cur.kind = "show" /\ p.y + 1 = p.cur.lines
    BY DEF At, Shows, Ends
  <2> QED BY <1>2, <1>4, <2>1, <2>2 DEF ScreenAfter
<1>7. At(q)'
  BY <1>2, <1>4, <1>5, <1>6 DEF At
<1> QED BY <1>2, <1>3, <1>5, <1>7 DEF q, At

(* The next scanline's start takes it on to the line that follows.         *)
LEMMA BeginFollows ==
  ASSUME WalkInv, BeginLine, Displaying, NEW p \in Places, At(Finishing(p))
  PROVE  At(Following(p))'
<1> DEFINE q == Finishing(p)
<1>1. q \in Places
  BY FinishingType
<1>2. q.at = p.at /\ q.jvb = p.jvb
  BY DEF Finishing
<1>3. /\ (dlist + off) % MemSize = q.at /\ cur = q.cur /\ remaining = q.left /\ jvb = q.jvb
      /\ q.cur.kind \in {"blank", "show"} => scanY = q.y
      /\ q.screen # NoAddr => screen = q.screen
  BY DEF At
<1> HIDE DEF q
<1>4. scanline # VbiLine
  BY Numbers DEF WalkInv, Types, Displaying, InRegion
<1>5. CASE q.left = 0 /\ ~p.jvb
  <2>1. FetchDue
    BY <1>2, <1>3, <1>5 DEF FetchDue
  <2>2. BeginModeLine \/ BeginJump
    BY <1>4, <2>1 DEF BeginLine, BeginVbi, BeginOther
  <2>3. At(Fetching(p.at, q.screen))'
    BY <1>2, <1>3, <2>2, FetchArrives
  <2>4. Following(p)' = Fetching(p.at, q.screen)'
    BY <1>5 DEF Following, q
  <2> QED BY <2>3, <2>4 DEF At
<1>6. CASE ~(q.left = 0 /\ ~p.jvb)
  <2>1. ~FetchDue
    BY <1>2, <1>3, <1>6 DEF FetchDue
  <2>2. BeginOther
    BY <1>4, <2>1 DEF BeginLine, BeginVbi, BeginModeLine, BeginJump
  <2>3. At(q)'
    BY <1>3, <2>2 DEF At, BeginOther, pointers
  <2>4. Following(p)' = q
    BY <1>6 DEF Following, q
  <2> QED BY <2>3, <2>4 DEF At
<1> QED BY <1>5, <1>6

(***************************************************************************)
(* Stores against the lines: what is clean after a store was so before,    *)
(* and what it is made from is what it was.                                *)
(***************************************************************************)
LEMMA LinesPrefix ==
  ASSUME NEW k \in Nat, NEW t
  PROVE  /\ IsLines(t, k + 1) => IsLines(t, k) /\ t[k + 1] = Following(t[k])
         /\ CleanTo(t, k + 1) => CleanTo(t, k)
<1>1. /\ 1..k \subseteq 1..(k + 1) /\ 0..k \subseteq 0..(k + 1)
      /\ k + 1 \in 1..(k + 1) /\ (k + 1) - 1 = k
  OBVIOUS
<1>2. IsLines(t, k + 1) => IsLines(t, k) /\ t[k + 1] = Following(t[k])
  <2> SUFFICES ASSUME IsLines(t, k + 1) PROVE IsLines(t, k) /\ t[k + 1] = Following(t[k])
    OBVIOUS
  <2>1. t[0] = Fetching(reg, NoAddr) /\ \A j \in 1..(k + 1) : t[j] = Following(t[j - 1])
    BY DEF IsLines
  <2>2. t[k + 1] = Following(t[(k + 1) - 1])
    BY <1>1, <2>1, Zenon
  <2> QED BY <1>1, <2>1, <2>2 DEF IsLines
<1> QED BY <1>1, <1>2 DEF CleanTo

(* A poke outside an instruction's page leaves the instruction.            *)
LEMMA PokeSpares ==
  ASSUME mem \in [Addrs -> Insts], NEW a, NEW i, mem' = [mem EXCEPT ![a] = i],
         NEW b \in Addrs, Page(b) # Page(a)
  PROVE  mem'[b] = mem[b] /\ \A s : Fetching(b, s)' = Fetching(b, s)
<1>1. mem'[b] = mem[b]
  OBVIOUS
<1> QED BY <1>1 DEF Fetching

LEMMA LinesBeforePoke ==
  ASSUME mem \in [Addrs -> Insts], reg \in Addrs, reg' = reg,
         NEW a \in Addrs, NEW i \in Insts, mem' = [mem EXCEPT ![a] = i],
         pageDirty' = pageDirty \cup {Page(a)},
         NEW k \in Nat, NEW t, IsLines(t, k)', CleanTo(t, k)'
  PROVE  IsLines(t, k) /\ CleanTo(t, k)
<1>1. \A j \in 0..k : TouchFree(t[j]) /\ Page(t[j].from) # Page(a)
  BY DEF CleanTo, TouchFree
<1>2. t[0] = Fetching(reg, NoAddr)
  <2>1. t[0] = Fetching(reg, NoAddr)'
    BY DEF IsLines
  <2>2. t[0].from = reg
    BY <2>1 DEF Fetching
  <2>3. Page(reg) # Page(a)
    BY <1>1, <2>2
  <2> QED BY <2>1, <2>3, PokeSpares
<1>3. ASSUME NEW j \in 1..k, t[j - 1] \in Places PROVE t[j] = Following(t[j - 1])
  <2> DEFINE q == Finishing(t[j - 1])
             a0 == t[j - 1].at
  <2>1. t[j] = Following(t[j - 1])'
    BY DEF IsLines
  <2>2. CASE q.left = 0 /\ ~t[j - 1].jvb
    <3>1. t[j] = Fetching(a0, q.screen)'
      BY <2>1, <2>2 DEF Following
    <3>2. t[j].from = a0 /\ a0 \in Addrs
      BY <1>3, <3>1, PlaceFields DEF Fetching
    <3>3. Page(a0) # Page(a)
      BY <1>1, <3>2
    <3>4. t[j] = Fetching(a0, q.screen)
      BY <3>1, <3>2, <3>3, PokeSpares
    <3> QED BY <2>2, <3>4 DEF Following
  <2>3. CASE ~ (q.left = 0 /\ ~t[j - 1].jvb)
    BY <2>1, <2>3 DEF Following
  <2> QED BY <2>2, <2>3
<1>4. mem' \in [Addrs -> Insts] /\ reg' \in Addrs
  OBVIOUS
<1> DEFINE H == {j \in 0..k : t[j] \in Places}
<1>5. 0 \in H
  BY <1>2, FetchingType
<1>6. ASSUME NEW j \in 1..k, j - 1 \in H PROVE j \in H
  <2>1. t[j - 1] \in Places
    BY <1>6
  <2>2. t[j] \in Places
    BY <1>3, <2>1, FollowingType
  <2> QED BY <2>2
<1> HIDE DEF H
<1>7. \A j \in 0..k : j \in H
  BY <1>5, <1>6, Induction
<1>8. \A j \in 1..k : t[j] = Following(t[j - 1])
  <2> SUFFICES ASSUME NEW j \in 1..k PROVE t[j] = Following(t[j - 1])
    OBVIOUS
  <2>1. j - 1 \in 0..k
    OBVIOUS
  <2>2. t[j - 1] \in Places
    BY <1>7, <2>1 DEF H
  <2> QED BY <1>3, <2>2
<1> QED BY <1>1, <1>2, <1>8 DEF IsLines, CleanTo

(* A clean line's picture is what it was.                                  *)
LEMMA PictureSpared ==
  ASSUME mem \in [Addrs -> Insts], NEW a \in Addrs, NEW i \in Insts,
         mem' = [mem EXCEPT ![a] = i], pageDirty' = pageDirty \cup {Page(a)},
         NEW p \in Places, TouchFree(p)', Known(p)
  PROVE  PictureOf(p)' = PictureOf(p)
<1>1. CASE p.cur.kind = "show"
  <2>1. p.screen \in Addrs /\ RowPages(p.screen) \cap pageDirty' = {}
    BY <1>1, PlaceFields DEF TouchFree, Known
  <2>2. ASSUME NEW b \in RowAddrs(p.screen) PROVE mem'[b] = mem[b]
    <3>1. PICK n \in 0..(RowBytes - 1) : b = (p.screen + n) % MemSize
      BY DEF RowAddrs
    <3>2. b \in Addrs
      BY <2>1, <3>1, Numbers, OnwardAddr
    <3>3. Page(b) \in RowPages(p.screen)
      BY DEF RowPages
    <3>4. Page(b) # Page(a)
      BY <2>1, <3>3
    <3> QED BY <3>2, <3>4
  <2>3. {<<b, mem'[b]>> : b \in RowAddrs(p.screen)} = {<<b, mem[b]>> : b \in RowAddrs(p.screen)}
    BY <2>2
  <2> QED BY <1>1, <2>3 DEF PictureOf
<1>2. CASE p.cur.kind # "show"
  BY <1>2 DEF PictureOf
<1> QED BY <1>1, <1>2

-----------------------------------------------------------------------------
(***************************************************************************)
(* The rendered frame: the inductive invariant.                            *)
(***************************************************************************)
InRow0 == phase = "run" /\ scanline = ActiveStart

(* Row 0 shows what the list's first instruction says, until a store during*)
(* it may have changed what that is.                                       *)
Row0First ==
    InRow0 /\ dma /\ (~early \/ (~regsDirty /\ Page(reg) \notin pageDirty)) =>
        At(Fetching(reg, NoAddr))

(* The live pointer is off the list's beginning only after a jump.         *)
Row0Beginning ==
    InRow0 /\ ~regsDirty /\ cur.kind \notin {"jmp", "jvb"} => dlist = reg

(* A later row, running and ended, is the line the list prescribes for it. *)
Recorded == ~regsDirty /\ ~swallowed

RowIsLine ==
    phase = "run" /\ ActiveStart < scanline /\ scanline < VbiLine /\ dma /\ Recorded =>
        \A t : IsLines(t, Row) /\ CleanTo(t, Row) => At(t[Row])

RowWasLine ==
    RowDone /\ dma /\ Recorded =>
        \A t : IsLines(t, DoneRow) /\ CleanTo(t, DoneRow) =>
            /\ At(Finishing(t[DoneRow]))
            /\ t[DoneRow].screen # NoAddr => shown = t[DoneRow].screen

(* The framebuffer's rows are the pictures of their lines.                 *)
Drawn(r) == ~rendering \/ scanline <= ActiveStart \/ r < scanline - ActiveStart

FrameIsLines ==
    Recorded =>
        \A r \in Rows : Drawn(r) =>
            /\ ~dma => fb[r] = Background
            /\ dma => \A t : IsLines(t, r) /\ CleanTo(t, r) /\ Known(t[r]) =>
                                fb[r] = PictureOf(t[r])

(* A skipped frame's decision stands: no register is dirty, and the walk   *)
(* from the list's beginning met the end and no dirty page.                *)
CleanWalk(s) == /\ WalkFrom(reg, s).ended
                /\ WalkFrom(reg, s).pages \cap pageDirty = {}
SkipStands ==
    scanline > ActiveStart /\ ~rendering /\ ~touched =>
        /\ ~regsDirty
        /\ dma /\ ~jumped => \E s \in Addrs : CleanWalk(s)

RenderInv == /\ WalkInv /\ RenderTypes
             /\ Row0First /\ Row0Beginning /\ RowIsLine /\ RowWasLine
             /\ FrameIsLines /\ SkipStands

LEMMA RenderInvInit == RenderInit => RenderInv
<1> SUFFICES ASSUME RenderInit PROVE RenderInv
  OBVIOUS
<1>1. WalkInv /\ RenderTypes
  BY WalkInit, RenderTypesInit DEF RenderInit
<1>2. phase = "begin" /\ scanline = 0 /\ regsDirty /\ 0 < ActiveStart
  BY Numbers DEF RenderInit, Init
<1>3. ~ (scanline > ActiveStart) /\ ~ (ActiveStart < scanline)
  BY <1>2, Numbers
<1> QED BY <1>1, <1>2, <1>3 DEF RenderInv, Row0First, Row0Beginning, InRow0, RowIsLine, RowWasLine,
        RowDone, FrameIsLines, Recorded, SkipStands

(* A scanline's start.                                                     *)
LEMMA RenderBeginStep == RenderInv /\ BeginLine /\ UNCHANGED rendervars => RenderInv'
<1> SUFFICES ASSUME RenderInv, BeginLine, UNCHANGED rendervars PROVE RenderInv'
  OBVIOUS
<1>1. WalkInv' /\ RenderTypes'
  <2>1. [Next]_vars /\ RenderNext
    BY DEF Next, RenderNext
  <2> QED BY <2>1, WalkStep, RenderTypesStep DEF RenderInv
<1>2. /\ mem' = mem /\ reg' = reg /\ dma' = dma /\ scanline' = scanline
      /\ phase = "begin" /\ phase' = "run"
      /\ pageDirty' = pageDirty /\ regsDirty' = regsDirty /\ rendering' = rendering
      /\ fb' = fb /\ touched' = touched /\ early' = early /\ swallowed' = swallowed
      /\ jumped' = jumped
  BY DEF BeginLine, BeginVbi, BeginModeLine, BeginJump, BeginOther, rendervars, stores, pointers
<1>3. Types /\ scanline \in Nat
  BY Numbers DEF RenderInv, WalkInv, Types
<1>4. ASSUME InRow0'
      PROVE  /\ dlist = reg /\ off = 0 /\ remaining = 0 /\ ~jvb
             /\ InRegion /\ scanline # VbiLine
  <2>1. scanline = ActiveStart
    BY <1>2, <1>4 DEF InRow0
  <2> QED BY <1>2, <2>1, Numbers DEF RenderInv, WalkInv, BlankIsReady, InBlank, InRegion
<1>5. Row0First'
  <2> SUFFICES ASSUME InRow0', dma' PROVE At(Fetching(reg, NoAddr))'
    BY DEF Row0First
  <2>1. BeginModeLine \/ BeginJump
    BY <1>2, <1>4 DEF BeginLine, BeginVbi, BeginOther, FetchDue, Displaying
  <2>2. reg = (dlist + off) % MemSize
    BY <1>3, <1>4, AddrWraps DEF Types
  <2>3. PICK a : a = reg
    OBVIOUS
  <2>4. At(Fetching(a, NoAddr))'
    BY <2>1, <2>2, <2>3, FetchArrives DEF RenderInv
  <2>5. Fetching(reg, NoAddr)' = Fetching(a, NoAddr)'
    BY <1>2, <2>3 DEF Fetching
  <2> QED BY <2>4, <2>5 DEF At
<1>6. Row0Beginning'
  <2> SUFFICES ASSUME InRow0', cur'.kind \notin {"jmp", "jvb"} PROVE dlist' = reg'
    BY DEF Row0Beginning
  <2>1. ~BeginJump /\ ~BeginVbi
    BY <1>4 DEF BeginJump, BeginVbi
  <2> QED BY <1>2, <1>4, <2>1 DEF BeginLine, BeginModeLine, BeginOther, pointers
<1>7. RowIsLine'
  <2> SUFFICES ASSUME ActiveStart < scanline, scanline < VbiLine, dma, Recorded,
                      NEW t, IsLines(t, Row)', CleanTo(t, Row)'
               PROVE  At(t[Row])'
    BY <1>2 DEF RowIsLine, Recorded
  <2>1. PICK k \in Nat : k + 1 = Row /\ k = DoneRow /\ Row' = Row
    <3>1. DoneRow \in Nat /\ DoneRow + 1 = Row
      BY <1>3, Numbers DEF DoneRow, Row
    <3> QED BY <1>2, <3>1 DEF Row
  <2>2. IsLines(t, k + 1) /\ CleanTo(t, k + 1)
    BY <1>2, <2>1 DEF IsLines, CleanTo, TouchFree, Following, Fetching
  <2>3. IsLines(t, k) /\ CleanTo(t, k) /\ t[k + 1] = Following(t[k])
    BY <2>2, LinesPrefix
  <2>4. RowDone
    BY <1>2, <1>3, Numbers DEF RowDone
  <2>5. At(Finishing(t[k]))
    BY <2>1, <2>3, <2>4 DEF RenderInv, RowWasLine
  <2>6. t[k] \in Places
    BY <1>3, <2>3, LinesAreMembers DEF Types
  <2>7. Displaying
    BY <1>3, Numbers DEF Displaying, InRegion
  <2>8. At(Following(t[k]))'
    BY <2>5, <2>6, <2>7, BeginFollows DEF RenderInv
  <2>9. Following(t[k])' = t[k + 1]
    BY <1>2, <2>3 DEF Following, Fetching
  <2>10. At(t[k + 1])'
    BY <2>8, <2>9 DEF At
  <2> QED BY <2>1, <2>10
<1>8. RowWasLine'
  BY <1>2 DEF RowWasLine, RowDone
<1>9. FrameIsLines'
  <2> SUFFICES ASSUME Recorded', NEW r \in Rows, Drawn(r)'
               PROVE  /\ ~dma' => fb'[r] = Background
                      /\ dma' => \A t : IsLines(t, r)' /\ CleanTo(t, r)' /\ Known(t[r]) =>
                                            fb'[r] = PictureOf(t[r])'
    BY DEF FrameIsLines
  <2>1. Recorded /\ Drawn(r)
    BY <1>2 DEF Recorded, Drawn
  <2>2. ASSUME NEW t, IsLines(t, r)', CleanTo(t, r)'
        PROVE  IsLines(t, r) /\ CleanTo(t, r)
    BY <1>2, <2>2 DEF IsLines, CleanTo, TouchFree, Following, Fetching
  <2>3. \A t : PictureOf(t[r])' = PictureOf(t[r])
    BY <1>2 DEF PictureOf
  <2> QED BY <1>2, <2>1, <2>2, <2>3 DEF RenderInv, FrameIsLines
<1>10. SkipStands'
  <2>1. \A s : CleanWalk(s)' = CleanWalk(s)
    BY <1>2 DEF CleanWalk, WalkFrom, WalkSteps, WalkInstruction
  <2> QED BY <1>2, <2>1 DEF RenderInv, SkipStands
<1> QED BY <1>1, <1>5, <1>6, <1>7, <1>8, <1>9, <1>10 DEF RenderInv

(* A scanline's end, with the callback: what it leaves in any case.        *)
LEMMA LineEndLeaves ==
  ASSUME RenderInv, RenderLineEnd
  PROVE  /\ WalkInv' /\ RenderTypes'
         /\ mem' = mem /\ reg' = reg /\ dma' = dma /\ dlist' = dlist
         /\ phase = "run" /\ phase' = "begin" /\ scanline \in 0..(Lines - 1)
         /\ scanline' = IF scanline + 1 = Lines THEN 0 ELSE scanline + 1
<1>1. WalkInv' /\ RenderTypes'
  <2>1. [Next]_vars /\ RenderNext
    BY DEF Next, RenderNext, RenderLineEnd
  <2> QED BY <2>1, WalkStep, RenderTypesStep DEF RenderInv
<1>2. scanline \in 0..(Lines - 1)
  BY DEF RenderInv, WalkInv, Types
<1> QED BY <1>1, <1>2, NextScanline DEF RenderLineEnd, EndLine, pointers

(* Outside the displayed region nothing of the frame changes.              *)
LEMMA RenderBorderStep == RenderInv /\ RenderLineEnd /\ ~InRegion => RenderInv'
<1> SUFFICES ASSUME RenderInv, RenderLineEnd, ~InRegion PROVE RenderInv'
  OBVIOUS
<1>1. /\ WalkInv' /\ RenderTypes'
      /\ mem' = mem /\ reg' = reg /\ dma' = dma
      /\ phase' = "begin" /\ scanline \in 0..(Lines - 1)
      /\ scanline' = IF scanline + 1 = Lines THEN 0 ELSE scanline + 1
  BY LineEndLeaves
<1>2. /\ pageDirty' = pageDirty /\ regsDirty' = regsDirty /\ rendering' = rendering
      /\ fb' = fb /\ touched' = touched /\ swallowed' = swallowed /\ jumped' = jumped
  BY DEF RenderLineEnd, rendervars, stores
<1>3. scanline < ActiveStart \/ VbiLine <= scanline
  BY <1>1, Numbers DEF InRegion
<1>4. Row0First' /\ Row0Beginning' /\ RowIsLine'
  BY <1>1 DEF Row0First, Row0Beginning, InRow0, RowIsLine
<1>5. RowWasLine'
  <2>1. ~RowDone'
    BY <1>1, <1>3, Numbers DEF RowDone
  <2> QED BY <2>1 DEF RowWasLine
<1>6. FrameIsLines'
  <2> SUFFICES ASSUME Recorded', NEW r \in Rows
               PROVE  /\ ~dma' => fb'[r] = Background
                      /\ dma' => \A t : IsLines(t, r)' /\ CleanTo(t, r)' /\ Known(t[r]) =>
                                            fb'[r] = PictureOf(t[r])'
    BY DEF FrameIsLines
  <2>1. Recorded /\ Drawn(r)
    BY <1>1, <1>2, <1>3, Numbers DEF Recorded, Drawn, Rows
  <2>2. ASSUME NEW t, IsLines(t, r)', CleanTo(t, r)'
        PROVE  IsLines(t, r) /\ CleanTo(t, r)
    BY <1>1, <1>2, <2>2 DEF IsLines, CleanTo, TouchFree, Following, Fetching
  <2>3. \A t : PictureOf(t[r])' = PictureOf(t[r])
    BY <1>1 DEF PictureOf
  <2> QED BY <1>1, <1>2, <2>1, <2>2, <2>3 DEF RenderInv, FrameIsLines
<1>7. SkipStands'
  <2>1. \A s : CleanWalk(s)' = CleanWalk(s)
    BY <1>1, <1>2 DEF CleanWalk, WalkFrom, WalkSteps, WalkInstruction
  <2>2. scanline' > ActiveStart => scanline > ActiveStart
    BY <1>1, <1>3, Numbers
  <2> QED BY <1>1, <1>2, <2>1, <2>2 DEF RenderInv, SkipStands
<1> QED BY <1>1, <1>4, <1>5, <1>6, <1>7 DEF RenderInv

(* The picture of a line is what the callback draws of it.                 *)
LEMMA PictureOfLine ==
  ASSUME WalkInv, EndLine, InRegion, dma, NEW p \in Places, At(p), Known(p)
  PROVE  Picture(ScanYAfter) = PictureOf(p)
<1>1. Displaying /\ phase = "run" /\ cur = p.cur
  BY DEF Displaying, EndLine, At
<1>2. CASE p.cur.kind = "show"
  <2>1. shown = p.screen
    BY <1>1, <1>2 DEF Known, At, WalkInv, SamePointer
  <2>2. ScanYAfter = Finishing(p).y
    BY <1>1, <1>2, EndArrives
  <2> QED BY <1>1, <1>2, <2>1, <2>2 DEF Picture, PictureOf
<1>3. CASE p.cur.kind # "show"
  BY <1>1, <1>3 DEF Picture, PictureOf
<1> QED BY <1>2, <1>3

LEMMA BlankPicture == ~dma => \A y : Picture(y) = Background
  BY DEF Picture

(* Row 0 decides and, if it draws the frame, begins to draw it.            *)
LEMMA RenderRow0Step == RenderInv /\ RenderLineEnd /\ InRegion /\ Row = 0 => RenderInv'
<1> SUFFICES ASSUME RenderInv, RenderLineEnd, InRegion, Row = 0 PROVE RenderInv'
  OBVIOUS
<1>1. /\ WalkInv' /\ RenderTypes'
      /\ mem' = mem /\ reg' = reg /\ dma' = dma
      /\ phase = "run" /\ phase' = "begin" /\ scanline \in 0..(Lines - 1)
      /\ scanline' = IF scanline + 1 = Lines THEN 0 ELSE scanline + 1
  BY LineEndLeaves
<1>2. /\ EndLine /\ rendering' = DisplayChanged /\ touched' = FALSE /\ early' = FALSE
      /\ swallowed' = IF rendering' THEN early ELSE swallowed
      /\ jumped' = (dma /\ cur.kind \in {"jmp", "jvb"})
      /\ rendering' => pageDirty' = {} /\ regsDirty' = FALSE
      /\ ~rendering' => pageDirty' = pageDirty /\ regsDirty' = regsDirty
      /\ fb' = IF rendering' THEN [fb EXCEPT ![0] = Picture(ScanYAfter)] ELSE fb
  BY DEF RenderLineEnd
<1>3. scanline = ActiveStart /\ scanline' = ActiveStart + 1 /\ DoneRow' = 0 /\ InRow0
  BY <1>1, Numbers DEF Row, DoneRow, InRow0
<1>4. Types
  BY DEF RenderInv, WalkInv
<1>5. Row0First' /\ Row0Beginning' /\ RowIsLine'
  BY <1>1 DEF Row0First, Row0Beginning, InRow0, RowIsLine
<1> DEFINE p == Fetching(reg, NoAddr)
<1>6. p \in Places /\ p.from = reg
  <2>1. NoAddr \in Addrs \cup {NoAddr}
    OBVIOUS
  <2> QED BY <1>4, <2>1, FetchingType DEF Types, Fetching
<1>7. ASSUME dma, Recorded', Page(reg) \notin pageDirty' PROVE At(p)
  <2>1. CASE rendering'
    BY <1>2, <1>3, <1>7, <2>1 DEF Recorded, RenderInv, Row0First
  <2>2. CASE ~rendering'
    BY <1>2, <1>3, <1>7, <2>2 DEF Recorded, RenderInv, Row0First
  <2> QED BY <2>1, <2>2
<1>8. ASSUME NEW t, IsLines(t, 0)', CleanTo(t, 0)'
      PROVE  t[0] = p /\ Page(reg) \notin pageDirty'
  <2>1. t[0] = p
    BY <1>1, <1>8 DEF IsLines, Fetching
  <2>2. 0 \in 0..0
    OBVIOUS
  <2> QED BY <1>6, <1>8, <2>1, <2>2 DEF CleanTo, TouchFree
<1>9. RowWasLine'
  <2> SUFFICES ASSUME dma, Recorded', NEW t, IsLines(t, 0)', CleanTo(t, 0)'
               PROVE  /\ At(Finishing(t[0]))'
                      /\ t[0].screen # NoAddr => shown' = t[0].screen
    BY <1>1, <1>3 DEF RowWasLine
  <2>1. t[0] = p /\ At(p)
    BY <1>7, <1>8
  <2>2. PICK q \in Places : q = p /\ At(q)
    BY <1>6, <2>1
  <2>3. At(Finishing(q))' /\ (q.screen # NoAddr => shown' = q.screen)
    BY <1>2, <2>2, EndArrives DEF Displaying, RenderInv
  <2> QED BY <2>1, <2>2, <2>3
<1>10. FrameIsLines'
  <2> SUFFICES ASSUME Recorded', NEW r \in Rows, Drawn(r)'
               PROVE  /\ ~dma' => fb'[r] = Background
                      /\ dma' => \A t : IsLines(t, r)' /\ CleanTo(t, r)' /\ Known(t[r]) =>
                                            fb'[r] = PictureOf(t[r])'
    BY DEF FrameIsLines
  <2>1. \A t : PictureOf(t[r])' = PictureOf(t[r])
    BY <1>1 DEF PictureOf
  <2>2. CASE rendering'
    <3>1. r = 0 /\ fb'[0] = Picture(ScanYAfter)
      BY <1>2, <1>3, <2>2, Numbers DEF Drawn, Rows, RenderInv, RenderTypes
    <3>2. ASSUME dma, NEW t, IsLines(t, 0)', CleanTo(t, 0)', Known(t[0])
          PROVE  fb'[0] = PictureOf(t[0])
      <4>1. t[0] \in Places /\ At(t[0])
        BY <1>6, <1>7, <1>8, <3>2
      <4> QED BY <1>2, <3>1, <3>2, <4>1, PictureOfLine DEF RenderInv
    <3> QED BY <1>1, <2>1, <3>1, <3>2, BlankPicture
  <2>3. CASE ~rendering'
    <3>1. Recorded /\ Drawn(r)
      BY <1>2, <1>3, <2>3, Numbers DEF Recorded, Drawn
    <3>2. ASSUME NEW t, IsLines(t, r)', CleanTo(t, r)'
          PROVE  IsLines(t, r) /\ CleanTo(t, r)
      BY <1>1, <1>2, <2>3, <3>2 DEF IsLines, CleanTo, TouchFree, Following, Fetching
    <3> QED BY <1>1, <1>2, <2>1, <2>3, <3>1, <3>2 DEF RenderInv, FrameIsLines
  <2> QED BY <2>2, <2>3
<1>11. SkipStands'
  <2> SUFFICES ASSUME ~rendering'
               PROVE  /\ ~regsDirty'
                      /\ dma' /\ ~jumped' => \E s \in Addrs : CleanWalk(s)'
    BY DEF SkipStands
  <2>4. pageDirty' = pageDirty
    BY <1>2
  <2>1. \A s : CleanWalk(s)' = CleanWalk(s)
    BY <1>1, <2>4 DEF CleanWalk, WalkFrom, WalkSteps, WalkInstruction
  <2>2. ~DisplayChanged /\ ~regsDirty
    <3>1. ~DisplayChanged
      BY <1>2
    <3> QED BY <3>1 DEF DisplayChanged
  <2>3. ASSUME dma, ~jumped' PROVE \E s \in Addrs : CleanWalk(s)
    <3>1. dlist = reg
      BY <1>2, <1>3, <2>2, <2>3 DEF RenderInv, Row0Beginning
    <3>2. WalkFrom(reg, ScreenAfter).ended /\ WalkFrom(reg, ScreenAfter).pages \cap pageDirty = {}
      BY <2>2, <2>3, <3>1 DEF DisplayChanged
    <3>3. ScreenAfter \in Addrs
      BY <1>4, Numbers, OnwardAddr DEF ScreenAfter, Types
    <3> QED BY <3>2, <3>3 DEF CleanWalk
  <2> QED BY <1>1, <1>2, <2>1, <2>2, <2>3
<1> QED BY <1>1, <1>5, <1>9, <1>10, <1>11 DEF RenderInv

(* A later row is drawn, or left, as the frame is.                         *)
LEMMA RenderRowStep == RenderInv /\ RenderLineEnd /\ InRegion /\ Row # 0 => RenderInv'
<1> SUFFICES ASSUME RenderInv, RenderLineEnd, InRegion, Row # 0 PROVE RenderInv'
  OBVIOUS
<1>1. /\ WalkInv' /\ RenderTypes'
      /\ mem' = mem /\ reg' = reg /\ dma' = dma
      /\ phase = "run" /\ phase' = "begin" /\ scanline \in 0..(Lines - 1)
      /\ scanline' = IF scanline + 1 = Lines THEN 0 ELSE scanline + 1
  BY LineEndLeaves
<1>2. /\ EndLine /\ rendering' = rendering /\ touched' = touched
      /\ swallowed' = swallowed /\ jumped' = jumped
      /\ pageDirty' = pageDirty /\ regsDirty' = regsDirty
      /\ fb' = IF rendering THEN [fb EXCEPT ![Row] = Picture(ScanYAfter)] ELSE fb
  BY DEF RenderLineEnd, RenderInv, RenderTypes
<1>3. /\ ActiveStart < scanline /\ scanline < VbiLine /\ scanline' = scanline + 1
      /\ DoneRow' = Row /\ Row \in Nat /\ Row \in Rows
  BY <1>1, Numbers DEF Row, DoneRow, InRegion, Rows
<1>4. Types
  BY DEF RenderInv, WalkInv
<1>5. Row0First' /\ Row0Beginning' /\ RowIsLine'
  BY <1>1 DEF Row0First, Row0Beginning, InRow0, RowIsLine
<1>6. ASSUME NEW r, NEW t, IsLines(t, r)', CleanTo(t, r)'
      PROVE  IsLines(t, r) /\ CleanTo(t, r)
  BY <1>1, <1>2, <1>6 DEF IsLines, CleanTo, TouchFree, Following, Fetching
<1>7. ASSUME dma, Recorded, NEW t, IsLines(t, Row), CleanTo(t, Row)
      PROVE  t[Row] \in Places /\ At(t[Row])
  <2>1. At(t[Row])
    BY <1>1, <1>3, <1>7 DEF RenderInv, RowIsLine
  <2>2. t[Row] \in Places
    BY <1>3, <1>4, <1>7, LinesAreMembers DEF Types
  <2> QED BY <2>1, <2>2
<1>8. RowWasLine'
  <2>1. PICK k : k = Row
    OBVIOUS
  <2> SUFFICES ASSUME dma, Recorded, NEW t, IsLines(t, k)', CleanTo(t, k)'
               PROVE  /\ At(Finishing(t[k]))'
                      /\ t[k].screen # NoAddr => shown' = t[k].screen
    BY <1>1, <1>2, <1>3, <2>1 DEF RowWasLine, Recorded
  <2>2. t[k] \in Places /\ At(t[k])
    BY <1>6, <1>7, <2>1
  <2> QED BY <1>2, <2>2, EndArrives DEF Displaying, RenderInv
<1>9. FrameIsLines'
  <2> SUFFICES ASSUME Recorded', NEW r \in Rows, Drawn(r)'
               PROVE  /\ ~dma' => fb'[r] = Background
                      /\ dma' => \A t : IsLines(t, r)' /\ CleanTo(t, r)' /\ Known(t[r]) =>
                                            fb'[r] = PictureOf(t[r])'
    BY DEF FrameIsLines
  <2>1. \A t : PictureOf(t[r])' = PictureOf(t[r])
    BY <1>1 DEF PictureOf
  <2>2. Recorded
    BY <1>2 DEF Recorded
  <2>3. CASE rendering /\ r = Row
    <3>1. fb'[r] = Picture(ScanYAfter)
      BY <1>2, <2>3 DEF RenderInv, RenderTypes
    <3>2. ASSUME dma, NEW t, IsLines(t, r)', CleanTo(t, r)', Known(t[r])
          PROVE  fb'[r] = PictureOf(t[r])
      <4>1. t[r] \in Places /\ At(t[r])
        BY <1>6, <1>7, <2>2, <2>3, <3>2
      <4> QED BY <1>2, <3>1, <3>2, <4>1, PictureOfLine DEF RenderInv
    <3> QED BY <1>1, <2>1, <3>1, <3>2, BlankPicture
  <2>4. CASE ~(rendering /\ r = Row)
    <3>1. Drawn(r)
      BY <1>1, <1>2, <1>3, <2>4, Numbers DEF Drawn, Row, Rows
    <3>2. fb'[r] = fb[r]
      BY <1>2, <2>4 DEF RenderInv, RenderTypes
    <3> QED BY <1>1, <1>6, <2>1, <2>2, <3>1, <3>2 DEF RenderInv, FrameIsLines
  <2> QED BY <2>3, <2>4
<1>10. SkipStands'
  <2>1. \A s : CleanWalk(s)' = CleanWalk(s)
    BY <1>1, <1>2 DEF CleanWalk, WalkFrom, WalkSteps, WalkInstruction
  <2> QED BY <1>1, <1>2, <1>3, <2>1 DEF RenderInv, SkipStands
<1> QED BY <1>1, <1>5, <1>8, <1>9, <1>10 DEF RenderInv

(* A store to memory.                                                      *)
LEMMA RenderPokeStep ==
  ASSUME NEW pk \in Pokes, RenderInv, RenderPoke(pk[1], pk[2])
  PROVE  RenderInv'
<1> DEFINE a == pk[1]
           i == pk[2]
<1>1. WalkInv' /\ RenderTypes'
  <2>1. RenderNext
    BY DEF RenderNext, RenderStore
  <2>2. [Next]_vars
    BY <2>1, RenderWalks
  <2> QED BY <2>1, <2>2, WalkStep, RenderTypesStep DEF RenderInv
<1>2. /\ Storing /\ mem' = [mem EXCEPT ![a] = i] /\ pageDirty' = pageDirty \cup {Page(a)}
      /\ touched' = TRUE /\ early' = (scanline = ActiveStart)
      /\ reg' = reg /\ dma' = dma /\ dlist' = dlist /\ off' = off /\ scanline' = scanline
      /\ phase' = phase /\ cur' = cur /\ remaining' = remaining /\ jvb' = jvb
      /\ scanY' = scanY /\ screen' = screen /\ shown' = shown
      /\ regsDirty' = regsDirty /\ rendering' = rendering /\ fb' = fb
      /\ swallowed' = swallowed /\ jumped' = jumped
  BY DEF RenderPoke, Poke, Stored, pointers, modeline
<1>3. a \in Addrs /\ i \in Insts
  BY ListsAssumption
<1>4. /\ mem \in [Addrs -> Insts] /\ reg \in Addrs /\ scanline \in 0..(Lines - 1)
      /\ mem' \in [Addrs -> Insts]
  BY <1>1 DEF RenderInv, WalkInv, Types
<1> HIDE DEF a, i
<1>5. Row0First'
  <2> SUFFICES ASSUME InRow0', dma, ~regsDirty, Page(reg) \notin pageDirty'
               PROVE  At(Fetching(reg, NoAddr))'
    BY <1>2 DEF Row0First, InRow0
  <2>1. At(Fetching(reg, NoAddr))
    BY <1>2 DEF InRow0, RenderInv, Row0First
  <2>2. Fetching(reg, NoAddr)' = Fetching(reg, NoAddr)
    <3>1. PICK b \in Addrs : b = reg
      BY <1>4
    <3>2. Page(b) # Page(a)
      BY <1>2, <3>1
    <3>3. Fetching(b, NoAddr)' = Fetching(b, NoAddr)
      BY <1>2, <1>4, <3>2, PokeSpares
    <3> QED BY <1>2, <3>1, <3>3 DEF Fetching
  <2> QED BY <1>2, <2>1, <2>2 DEF At
<1>6. Row0Beginning'
  BY <1>2 DEF Row0Beginning, InRow0, RenderInv
<1>7. ASSUME NEW k \in Nat, NEW t, IsLines(t, k)', CleanTo(t, k)'
      PROVE  IsLines(t, k) /\ CleanTo(t, k)
  BY <1>2, <1>3, <1>4, <1>7, LinesBeforePoke
<1>8. RowIsLine'
  <2> SUFFICES ASSUME phase = "run", ActiveStart < scanline, scanline < VbiLine, dma, Recorded,
                      NEW t, IsLines(t, Row)', CleanTo(t, Row)'
               PROVE  At(t[Row])'
    BY <1>2 DEF RowIsLine, Recorded
  <2>1. PICK k \in Nat : k = Row /\ Row' = Row
    <3>1. Row \in Nat /\ Row' = Row
      BY <1>2, <1>4, Numbers DEF Row
    <3> QED BY <3>1
  <2>2. IsLines(t, k)' /\ CleanTo(t, k)'
    BY <2>1 DEF IsLines, CleanTo
  <2>3. At(t[k])
    BY <1>7, <2>1, <2>2 DEF RenderInv, RowIsLine
  <2>4. At(t[k])'
    BY <1>2, <2>3 DEF At
  <2> QED BY <2>1, <2>4
<1>9. RowWasLine'
  <2> SUFFICES ASSUME RowDone, dma, Recorded,
                      NEW t, IsLines(t, DoneRow)', CleanTo(t, DoneRow)'
               PROVE  FALSE
    BY <1>2 DEF RowWasLine, RowDone, DoneRow, Recorded
  <2> QED BY <1>2, <1>4, Numbers DEF RowDone, Storing
<1>10. FrameIsLines'
  <2> SUFFICES ASSUME Recorded', NEW r \in Rows, Drawn(r)'
               PROVE  /\ ~dma' => fb'[r] = Background
                      /\ dma' => \A t : IsLines(t, r)' /\ CleanTo(t, r)' /\ Known(t[r]) =>
                                            fb'[r] = PictureOf(t[r])'
    BY DEF FrameIsLines
  <2>1. Recorded /\ Drawn(r) /\ r \in Nat
    BY <1>2, Numbers DEF Recorded, Drawn, Rows
  <2>2. ASSUME dma, NEW t, IsLines(t, r)', CleanTo(t, r)', Known(t[r])
        PROVE  fb'[r] = PictureOf(t[r])'
    <3>1. IsLines(t, r) /\ CleanTo(t, r)
      BY <1>7, <2>1, <2>2
    <3>2. fb[r] = PictureOf(t[r])
      BY <2>1, <2>2, <3>1 DEF RenderInv, FrameIsLines
    <3>3. t[r] \in Places
      BY <1>4, <2>1, <3>1, LinesAreMembers
    <3>4. TouchFree(t[r])'
      BY <2>1, <2>2 DEF CleanTo
    <3>5. PictureOf(t[r])' = PictureOf(t[r])
      BY <1>2, <1>3, <1>4, <2>2, <3>3, <3>4, PictureSpared
    <3> QED BY <1>2, <3>2, <3>5
  <2> QED BY <1>2, <2>1, <2>2 DEF RenderInv, FrameIsLines
<1>11. SkipStands'
  BY <1>2 DEF SkipStands
<1> QED BY <1>1, <1>5, <1>6, <1>8, <1>9, <1>10, <1>11 DEF RenderInv

(* A store to a register.                                                  *)
LEMMA RenderRegisterStep ==
  ASSUME RenderInv, RenderStore, RegisterWritten
  PROVE  RenderInv'
<1>1. WalkInv' /\ RenderTypes'
  <2>1. RenderNext
    BY DEF RenderNext
  <2>2. [Next]_vars
    BY <2>1, RenderWalks
  <2> QED BY <2>1, <2>2, WalkStep, RenderTypesStep DEF RenderInv
<1>2. regsDirty' = TRUE /\ touched' = TRUE /\ early' = (scanline = ActiveStart)
  BY DEF RegisterWritten, Stored
<1>3. scanline' = scanline
  BY DEF RenderStore, RenderPoke, Poke, WriteDlistL, WriteDlistH, WriteDlist, WriteDmactl
<1> QED BY <1>1, <1>2, <1>3 DEF RenderInv, Row0First, Row0Beginning, InRow0, RowIsLine, RowWasLine,
        FrameIsLines, SkipStands, Recorded

LEMMA RenderStep == RenderInv /\ [RenderNext]_allvars => RenderInv'
<1> SUFFICES ASSUME RenderInv, [RenderNext]_allvars PROVE RenderInv'
  OBVIOUS
<1>1. CASE BeginLine /\ UNCHANGED rendervars
  BY <1>1, RenderBeginStep
<1>2. CASE RenderLineEnd
  BY <1>2, RenderBorderStep, RenderRow0Step, RenderRowStep
<1>3. CASE RenderStore
  BY <1>3, RenderPokeStep, RenderRegisterStep DEF RenderStore
<1>4. CASE UNCHANGED allvars
  <2>1. WalkInv' /\ RenderTypes'
    BY <1>4, WalkStutter, RenderTypesStutter DEF RenderInv, allvars
  <2>2. /\ mem' = mem /\ phase' = phase /\ scanline' = scanline /\ dlist' = dlist
        /\ off' = off /\ reg' = reg /\ dma' = dma /\ cur' = cur /\ remaining' = remaining
        /\ jvb' = jvb /\ scanY' = scanY /\ screen' = screen /\ shown' = shown
        /\ pageDirty' = pageDirty /\ regsDirty' = regsDirty /\ rendering' = rendering
        /\ fb' = fb /\ touched' = touched /\ early' = early /\ swallowed' = swallowed
        /\ jumped' = jumped
    BY <1>4 DEF allvars, vars, rendervars, stores, pointers, modeline
  <2>3. Row0First' /\ Row0Beginning'
    BY <2>2 DEF RenderInv, Row0First, Row0Beginning, InRow0, At, Fetching
  <2>4. \A t, k : /\ IsLines(t, k)' = IsLines(t, k) /\ CleanTo(t, k)' = CleanTo(t, k)
                  /\ PictureOf(t[k])' = PictureOf(t[k]) /\ At(t[k])' = At(t[k])
                  /\ At(Finishing(t[k]))' = At(Finishing(t[k]))
    BY <2>2 DEF IsLines, CleanTo, TouchFree, Following, Fetching, Finishing, PictureOf, At
  <2>5. RowIsLine'
    BY <2>2, <2>4 DEF RenderInv, RowIsLine, Row, Recorded
  <2>6. RowWasLine'
    BY <2>2, <2>4 DEF RenderInv, RowWasLine, RowDone, DoneRow, Recorded
  <2>7. FrameIsLines'
    BY <2>2, <2>4 DEF RenderInv, FrameIsLines, Drawn, Recorded
  <2>8. SkipStands'
    <3>1. \A s : CleanWalk(s)' = CleanWalk(s)
      BY <2>2 DEF CleanWalk, WalkFrom, WalkSteps, WalkInstruction
    <3> QED BY <2>2, <3>1 DEF RenderInv, SkipStands
  <2> QED BY <2>1, <2>3, <2>5, <2>6, <2>7, <2>8 DEF RenderInv
<1> QED BY <1>1, <1>2, <1>3, <1>4 DEF RenderNext

THEOREM RenderInvariant == RenderSpec => []RenderInv
  BY RenderInvInit, RenderStep, PTL DEF RenderSpec

-----------------------------------------------------------------------------
(***************************************************************************)
(* The walk of ANTIC-COLLECT-WATCHED-PAGES passes every line of the frame. *)
(***************************************************************************)

(* A line is what the walk's n-th instruction shows: where the line says   *)
(* its data are, the walk says so too; and where it does not say, the walk *)
(* is still in the heading of the list, with nothing shown so far.         *)
OnWalk(p, w, n) ==
    /\ n \in 1..MaxEntries /\ ~w[n - 1].ended
    /\ w[n - 1].at = p.from /\ p.cur = mem[p.from]
    /\ p.cur.kind \in {"blank", "show"} => p.left > 0 /\ p.y + p.left = p.cur.lines
    /\ p.cur.kind \in {"jmp", "jvb"} => p.left = 0
    /\ p.jvb <=> p.cur.kind = "jvb"
    /\ ~p.jvb => p.at = w[n].at
    /\ p.screen # NoAddr =>
         p.screen = (IF p.cur.kind = "show" THEN ScanOf(w[n - 1]) ELSE w[n - 1].scan)
    /\ p.screen = NoAddr => Heading[n - 1] = p.from /\ p.cur.kind # "show"

(* The heading stops at the first mode line it meets.                      *)
LEMMA HeadingStops ==
  ASSUME mem \in [Addrs -> Insts], reg \in Addrs, Anchored,
         NEW n \in 0..MaxEntries, mem[Heading[n]].kind = "show"
  PROVE  mem[Heading[n]].addr # NoAddr
<1> DEFINE m == MaxEntries - n
           H == {j \in 0..m : Heading[n + j] = Heading[n]}
<1>1. MaxEntries \in Nat /\ n \in Nat /\ m \in Nat /\ n + 0 = n
  BY MaxEntriesAssumption
<1>2. 0 \in H
  BY <1>1
<1>3. ASSUME NEW j \in 1..m, j - 1 \in H PROVE j \in H
  <2>1. n + j \in 1..MaxEntries /\ (n + j) - 1 = n + (j - 1)
    BY <1>1
  <2>2. Heading[n + j] = PassBy(Heading[n + (j - 1)])
    BY <2>1, HeadingIsIteration
  <2>3. PassBy(Heading[n]) = Heading[n]
    BY DEF PassBy
  <2> QED BY <1>3, <2>2, <2>3
<1>4. n + m = MaxEntries
  BY <1>1
<1> HIDE DEF H, m
<1>5. \A j \in 0..m : j \in H
  BY <1>1, <1>2, <1>3, Induction
<1>6. m \in H
  BY <1>1, <1>5
<1> QED BY <1>4, <1>6 DEF H, Anchored

(* What the walk has marked stays marked.                                  *)
LEMMA PagesStay ==
  ASSUME mem \in [Addrs -> Insts], NEW a \in Addrs, NEW s \in Addrs, NEW n \in 0..MaxEntries
  PROVE  WalkSteps(a, s)[n].pages \subseteq WalkFrom(a, s).pages
<1> DEFINE w == WalkSteps(a, s)
           m == MaxEntries - n
           H == {j \in 0..m : w[n].pages \subseteq w[n + j].pages}
<1>1. MaxEntries \in Nat /\ n \in Nat /\ m \in Nat /\ n + 0 = n
  BY MaxEntriesAssumption
<1>2. 0 \in H
  BY <1>1
<1>3. ASSUME NEW j \in 1..m, j - 1 \in H PROVE j \in H
  <2>1. n + j \in 1..MaxEntries /\ (n + j) - 1 = n + (j - 1) /\ n + (j - 1) \in 0..MaxEntries
    BY <1>1
  <2> DEFINE v == w[n + (j - 1)]
  <2>2. v \in Walks /\ w[n + j] = IF v.ended THEN v ELSE WalkInstruction(v)
    <3>1. w[n + j] = IF w[(n + j) - 1].ended THEN w[(n + j) - 1]
                     ELSE WalkInstruction(w[(n + j) - 1])
      BY <2>1, WalkIsIteration
    <3>2. v \in Walks
      BY <2>1, WalkIsIteration
    <3> QED BY <2>1, <3>1, <3>2
  <2> HIDE DEF v
  <2>3. v.pages \subseteq w[n + j].pages
    BY <2>2, WalkInstructionFields
  <2> QED BY <1>3, <2>3 DEF v
<1>4. n + m = MaxEntries
  BY <1>1
<1> HIDE DEF H, m, w
<1>5. \A j \in 0..m : j \in H
  BY <1>1, <1>2, <1>3, Induction
<1>6. m \in H
  BY <1>1, <1>5
<1>7. w[n].pages \subseteq w[MaxEntries].pages
  BY <1>4, <1>6 DEF H
<1> QED BY <1>7 DEF w, WalkFrom

(* The walk's next instruction begins the line that fetches it.            *)
LEMMA FetchOnWalk ==
  ASSUME mem \in [Addrs -> Insts], reg \in Addrs, Anchored, NEW s \in Addrs,
         NEW n \in 1..MaxEntries, ~WalkSteps(reg, s)[n - 1].ended,
         NEW a, a = WalkSteps(reg, s)[n - 1].at, NEW d \in Addrs \cup {NoAddr},
         d # NoAddr => d = WalkSteps(reg, s)[n - 1].scan,
         d = NoAddr => Heading[n - 1] = a
  PROVE  OnWalk(Fetching(a, d), WalkSteps(reg, s), n)
<1> DEFINE w == WalkSteps(reg, s)
           v == w[n - 1]
           p == Fetching(a, d)
<1>1. n - 1 \in 0..MaxEntries
  BY MaxEntriesAssumption
<1>2. v \in Walks /\ w[n] = WalkInstruction(v)
  BY <1>1, WalkIsIteration
<1>3. v.at = a /\ a \in Addrs
  BY <1>2 DEF Walks
<1> HIDE DEF v, w
<1>4. ~v.ended /\ (d # NoAddr => d = v.scan)
  BY DEF v, w
<1>5. /\ mem[a].kind \in {"blank", "show", "jmp", "jvb"}
      /\ mem[a].kind \in {"blank", "show"} => mem[a].lines \in Nat \ {0}
      /\ mem[a].kind \in {"jmp", "jvb"} => mem[a].lines = 0
  <2>1. mem[a] \in Insts
    BY <1>3
  <2>2. 1..MaxLines \subseteq Nat \ {0}
    BY Numbers
  <2> QED BY <2>1, <2>2, InstFields
<1>6. /\ p.from = a /\ p.cur = mem[a] /\ p.left = mem[a].lines /\ p.y = 0
      /\ p.jvb = (mem[a].kind = "jvb")
      /\ p.at = IF mem[a].kind \in {"jmp", "jvb"} THEN mem[a].addr ELSE (a + 1) % MemSize
      /\ p.screen = IF mem[a].kind = "show" /\ mem[a].addr # NoAddr THEN mem[a].addr ELSE d
  BY DEF Fetching
<1> HIDE DEF p
<1>7. ~p.jvb => p.at = w[n].at
  <2> SUFFICES ASSUME mem[a].kind # "jvb" PROVE p.at = w[n].at
    BY <1>6
  <2>1. /\ mem[a].kind = "jmp" => w[n].at = mem[a].addr
        /\ mem[a].kind \in {"blank", "show"} => w[n].at = (a + 1) % MemSize
    BY <1>2, <1>3, <1>4, WalkInstructionFields
  <2> QED BY <1>5, <1>6, <2>1
<1>8. p.screen # NoAddr =>
        p.screen = (IF p.cur.kind = "show" THEN ScanOf(v) ELSE v.scan)
  BY <1>3, <1>4, <1>6 DEF ScanOf
<1>9. p.screen = NoAddr => Heading[n - 1] = p.from /\ p.cur.kind # "show"
  <2> SUFFICES ASSUME p.screen = NoAddr PROVE Heading[n - 1] = p.from /\ p.cur.kind # "show"
    OBVIOUS
  <2>1. d = NoAddr \/ mem[a].kind = "show"
    BY <1>6
  <2>2. mem[a].kind = "show" => mem[a].addr = NoAddr /\ d = NoAddr
    BY <1>6
  <2>3. Heading[n - 1] = a
    BY <2>1, <2>2
  <2>4. mem[a].kind # "show"
    BY <1>1, <2>2, <2>3, HeadingStops
  <2> QED BY <1>6, <2>3, <2>4
<1>10. /\ p.cur.kind \in {"blank", "show"} => p.left > 0 /\ p.y + p.left = p.cur.lines
       /\ p.cur.kind \in {"jmp", "jvb"} => p.left = 0
       /\ p.jvb <=> p.cur.kind = "jvb"
       /\ p.cur = mem[p.from] /\ v.at = p.from
  <2>1. p.jvb <=> p.cur.kind = "jvb"
    BY <1>6, Zenon
  <2>2. p.cur = mem[p.from] /\ v.at = p.from
    BY <1>3, <1>6
  <2> QED BY <1>5, <1>6, <2>1, <2>2
<1>11. OnWalk(p, w, n)
  BY <1>4, <1>7, <1>8, <1>9, <1>10 DEF OnWalk, v
<1> QED BY <1>11 DEF p, w

(* From line to line: within a mode line the walk stays where it is, and   *)
(* where one ends it has the instruction that follows.                     *)
LEMMA FollowOnWalk ==
  ASSUME mem \in [Addrs -> Insts], reg \in Addrs, Anchored, NEW s \in Addrs,
         WalkFrom(reg, s).ended, NEW p \in Places, NEW n, OnWalk(p, WalkSteps(reg, s), n)
  PROVE  \E m : OnWalk(Following(p), WalkSteps(reg, s), m)
<1> DEFINE w == WalkSteps(reg, s)
           v == w[n - 1]
           q == Finishing(p)
<1>1. n \in 1..MaxEntries /\ n - 1 \in 0..MaxEntries /\ n \in 0..MaxEntries
  BY MaxEntriesAssumption DEF OnWalk
<1>2. v \in Walks /\ ~v.ended /\ w[n] \in Walks /\ w[n] = WalkInstruction(v)
  <2>1. /\ w \in [0..MaxEntries -> Walks]
        /\ \A k \in 1..MaxEntries :
             w[k] = IF w[k - 1].ended THEN w[k - 1] ELSE WalkInstruction(w[k - 1])
    BY WalkIsIteration
  <2>2. ~w[n - 1].ended
    BY DEF OnWalk
  <2> HIDE DEF w
  <2> QED BY <1>1, <2>1, <2>2
<1> HIDE DEF w, v
<1>3. /\ v.at = p.from /\ p.cur = mem[v.at]
      /\ p.cur.kind \in {"blank", "show"} => p.left > 0 /\ p.y + p.left = p.cur.lines
      /\ p.cur.kind \in {"jmp", "jvb"} => p.left = 0
      /\ p.jvb <=> p.cur.kind = "jvb"
      /\ ~p.jvb => p.at = w[n].at
      /\ p.screen # NoAddr =>
           p.screen = (IF p.cur.kind = "show" THEN ScanOf(v) ELSE v.scan)
      /\ p.screen = NoAddr => Heading[n - 1] = p.from /\ p.cur.kind # "show"
  BY DEF OnWalk, w, v
<1>4. /\ p.from \in Addrs /\ p.at \in Addrs /\ p.left \in Nat /\ p.y \in Nat
      /\ p.screen \in Addrs \cup {NoAddr} /\ p.jvb \in BOOLEAN
      /\ p.cur.kind \in {"blank", "show", "jmp", "jvb"}
      /\ p.cur.kind \in {"blank", "show"} => p.cur.lines \in Nat \ {0}
      /\ p.cur.kind \in {"jmp", "jvb"} => p.cur.lines = 0
  BY PlaceFields
<1>5. /\ q.from = p.from /\ q.at = p.at /\ q.cur = p.cur /\ q.jvb = p.jvb
      /\ q.left = (IF p.left > 0 THEN p.left - 1 ELSE 0)
      /\ q.y = (IF p.cur.lines = 0 THEN 0 ELSE (p.y + 1) % p.cur.lines)
      /\ q.screen = IF p.cur.kind = "show" /\ p.y + 1 = p.cur.lines /\ p.screen # NoAddr
                    THEN (p.screen + RowBytes) % MemSize ELSE p.screen
  BY DEF Finishing
<1>6. q.screen \in Addrs \cup {NoAddr}
  BY FinishingType, PlaceFields
<1> HIDE DEF q
<1>7. CASE q.left = 0 /\ ~p.jvb
  <2>1. Following(p) = Fetching(p.at, q.screen)
    BY <1>7 DEF Following, q
  <2>2. w[n].ended = FALSE
    <3>1. mem[v.at].kind # "jvb"
      BY <1>3, <1>7, Zenon
    <3>2. WalkInstruction(v).ended = (mem[v.at].kind = "jvb")
      BY <1>2, WalkInstructionFields
    <3> QED BY <1>2, <3>1, <3>2, Zenon
  <2>3. n + 1 \in 1..MaxEntries /\ (n + 1) - 1 = n
    <3>1. n # MaxEntries
      BY <2>2 DEF WalkFrom, w
    <3> QED BY <1>1, <3>1, MaxEntriesAssumption
  <2>4. w[n].at = p.at
    BY <1>3, <1>7
  <2>5. q.screen # NoAddr => q.screen = w[n].scan
    <3> SUFFICES ASSUME q.screen # NoAddr PROVE q.screen = w[n].scan
      OBVIOUS
    <3>1. p.screen # NoAddr
      BY <1>5
    <3>2. CASE p.cur.kind = "show"
      <4>1. p.y + 1 = p.cur.lines
        BY <1>3, <1>4, <1>5, <1>7, <3>2
      <4>2. w[n].scan = (ScanOf(v) + RowBytes) % MemSize
        BY <1>2, <1>3, <3>2, WalkInstructionFields
      <4> QED BY <1>3, <1>5, <3>1, <3>2, <4>1, <4>2
    <3>3. CASE p.cur.kind # "show"
      <4>1. p.cur.kind \in {"blank", "jmp"}
        BY <1>3, <1>4, <1>7, <3>3
      <4>2. w[n].scan = v.scan
        BY <1>2, <1>3, <4>1, WalkInstructionFields
      <4> QED BY <1>3, <1>5, <3>1, <3>3, <4>2
    <3> QED BY <3>2, <3>3
  <2>6. q.screen = NoAddr => Heading[n] = p.at
    <3> SUFFICES ASSUME q.screen = NoAddr PROVE Heading[n] = p.at
      OBVIOUS
    <3>1. p.screen = NoAddr
      <4>1. p.screen \in Addrs => (p.screen + RowBytes) % MemSize \in Addrs
        BY Numbers, OnwardAddr
      <4>2. p.screen \in Addrs => q.screen \in Addrs
        BY <1>5, <4>1
      <4> QED BY <1>4, <4>2, AddrWraps
    <3>2. Heading[n] = PassBy(p.from) /\ p.cur.kind \in {"blank", "jmp"}
      BY <1>1, <1>3, <1>4, <1>7, <3>1, HeadingIsIteration
    <3>3. PassBy(p.from) = w[n].at
      BY <1>2, <1>3, <3>2, WalkInstructionFields DEF PassBy
    <3> QED BY <2>4, <3>2, <3>3
  <2>7. PICK m : m = n + 1
    OBVIOUS
  <2>8. /\ m \in 1..MaxEntries /\ ~w[m - 1].ended /\ p.at = w[m - 1].at
        /\ q.screen # NoAddr => q.screen = w[m - 1].scan
        /\ q.screen = NoAddr => Heading[m - 1] = p.at
    BY <2>2, <2>3, <2>4, <2>5, <2>6, <2>7
  <2>9. OnWalk(Fetching(p.at, q.screen), w, m)
    BY <1>6, <2>8, FetchOnWalk DEF w
  <2> QED BY <2>1, <2>9 DEF w
<1>8. CASE ~(q.left = 0 /\ ~p.jvb)
  <2>1. Following(p) = q
    BY <1>8 DEF Following, q
  <2>2. q.cur.kind \in {"blank", "show"} =>
          /\ q.left > 0 /\ q.y + q.left = q.cur.lines /\ q.screen = p.screen
    <3> SUFFICES ASSUME p.cur.kind \in {"blank", "show"}
                 PROVE  q.left > 0 /\ q.y + q.left = p.cur.lines /\ q.screen = p.screen
      BY <1>5
    <3>1. q.left > 0 /\ q.left = p.left - 1
      BY <1>3, <1>4, <1>5, <1>8
    <3>2. p.y + 1 < p.cur.lines
      BY <1>3, <1>4, <3>1
    <3>3. q.y = p.y + 1
      BY <1>4, <1>5, <3>2, NextWithin
    <3> QED BY <1>3, <1>4, <1>5, <3>1, <3>2, <3>3
  <2>3. q.cur.kind \in {"jmp", "jvb"} => q.left = 0 /\ q.screen = p.screen
    BY <1>3, <1>5
  <2>4. OnWalk(q, w, n)
    BY <1>1, <1>2, <1>3, <1>4, <1>5, <2>2, <2>3 DEF OnWalk, v
  <2> QED BY <2>1, <2>4 DEF w
<1> QED BY <1>7, <1>8

(* A line that the walk passes is free of stores when the walk is clean.   *)
LEMMA OnWalkTouchFree ==
  ASSUME mem \in [Addrs -> Insts], reg \in Addrs, NEW s \in Addrs, CleanWalk(s),
         NEW p \in Places, NEW n, OnWalk(p, WalkSteps(reg, s), n)
  PROVE  TouchFree(p) /\ Known(p)
<1> DEFINE w == WalkSteps(reg, s)
           v == w[n - 1]
<1>1. n \in 1..MaxEntries /\ n - 1 \in 0..MaxEntries /\ n \in 0..MaxEntries
  BY MaxEntriesAssumption DEF OnWalk
<1>2. v \in Walks /\ ~v.ended /\ w[n] = WalkInstruction(v)
  BY <1>1, WalkIsIteration DEF OnWalk
<1>3. w[n].pages \cap pageDirty = {}
  BY <1>1, PagesStay DEF CleanWalk
<1>4. /\ v.at = p.from /\ p.cur = mem[v.at]
      /\ p.screen # NoAddr /\ p.cur.kind = "show" => p.screen = ScanOf(v)
      /\ p.screen = NoAddr => p.cur.kind # "show"
  BY DEF OnWalk
<1> HIDE DEF w, v
<1>5. Page(p.from) \in w[n].pages
  BY <1>2, <1>4, WalkInstructionFields
<1>6. p.cur.kind = "show" => RowPages(ScanOf(v)) \subseteq w[n].pages
  BY <1>2, <1>4, WalkInstructionFields
<1> QED BY <1>3, <1>4, <1>5, <1>6 DEF TouchFree, Known

(* So every line of a frame is passed by a walk that met the list's end.   *)
LEMMA WalkPassesLines ==
  ASSUME mem \in [Addrs -> Insts], reg \in Addrs, Anchored, NEW s \in Addrs, CleanWalk(s),
         NEW k \in Nat, NEW t, IsLines(t, k)
  PROVE  CleanTo(t, k) /\ Known(t[k])
<1> DEFINE w == WalkSteps(reg, s)
           H == {j \in 0..k : \E n : OnWalk(t[j], w, n)}
<1>1. \A j \in 0..k : t[j] \in Places
  BY LinesAreMembers
<1>2. w[0] = WalkStart(reg, s) /\ w[MaxEntries].ended /\ WalkFrom(reg, s).ended
  BY WalkIsIteration DEF CleanWalk, WalkFrom
<1>3. 0 \in H
  <2>1. ~w[0].ended /\ w[0].at = reg
    BY <1>2 DEF WalkStart
  <2>2. 1 \in 1..MaxEntries /\ 1 - 1 = 0
    <3> HIDE DEF w
    <3>1. MaxEntries # 0
      BY <1>2, <2>1
    <3> QED BY <3>1, MaxEntriesAssumption
  <2>3. Heading[0] = reg
    BY HeadingIsIteration
  <2>4. PICK a : a = reg
    OBVIOUS
  <2>5. PICK n : n = 1
    OBVIOUS
  <2>6. PICK d \in Addrs \cup {NoAddr} : d = NoAddr
    OBVIOUS
  <2>7. /\ n \in 1..MaxEntries /\ ~w[n - 1].ended /\ a = w[n - 1].at
        /\ d # NoAddr => d = w[n - 1].scan
        /\ d = NoAddr => Heading[n - 1] = a
    BY <2>1, <2>2, <2>3, <2>4, <2>5, <2>6
  <2>8. OnWalk(Fetching(a, d), w, n)
    BY <2>7, FetchOnWalk
  <2>9. t[0] = Fetching(a, d)
    BY <2>4, <2>6 DEF IsLines
  <2> HIDE DEF w
  <2> QED BY <2>8, <2>9
<1>4. ASSUME NEW j \in 1..k, j - 1 \in H PROVE j \in H
  <2>1. PICK n : OnWalk(t[j - 1], w, n)
    BY <1>4
  <2>2. t[j - 1] \in Places /\ t[j] = Following(t[j - 1])
    BY <1>1 DEF IsLines
  <2>3. \E m : OnWalk(Following(t[j - 1]), w, m)
    BY <1>2, <2>1, <2>2, FollowOnWalk
  <2> HIDE DEF w
  <2> QED BY <2>2, <2>3
<1> HIDE DEF H
<1>5. \A j \in 0..k : j \in H
  BY <1>3, <1>4, Induction
<1>6. ASSUME NEW j \in 0..k PROVE TouchFree(t[j]) /\ Known(t[j])
  <2>1. PICK n : OnWalk(t[j], w, n)
    BY <1>5 DEF H
  <2> QED BY <1>1, <2>1, OnWalkTouchFree
<1> QED BY <1>6 DEF CleanTo

(***************************************************************************)
(* What the invariant says of a frame left undrawn.                        *)
(***************************************************************************)
LEMMA SkippedFrame == RenderInv => SkipSoundIfAnchored
<1> SUFFICES ASSUME RenderInv, Anchored, ~jumped, ~swallowed, RowDone, ~rendering, ~touched
             PROVE  fb[DoneRow] = Picture(scanY)
  BY DEF SkipSoundIfAnchored, SkipIsSound
<1>1. mem \in [Addrs -> Insts] /\ reg \in Addrs /\ scanline \in 0..(Lines - 1)
  BY DEF RenderInv, WalkInv, Types
<1>2. /\ DoneRow \in Nat /\ DoneRow \in Rows /\ Drawn(DoneRow)
      /\ scanline > ActiveStart
  BY <1>1, Numbers DEF RowDone, DoneRow, Rows, Drawn
<1>3. Recorded /\ (dma => \E s \in Addrs : CleanWalk(s))
  BY <1>2 DEF RenderInv, SkipStands, Recorded
<1>4. CASE ~dma
  BY <1>2, <1>3, <1>4, BlankPicture DEF RenderInv, FrameIsLines
<1>5. CASE dma
  <2>1. PICK s \in Addrs : CleanWalk(s)
    BY <1>3, <1>5
  <2>2. PICK k \in Nat : k = DoneRow
    BY <1>2
  <2>3. PICK t : IsLines(t, k)
    BY <1>1, LinesExist
  <2>4. CleanTo(t, k) /\ Known(t[k]) /\ t[k] \in Places
    BY <1>1, <2>1, <2>3, WalkPassesLines, LinesAreMembers
  <2>5. fb[k] = PictureOf(t[k])
    BY <1>2, <1>3, <1>5, <2>2, <2>3, <2>4 DEF RenderInv, FrameIsLines
  <2>6. At(Finishing(t[k])) /\ (t[k].screen # NoAddr => shown = t[k].screen)
    BY <1>3, <1>5, <2>2, <2>3, <2>4 DEF RenderInv, RowWasLine
  <2>7. /\ cur = t[k].cur
        /\ t[k].cur.kind = "show" => scanY = Finishing(t[k]).y
    BY <2>6 DEF At, Finishing
  <2>8. Picture(scanY) = PictureOf(t[k])
    BY <1>5, <2>4, <2>6, <2>7 DEF Picture, PictureOf, Known
  <2> QED BY <2>2, <2>5, <2>8
<1> QED BY <1>4, <1>5

(* A frame left undrawn, and not stored to after the decision, would have  *)
(* come out as the framebuffer holds it, for every list whose first mode   *)
(* line shown says where its data are, when row 0 was no jump and the last *)
(* full render forgot no store (MACHINE-DISPLAY-CHANGED-SINCE-RENDER-P,    *)
(* ANTIC-COLLECT-WATCHED-PAGES).                                           *)
THEOREM SkippedFramesAreSound == RenderSpec => []SkipSoundIfAnchored
  BY SkippedFrame, RenderInvariant, PTL

=============================================================================
