--------------------------- MODULE VideoGateProofs ---------------------------
(***************************************************************************)
(* Proofs about the video path, for every number of viewers and rows.      *)
(*                                                                         *)
(* The two hard facts are HoledIsGuarded: a framebuffer with a hole can    *)
(* only be pushed past the request for a full render, so that a push that  *)
(* finds no request finds no hole; and Tracks: a framebuffer without a     *)
(* hole and with a clean dirty map is what the machine displays.           *)
(***************************************************************************)
EXTENDS VideoGate, TLAPS

PushStates == {"snapshot", "check", "dedup", "mark", "send"}

(* Phases of a frame.                                                      *)
Phases ==
    /\ epc = "row" => beam < NRows
    /\ epc \in {"decide", "clear"} => beam = 0
    /\ epc \in PushStates => beam = NRows
    /\ epc = "clear" /\ dirty => renderP

(* Before the next push, either nobody is there to receive it or the full  *)
(* render is, or is about to be, asked for.                                *)
Guarded == \/ needs \/ ~active \/ clients = {}
           \/ \E c \in Conns : conn[c] = "opening"

HoledIsGuarded == holed /\ ~lost => Guarded

(* A framebuffer the cached payload does not show is either still being    *)
(* drawn and compared in this frame, or guarded.                           *)
Unsent == valid /\ fb # prev /\ ~lost

UnsentIsGuarded == Unsent => Guarded \/ (renderThis /\ beam > 0)

(* The row that the current frame vouches for.                             *)
Vouched(r) == renderThis => r < beam

Tracks ==
    ~holed => \A r \in Rows :
        /\ beam = 0 /\ ~dirty => fb[r] = pic
        /\ beam > 0 /\ Vouched(r) => /\ fb[r] \in shown
                                     /\ ~dirty => fb[r] = pic

(* What the push knows after each of its own tests.                        *)
PushKnows ==
    /\ epc = "check" => /\ holed /\ ~lost => needs
                        /\ Unsent => needs \/ renderThis
    /\ epc = "dedup" => /\ ~holed \/ lost
                        /\ Unsent => renderThis
    /\ epc = "mark"  => fb = prev /\ (~holed \/ lost)
    /\ epc = "send" /\ ~lost => fb = prev /\ ~holed

IInv == /\ TypeOK
        /\ Phases
        /\ clients # {} => active
        /\ payload = prev
        /\ pic \in shown
        /\ HoledIsGuarded
        /\ UnsentIsGuarded
        /\ Tracks
        /\ PushKnows

(* Nobody watches, so the blank framebuffer is guarded.                    *)
LEMMA InitIInv == Init => IInv
<1> SUFFICES ASSUME Init PROVE IInv
  OBVIOUS
<1>1. TypeOK
  <2>1. fb \in Image /\ prev \in Image /\ payload \in Image
    BY DEF Init, Image
  <2>2. beam \in 0..NRows
    BY NRowsAssumption DEF Init
  <2>3. QED BY <2>1, <2>2 DEF Init, TypeOK
<1>2. Phases /\ Tracks /\ PushKnows
  BY NRowsAssumption DEF Init, Phases, Tracks, PushKnows, PushStates
<1>3. HoledIsGuarded /\ UnsentIsGuarded
  BY DEF Init, HoledIsGuarded, UnsentIsGuarded, Guarded
<1>4. QED BY <1>1, <1>2, <1>3 DEF IInv, Init

(* The steps of the viewers' threads.  None of them draws or decides, so   *)
(* only what they guard is at stake.                                       *)
LEMMA ConnStep ==
    ASSUME IInv, NEW c \in Conns,
           Connect(c) \/ AskFullRender(c) \/ Disconnect(c) \/ CloseGate(c)
    PROVE  IInv'
<1>1. /\ UNCHANGED <<renderThis, fb, prev, payload, epc, beam, renderP, targets,
                     pic, dirty, shown, holed, lost>>
      /\ needs => needs'
      /\ valid' => valid
  BY DEF Connect, AskFullRender, Disconnect, CloseGate, Emulator, IInv, TypeOK
<1>2. TypeOK'
  <2>1. /\ clients' \subseteq Conns /\ active' \in BOOLEAN /\ needs' \in BOOLEAN
        /\ valid' \in BOOLEAN /\ got' \subseteq Conns
    BY DEF Connect, AskFullRender, Disconnect, CloseGate, IInv, TypeOK
  <2>2. conn' \in [Conns -> {"out", "opening", "in", "leaving"}]
    BY DEF Connect, AskFullRender, Disconnect, CloseGate, IInv, TypeOK
  <2>3. QED BY <1>1, <2>1, <2>2 DEF IInv, TypeOK
<1>3. clients' # {} => active'
  BY DEF Connect, AskFullRender, Disconnect, CloseGate, IInv
<1>4. Guarded => Guarded'
  <2>1. CASE Connect(c)
    BY <2>1 DEF Connect, Guarded, IInv, TypeOK
  <2>2. CASE AskFullRender(c)
    BY <2>2 DEF AskFullRender, Guarded
  <2>3. CASE Disconnect(c)
    BY <2>3 DEF Disconnect, Guarded
  <2>4. CASE CloseGate(c)
    BY <2>4 DEF CloseGate, Guarded, IInv
  <2>5. QED BY <2>1, <2>2, <2>3, <2>4
<1>5. Phases' /\ Tracks' /\ payload' = prev' /\ pic' \in shown'
  BY <1>1 DEF IInv, Phases, Tracks, Vouched
<1>6. HoledIsGuarded' /\ UnsentIsGuarded'
  BY <1>1, <1>4 DEF IInv, HoledIsGuarded, UnsentIsGuarded, Unsent
<1>7. PushKnows'
  BY <1>1 DEF IInv, PushKnows, Unsent
<1>8. QED BY <1>2, <1>3, <1>5, <1>6, <1>7 DEF IInv

(* A write dirties the map, and adds to what was shown.                    *)
LEMMA WriteStep ==
    ASSUME IInv, Write
    PROVE  IInv'
<1>1. TypeOK'
  BY DEF Write, gate, image, IInv, TypeOK
<1>2. Phases' /\ (clients' # {} => active') /\ payload' = prev' /\ pic' \in shown'
  BY DEF Write, gate, image, IInv, Phases
<1>3. HoledIsGuarded'
  BY DEF Write, gate, IInv, HoledIsGuarded, Guarded
<1>4. UnsentIsGuarded'
  BY DEF Write, gate, image, IInv, UnsentIsGuarded, Unsent, Guarded
<1>5. Tracks'
  BY DEF Write, image, IInv, Tracks, Vouched
<1>6. PushKnows'
  BY DEF Write, PushKnows
<1>7. QED BY <1>1, <1>2, <1>3, <1>4, <1>5, <1>6 DEF IInv

(* The gate was closed when the row passed: that is what guards the hole.  *)
LEMMA SkipRowStep ==
    ASSUME IInv, SkipRow
    PROVE  IInv'
<1>1. TypeOK'
  BY NRowsAssumption
     DEF SkipRow, gate, image, world, NextRow, IInv, TypeOK, Phases
<1>2. Phases' /\ (clients' # {} => active') /\ payload' = prev' /\ pic' \in shown'
  BY NRowsAssumption
     DEF SkipRow, gate, image, world, NextRow, IInv, TypeOK, Phases
<1>3. HoledIsGuarded'
  BY DEF SkipRow, gate, HoledIsGuarded, Guarded
<1>4. UnsentIsGuarded'
  BY DEF SkipRow, gate, UnsentIsGuarded, Guarded
<1>5. Tracks'
  BY DEF SkipRow, Tracks
<1>6. PushKnows'
  BY DEF SkipRow, NextRow, PushKnows
<1>7. QED BY <1>1, <1>2, <1>3, <1>4, <1>5, <1>6 DEF IInv

(* A new frame: only the present picture counts as shown.                  *)
LEMMA EnterRowZeroStep ==
    ASSUME IInv, EnterRowZero
    PROVE  IInv'
<1>1. TypeOK'
  BY DEF EnterRowZero, gate, image, world, IInv, TypeOK
<1>2. Phases' /\ (clients' # {} => active') /\ payload' = prev' /\ pic' \in shown'
  BY DEF EnterRowZero, gate, image, world, IInv, Phases, PushStates
<1>3. HoledIsGuarded'
  BY DEF EnterRowZero, gate, IInv, HoledIsGuarded, Guarded
<1>4. UnsentIsGuarded'
  BY DEF EnterRowZero, gate, image, IInv, UnsentIsGuarded, Unsent, Guarded
<1>5. Tracks'
  BY DEF EnterRowZero, image, world, IInv, Tracks
<1>6. PushKnows'
  BY DEF EnterRowZero, PushKnows
<1>7. QED BY <1>1, <1>2, <1>3, <1>4, <1>5, <1>6 DEF IInv

(* A dirty map always decides for rendering.                               *)
LEMMA DecideStep ==
    ASSUME IInv, Decide
    PROVE  IInv'
<1>1. TypeOK'
  BY DEF Decide, gate, image, world, IInv, TypeOK
<1>2. Phases' /\ (clients' # {} => active') /\ payload' = prev' /\ pic' \in shown'
  BY DEF Decide, gate, image, world, IInv, Phases, PushStates
<1>3. HoledIsGuarded'
  BY DEF Decide, gate, IInv, HoledIsGuarded, Guarded
<1>4. UnsentIsGuarded'
  BY DEF Decide, gate, image, IInv, UnsentIsGuarded, Unsent, Guarded
<1>5. Tracks'
  BY DEF Decide, image, world, IInv, Tracks, Vouched
<1>6. PushKnows'
  BY DEF Decide, PushKnows
<1>7. QED BY <1>1, <1>2, <1>3, <1>4, <1>5, <1>6 DEF IInv

(* The request may go: either the frame is being rendered from its first   *)
(* row, or there was none to clear, or it is lost.                         *)
LEMMA ClearAndDrawStep ==
    ASSUME IInv, ClearAndDraw
    PROVE  IInv'
<1>1. TypeOK'
  <2>1. beam = 0 /\ 0 \in Rows
    BY NRowsAssumption DEF ClearAndDraw, IInv, Phases, Rows
  <2>2. fb' \in Image
    BY DEF ClearAndDraw, IInv, TypeOK, Image
  <2>3. beam' \in 0..NRows /\ epc' \in {"snapshot", "row"}
    BY <2>1, NRowsAssumption DEF ClearAndDraw, NextRow
  <2>4. QED BY <2>2, <2>3 DEF ClearAndDraw, IInv, TypeOK
<1>2. Phases' /\ (clients' # {} => active') /\ payload' = prev' /\ pic' \in shown'
  BY NRowsAssumption DEF ClearAndDraw, NextRow, IInv, Phases, PushStates
<1>3. HoledIsGuarded'
  BY DEF ClearAndDraw, IInv, HoledIsGuarded, Guarded
<1>4. UnsentIsGuarded'
  BY DEF ClearAndDraw, NextRow, IInv, TypeOK, Phases, UnsentIsGuarded, Unsent,
         Guarded
<1>5. Tracks'
  BY DEF ClearAndDraw, NextRow, IInv, TypeOK, Phases, Tracks, Vouched, Rows,
         Image
<1>6. PushKnows'
  BY DEF ClearAndDraw, NextRow, PushKnows
<1>7. QED BY <1>1, <1>2, <1>3, <1>4, <1>5, <1>6 DEF IInv

(* The row drawn is the machine's present picture.                         *)
LEMMA DrawRowStep ==
    ASSUME IInv, DrawRow
    PROVE  IInv'
<1>1. TypeOK'
  <2>1. beam \in Rows
    BY NRowsAssumption DEF DrawRow, IInv, TypeOK, Phases, Rows
  <2>2. fb' \in Image
    BY DEF DrawRow, IInv, TypeOK, Image
  <2>3. beam' \in 0..NRows /\ epc' \in {"snapshot", "row"}
    BY <2>1, NRowsAssumption DEF DrawRow, NextRow, Rows
  <2>4. QED BY <2>2, <2>3 DEF DrawRow, gate, world, IInv, TypeOK
<1>2. Phases' /\ (clients' # {} => active') /\ payload' = prev' /\ pic' \in shown'
  BY NRowsAssumption DEF DrawRow, gate, world, NextRow, IInv, TypeOK, Phases
<1>3. HoledIsGuarded'
  BY DEF DrawRow, gate, IInv, HoledIsGuarded, Guarded
<1>4. UnsentIsGuarded'
  BY DEF DrawRow, gate, NextRow, IInv, TypeOK, UnsentIsGuarded, Unsent, Guarded
<1>5. Tracks'
  BY DEF DrawRow, world, NextRow, IInv, TypeOK, Tracks, Vouched, Rows, Image
<1>6. PushKnows'
  BY DEF DrawRow, NextRow, PushKnows
<1>7. QED BY <1>1, <1>2, <1>3, <1>4, <1>5, <1>6 DEF IInv

(* Under the lock, with a viewer present, only a pending request guards.   *)
LEMMA SnapshotStep ==
    ASSUME IInv, Snapshot
    PROVE  IInv'
<1>1. TypeOK'
  BY NRowsAssumption DEF Snapshot, Pushing, StartFrame, IInv, TypeOK
<1>2. Phases' /\ (clients' # {} => active') /\ payload' = prev' /\ pic' \in shown'
  BY NRowsAssumption
     DEF Snapshot, Pushing, StartFrame, IInv, Phases, PushStates
<1>3. HoledIsGuarded'
  BY DEF Snapshot, Pushing, IInv, HoledIsGuarded, Guarded
<1>4. UnsentIsGuarded'
  BY DEF Snapshot, Pushing, IInv, UnsentIsGuarded, Unsent, Guarded
<1>5. Tracks'
  BY NRowsAssumption
     DEF Snapshot, Pushing, IInv, Phases, PushStates, Tracks, Vouched, Rows
<1>6. PushKnows'
  BY DEF Snapshot, Pushing, StartFrame, IInv, PushKnows, Unsent,
         HoledIsGuarded, UnsentIsGuarded, Guarded, LockFree
<1>7. QED BY <1>1, <1>2, <1>3, <1>4, <1>5, <1>6 DEF IInv

(* Past this test the request is known to be absent.                       *)
LEMMA CheckNeedsStep ==
    ASSUME IInv, CheckNeeds
    PROVE  IInv'
<1>1. TypeOK'
  BY NRowsAssumption DEF CheckNeeds, Pushing, StartFrame, IInv, TypeOK
<1>2. Phases' /\ (clients' # {} => active') /\ payload' = prev' /\ pic' \in shown'
  BY NRowsAssumption
     DEF CheckNeeds, Pushing, StartFrame, IInv, Phases, PushStates
<1>3. HoledIsGuarded'
  BY DEF CheckNeeds, Pushing, IInv, HoledIsGuarded, Guarded
<1>4. UnsentIsGuarded'
  BY DEF CheckNeeds, Pushing, IInv, UnsentIsGuarded, Unsent, Guarded
<1>5. Tracks'
  BY NRowsAssumption
     DEF CheckNeeds, Pushing, IInv, Phases, PushStates, Tracks, Vouched, Rows
<1>6. PushKnows'
  BY DEF CheckNeeds, Pushing, StartFrame, IInv, PushKnows, Unsent
<1>7. QED BY <1>1, <1>2, <1>3, <1>4, <1>5, <1>6 DEF IInv

(* Compared or converted, the payload is the framebuffer.                  *)
LEMMA DedupStep ==
    ASSUME IInv, Dedup
    PROVE  IInv'
<1>1. TypeOK'
  BY DEF Dedup, Pushing, IInv, TypeOK
<1>2. Phases' /\ (clients' # {} => active') /\ payload' = prev' /\ pic' \in shown'
  BY DEF Dedup, Pushing, IInv, Phases, PushStates
<1>3. HoledIsGuarded'
  BY DEF Dedup, Pushing, IInv, HoledIsGuarded, Guarded
<1>4. UnsentIsGuarded'
  BY DEF Dedup, Pushing, IInv, UnsentIsGuarded, Unsent, Guarded
<1>5. Tracks'
  BY DEF Dedup, Pushing, IInv, Tracks, Vouched
<1>6. PushKnows'
  BY DEF Dedup, Pushing, Unchanged, IInv, PushKnows, Unsent
<1>7. QED BY <1>1, <1>2, <1>3, <1>4, <1>5, <1>6 DEF IInv

(* The payload is marked valid when it is.                                 *)
LEMMA MarkValidStep ==
    ASSUME IInv, MarkValid
    PROVE  IInv'
<1>1. TypeOK'
  BY DEF MarkValid, Pushing, IInv, TypeOK
<1>2. Phases' /\ (clients' # {} => active') /\ payload' = prev' /\ pic' \in shown'
  BY DEF MarkValid, Pushing, IInv, Phases, PushStates
<1>3. HoledIsGuarded'
  BY DEF MarkValid, Pushing, IInv, HoledIsGuarded, Guarded
<1>4. UnsentIsGuarded'
  BY DEF MarkValid, Pushing, IInv, UnsentIsGuarded, PushKnows, Unsent
<1>5. Tracks'
  BY DEF MarkValid, Pushing, IInv, Tracks, Vouched
<1>6. PushKnows'
  BY DEF MarkValid, Pushing, IInv, PushKnows
<1>7. QED BY <1>1, <1>2, <1>3, <1>4, <1>5, <1>6 DEF IInv

(* The payload goes out, and failed viewers are dropped.                   *)
LEMMA SendStep ==
    ASSUME IInv, Send
    PROVE  IInv'
<1>1. TypeOK'
  <2>1. /\ clients' \subseteq Conns /\ valid' \in BOOLEAN /\ active' \in BOOLEAN
        /\ got' \subseteq Conns /\ targets' \subseteq Conns
    BY DEF Send, IInv, TypeOK
  <2>2. beam' \in 0..NRows /\ epc' = "row"
    BY NRowsAssumption DEF Send, StartFrame
  <2>3. QED BY <2>2 DEF Send, image, world, IInv, TypeOK
<1>2. Phases' /\ (clients' # {} => active') /\ payload' = prev' /\ pic' \in shown'
  BY NRowsAssumption
     DEF Send, StartFrame, image, world, IInv, TypeOK, Phases, PushStates
<1>3. HoledIsGuarded'
  BY DEF Send, IInv, HoledIsGuarded, Guarded
<1>4. UnsentIsGuarded'
  BY DEF Send, image, IInv, UnsentIsGuarded, PushKnows, Unsent
<1>5. Tracks'
  BY NRowsAssumption
     DEF Send, image, world, IInv, Phases, PushStates, Tracks, Vouched, Rows
<1>6. PushKnows'
  BY DEF Send, StartFrame, PushKnows
<1>7. QED BY <1>1, <1>2, <1>3, <1>4, <1>5, <1>6 DEF IInv

(* The invariant speaks of the state alone.                                *)
LEMMA StutterStep ==
    ASSUME IInv, UNCHANGED vars
    PROVE  IInv'
<1>1. TypeOK' /\ Phases'
  BY DEF vars, IInv, TypeOK, Phases
<1>2. HoledIsGuarded' /\ UnsentIsGuarded'
  BY DEF vars, IInv, HoledIsGuarded, UnsentIsGuarded, Unsent, Guarded
<1>3. Tracks' /\ PushKnows'
  BY DEF vars, IInv, Tracks, Vouched, PushKnows, Unsent
<1>4. QED BY <1>1, <1>2, <1>3 DEF vars, IInv

(* The invariant holds of every behaviour of the video path.               *)
THEOREM InductiveInvariant == Spec => []IInv
<1>1. IInv /\ [Next]_vars => IInv'
  <2> SUFFICES ASSUME IInv, [Next]_vars PROVE IInv'
    OBVIOUS
  <2>1. CASE \E c \in Conns : Connect(c) \/ AskFullRender(c) \/ Disconnect(c)
                              \/ CloseGate(c)
    BY <2>1, ConnStep
  <2>2. CASE Write
    BY <2>2, WriteStep
  <2>3. CASE RowStep
    BY <2>3, SkipRowStep, EnterRowZeroStep, DecideStep, ClearAndDrawStep,
       DrawRowStep
       DEF RowStep
  <2>4. CASE PushStep
    BY <2>4, SnapshotStep, CheckNeedsStep, DedupStep, MarkValidStep, SendStep
       DEF PushStep
  <2>5. CASE UNCHANGED vars
    BY <2>5, StutterStep
  <2>6. QED BY <2>1, <2>2, <2>3, <2>4, <2>5 DEF Next
<1>2. QED BY <1>1, InitIInv, PTL DEF Spec

(* Every slot of the server's video half keeps its type.                   *)
THEOREM TypeCorrect == Spec => []TypeOK
<1>1. IInv => TypeOK
  BY DEF IInv
<1>2. QED BY <1>1, InductiveInvariant, PTL

(* Every frame sent is a clean render of the frame it belongs to, unless a *)
(* request was overwritten: for any number of viewers and rows.            *)
THEOREM FramesAreClean == Spec => []CleanUnlessLost
<1>1. IInv => CleanUnlessLost
  <2> SUFFICES ASSUME IInv, epc = "send", ~lost, NEW r \in Rows
               PROVE  payload[r] \in shown
    BY DEF CleanUnlessLost, Clean
  <2>1. fb = payload /\ ~holed
    BY DEF IInv, PushKnows
  <2>2. beam = NRows /\ beam > 0 /\ r < beam
    BY NRowsAssumption DEF IInv, Phases, PushStates, Rows
  <2>3. QED BY <2>1, <2>2 DEF IInv, Tracks, Vouched
<1>2. QED BY <1>1, InductiveInvariant, PTL

(* A payload sent again without comparing it is the current framebuffer.   *)
THEOREM ResendsAreCurrent == Spec => []ResendIsCurrent
<1>1. IInv => ResendIsCurrent
  BY DEF IInv, PushKnows, ResendIsCurrent
<1>2. QED BY <1>1, InductiveInvariant, PTL
=============================================================================
