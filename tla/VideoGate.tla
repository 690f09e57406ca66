------------------------------ MODULE VideoGate ------------------------------
(***************************************************************************)
(* The video path of the AESP server (src/src/aesp.lisp): the rendering    *)
(* gate opened and closed by connecting and leaving viewers, the scanline  *)
(* callback that decides once per frame whether to render, and the push    *)
(* after the frame with its cached payload.                                *)
(*                                                                         *)
(* Viewers' threads change the client list under the server's lock; the    *)
(* emulator thread reads the gate and clears the full-render request       *)
(* without it.  Every unlocked read or write of a shared slot is a step.   *)
(* What the machine displays is one value, PIC, that the CPU may change    *)
(* between any two rows; a change always leaves the bus's dirty map set.   *)
(***************************************************************************)
EXTENDS Naturals

CONSTANTS Conns,     \* connections to the video port
          NRows,     \* rows of the framebuffer (240 in the code)
          Pics,      \* what the machine may display
          Blank      \* what a new framebuffer holds

ASSUME NRowsAssumption == NRows \in Nat \ {0}
ASSUME BlankAssumption == Blank \notin Pics

VARIABLES
    clients,     \* VIDEO-CLIENTS
    active,      \* VIDEO-ACTIVE-P
    needs,       \* NEEDS-FULL-RENDER-P
    valid,       \* PAYLOAD-VALID-P
    renderThis,  \* RENDER-THIS-FRAME-P
    fb,          \* FRAMEBUFFER, row by row
    prev,        \* PREV-FRAME
    payload,     \* PAYLOAD-BUFFER
    conn,        \* conn[c]: where the threads serving c are
    epc,         \* where the emulator thread is
    beam,        \* the next row to be completed in this frame
    renderP,     \* row 0's local decision
    targets,     \* the push's snapshot of VIDEO-CLIENTS
    pic,         \* what the machine displays
    dirty,       \* something watched was written since MACHINE-NOTE-FULL-RENDER
    got,         \* viewers that received a frame since they connected
    shown,       \* history: what was displayed since row 0 of this frame
    holed,       \* history: a row passed the closed gate since the last full render
    lost         \* history: row 0 cleared a request it had not read

gate  == <<clients, active, needs, valid>>
image == <<fb, prev, payload>>
world == <<pic, dirty>>
vars  == <<clients, active, needs, valid, renderThis, fb, prev, payload, conn,
           epc, beam, renderP, targets, pic, dirty, got, shown, holed, lost>>

Rows   == 0..(NRows - 1)
Image  == [Rows -> Pics \cup {Blank}]

LockFree == \A c \in Conns : conn[c] \notin {"opening", "leaving"}

TypeOK ==
    /\ clients \subseteq Conns
    /\ active \in BOOLEAN
    /\ needs \in BOOLEAN
    /\ valid \in BOOLEAN
    /\ renderThis \in BOOLEAN
    /\ fb \in Image /\ prev \in Image /\ payload \in Image
    /\ conn \in [Conns -> {"out", "opening", "in", "leaving"}]
    /\ epc \in {"row", "decide", "clear", "snapshot", "check", "dedup",
                "mark", "send"}
    /\ beam \in 0..NRows
    /\ renderP \in BOOLEAN
    /\ targets \subseteq Conns
    /\ pic \in Pics
    /\ dirty \in BOOLEAN
    /\ got \subseteq Conns
    /\ shown \subseteq Pics
    /\ holed \in BOOLEAN
    /\ lost \in BOOLEAN

(* START-AESP-SERVER: nobody watches, and the whole dirty map is set.      *)
Init ==
    /\ clients = {} /\ active = FALSE /\ needs = FALSE /\ valid = FALSE
    /\ renderThis = TRUE
    /\ fb = [r \in Rows |-> Blank] /\ prev = fb /\ payload = fb
    /\ conn = [c \in Conns |-> "out"]
    /\ epc = "row" /\ beam = 0 /\ renderP = FALSE /\ targets = {}
    /\ pic \in Pics /\ dirty = TRUE
    /\ got = {} /\ shown = {pic} /\ holed = TRUE /\ lost = FALSE

-----------------------------------------------------------------------------
(* %REGISTER-VIDEO-CLIENT and %UNREGISTER-VIDEO-CLIENT, holding the lock   *)
(* from their first to their last write.                                   *)

Emulator == <<renderThis, fb, prev, payload, epc, beam, renderP, targets,
              pic, dirty, shown, holed, lost>>

Connect(c) ==
    /\ conn[c] = "out"
    /\ LockFree
    /\ clients' = clients \cup {c}
    /\ active' = TRUE
    /\ conn' = [conn EXCEPT ![c] = "opening"]
    /\ got' = got \ {c}
    /\ UNCHANGED <<needs, valid>> /\ UNCHANGED Emulator

AskFullRender(c) ==
    /\ conn[c] = "opening"
    /\ needs' = TRUE
    /\ conn' = [conn EXCEPT ![c] = "in"]
    /\ UNCHANGED <<clients, active, valid, got>> /\ UNCHANGED Emulator

(* The reader thread of c ends.                                            *)
Disconnect(c) ==
    /\ conn[c] = "in"
    /\ LockFree
    /\ clients' = clients \ {c}
    /\ valid' = (valid /\ clients' # {})
    /\ conn' = [conn EXCEPT ![c] = "leaving"]
    /\ UNCHANGED <<active, needs, got>> /\ UNCHANGED Emulator

(* Mutant: the gate is closed by any viewer that leaves.                   *)
CloseGateAlways(c) ==
    /\ conn[c] = "leaving"
    /\ active' = FALSE
    /\ conn' = [conn EXCEPT ![c] = "out"]
    /\ UNCHANGED <<clients, needs, valid, got>> /\ UNCHANGED Emulator

CloseGate(c) ==
    /\ conn[c] = "leaving"
    /\ active' = (clients # {})
    /\ conn' = [conn EXCEPT ![c] = "out"]
    /\ UNCHANGED <<clients, needs, valid, got>> /\ UNCHANGED Emulator

-----------------------------------------------------------------------------
(* The scanline callback, on the emulator thread.                          *)

(* Between two rows the CPU writes something the display depends on.       *)
Write ==
    /\ epc = "row"
    /\ \E p \in Pics : pic' = p /\ shown' = shown \cup {p}
    /\ dirty' = TRUE
    /\ UNCHANGED gate
    /\ UNCHANGED <<renderThis, image, conn, epc, beam, renderP, targets, got,
                   holed, lost>>

(* Mutant: one row too many belongs to the frame.                          *)
NextRowTooMany == /\ beam' = beam + 1
                  /\ epc' = IF beam = NRows THEN "snapshot" ELSE "row"

NextRow == /\ beam' = beam + 1
           /\ epc' = IF beam + 1 = NRows THEN "snapshot" ELSE "row"

(* The gate is closed: the row is not rendered.                            *)
SkipRow ==
    /\ epc = "row"
    /\ ~active
    /\ NextRow
    /\ shown' = IF beam = 0 THEN {pic} ELSE shown
    /\ holed' = TRUE
    /\ UNCHANGED gate
    /\ UNCHANGED <<renderThis, image, conn, renderP, targets, world, got, lost>>

(* The gate is open at row 0: the frame's decision follows.                *)
EnterRowZero ==
    /\ epc = "row" /\ beam = 0
    /\ active
    /\ epc' = "decide"
    /\ shown' = {pic}
    /\ UNCHANGED gate
    /\ UNCHANGED <<renderThis, image, conn, beam, renderP, targets, world, got,
                   holed, lost>>

(* NEEDS-FULL-RENDER-P is read, then MACHINE-DISPLAY-CHANGED-SINCE-RENDER-P *)
(* consulted: it may answer T on a clean map, never NIL on a dirty one.    *)
Decide ==
    /\ epc = "decide"
    /\ renderP' \in {r \in BOOLEAN : needs \/ dirty => r}
    /\ epc' = "clear"
    /\ UNCHANGED gate
    /\ UNCHANGED <<renderThis, image, conn, beam, targets, world, got, shown,
                   holed, lost>>

(* The request is cleared, MACHINE-NOTE-FULL-RENDER called if the frame is *)
(* to be rendered, the decision recorded, and row 0 drawn.                 *)
ClearAndDraw ==
    /\ epc = "clear"
    /\ needs' = FALSE
    /\ lost' = (lost \/ (needs /\ ~renderP))
    /\ dirty' = (dirty /\ ~renderP)
    /\ renderThis' = renderP
    /\ fb' = IF renderP THEN [fb EXCEPT ![0] = pic] ELSE fb
    /\ holed' = (holed /\ ~renderP)
    /\ NextRow
    /\ UNCHANGED <<clients, active, valid, prev, payload, conn, renderP,
                   targets, pic, got, shown>>

(* A later row goes by the decision row 0 left behind, this frame's or an  *)
(* earlier one's.                                                          *)
DrawRow ==
    /\ epc = "row" /\ beam > 0
    /\ active
    /\ fb' = IF renderThis THEN [fb EXCEPT ![beam] = pic] ELSE fb
    /\ NextRow
    /\ UNCHANGED gate
    /\ UNCHANGED <<renderThis, prev, payload, conn, renderP, targets, world,
                   got, shown, holed, lost>>

-----------------------------------------------------------------------------
(* %PUSH-VIDEO-FRAME, on the emulator thread after the last row.           *)

Pushing == <<active, needs, renderThis, fb, conn, renderP, pic, dirty, shown,
             holed, lost>>

StartFrame == epc' = "row" /\ beam' = 0

(* The client list is copied under the lock; nobody watching, no push.     *)
Snapshot ==
    /\ epc = "snapshot"
    /\ LockFree
    /\ targets' = clients
    /\ IF clients = {} THEN StartFrame ELSE epc' = "check" /\ UNCHANGED beam
    /\ UNCHANGED <<clients, valid, prev, payload, got>> /\ UNCHANGED Pushing

(* Mutant: the push does not hold off.                                     *)
CheckNothing ==
    /\ epc = "check"
    /\ epc' = "dedup" /\ UNCHANGED beam
    /\ UNCHANGED <<clients, valid, prev, payload, targets, got>>
    /\ UNCHANGED Pushing

(* A pending request means this frame may be torn: nobody gets it.         *)
CheckNeeds ==
    /\ epc = "check"
    /\ IF needs THEN StartFrame ELSE epc' = "dedup" /\ UNCHANGED beam
    /\ UNCHANGED <<clients, valid, prev, payload, targets, got>>
    /\ UNCHANGED Pushing

(* Mutant: the row-0 decision is taken the wrong way round.                *)
UnchangedIfRendered == valid /\ (renderThis \/ fb = prev)

Unchanged == valid /\ (~renderThis \/ fb = prev)

Dedup ==
    /\ epc = "dedup"
    /\ epc' = IF Unchanged THEN "send" ELSE "mark"
    /\ prev' = IF Unchanged THEN prev ELSE fb
    /\ payload' = IF Unchanged THEN payload ELSE fb
    /\ UNCHANGED <<clients, valid, beam, targets, got>> /\ UNCHANGED Pushing

MarkValid ==
    /\ epc = "mark"
    /\ valid' = TRUE
    /\ epc' = "send"
    /\ UNCHANGED <<clients, prev, payload, beam, targets, got>>
    /\ UNCHANGED Pushing

(* Every viewer of the snapshot gets the payload, but for those whose      *)
(* write fails: these the emulator thread unregisters itself.              *)
Send ==
    /\ epc = "send"
    /\ \E failed \in SUBSET targets :
         /\ failed # {} => LockFree
         /\ clients' = clients \ failed
         /\ valid' = (valid /\ (failed # {} => clients' # {}))
         /\ active' = IF failed = {} THEN active ELSE clients' # {}
         /\ got' = got \cup (targets \ failed)
    /\ targets' = {}
    /\ StartFrame
    /\ UNCHANGED <<needs, renderThis, image, conn, renderP, world, shown,
                   holed, lost>>

-----------------------------------------------------------------------------
RowStep  == SkipRow \/ EnterRowZero \/ Decide \/ ClearAndDraw \/ DrawRow
PushStep == Snapshot \/ CheckNeeds \/ Dedup \/ MarkValid \/ Send

Next ==
    \/ \E c \in Conns : Connect(c) \/ AskFullRender(c) \/ Disconnect(c)
                        \/ CloseGate(c)
    \/ Write \/ RowStep \/ PushStep

Spec == Init /\ [][Next]_vars

(* The emulator keeps running frames and critical sections end.            *)
Fairness ==
    /\ WF_vars(RowStep \/ PushStep)
    /\ \A c \in Conns : WF_vars(AskFullRender(c) \/ CloseGate(c))

FairSpec == Spec /\ Fairness

-----------------------------------------------------------------------------
(* PROPERTIES                                                              *)

Clean == \A r \in Rows : payload[r] \in shown

(* What the server's documentation promises: every frame sent is a clean   *)
(* top-to-bottom render, each of its rows something the machine displayed  *)
(* during the frame it belongs to.                                         *)
NoTornFrame == epc = "send" => Clean

(* What the code does guarantee: a frame sent is clean unless row 0 once   *)
(* cleared a full-render request that arrived after it had read the flag.  *)
(* The gate, the dirty map, the request and the cached payload must agree  *)
(* for this to hold on every skipped, deduplicated or resumed frame.       *)
CleanUnlessLost == epc = "send" /\ ~lost => Clean

(* A payload sent again is the framebuffer of now: skipping the byte       *)
(* comparison on an unrendered frame never resends an older picture.       *)
ResendIsCurrent == epc = "send" /\ ~lost => payload = fb

(* Once viewers stop arriving, each one connected gets a frame unless it   *)
(* is dropped: a request to hold off pushes is always served.              *)
Settles    == <>[](\A c \in Conns : conn[c] # "opening")
FirstFrame == Settles => \A c \in Conns :
                  (c \in clients) ~> (c \in got \/ c \notin clients)
=============================================================================
