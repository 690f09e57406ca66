----------------------------- MODULE SerialWire ------------------------------
(***************************************************************************)
(* The serial port: POKEY's double-buffered transmitter and its receiver   *)
(* (src/src/pokey.lisp), the SIO layer that collects command frames from   *)
(* the transmitted bytes and queues the drive's reply (src/src/sio.lisp),  *)
(* the interrupts they raise, and what a cold reset leaves of all this     *)
(* (src/src/machine.lisp).                                                 *)
(*                                                                         *)
(* Everything one advance may change is one record, `chip': POKEY's        *)
(* registers, the SIO accumulator, the CPU's interrupt line and, as its    *)
(* history, `owed', the reply bytes queued and not landed yet.  A byte on  *)
(* its way out is known by the request it belongs to, its place in the     *)
(* command frame, what was given up before it and whether a cold reset     *)
(* came after it; a frame is good when its bytes are in their places,      *)
(* which is what its checksum tells.                                       *)
(***************************************************************************)
EXTENDS Integers, Sequences, SequencesExt

CONSTANTS FrameLen,      \* +SIO-COMMAND-FRAME-LENGTH+ (5)
          ByteTime,      \* %SERIAL-BYTE-CYCLES, fixed during a transfer
          AckDelay,      \* +SIO-ACK-DELAY+ (5016)
          CompleteDelay, \* +SIO-COMPLETE-DELAY+ (3648)
          Chunks,        \* cycles one POKEY-ADVANCE may be called with
          Masks,         \* what programs write to IRQEN
          Requests,      \* what the program asks of the drive
          MaxQueue       \* bound: no new command behind a longer queue

ASSUME FrameAssumption  == FrameLen \in Nat /\ FrameLen > 2
ASSUME DelaysAssumption == /\ ByteTime \in Nat \ {0}
                           /\ AckDelay \in Nat /\ CompleteDelay \in Nat
ASSUME ChunksAssumption ==
    /\ Chunks \subseteq Nat \ {0}
    /\ \A n \in Chunks : n <= AckDelay
ASSUME MasksAssumption    == Masks \subseteq SUBSET {"needed", "done", "ready"}
ASSUME RequestsAssumption == Requests \subseteq {"read", "write", "bad"}

VARIABLES chip,     \* POKEY's serial side, the SIO accumulator, the IRQ line
          mounted,  \* a disk is in the addressed drive
          req,      \* the request the program is sending
          sent,     \* how many bytes of its command frame it has written
          skew,     \* history: how many bytes of frames given up went
                    \* before, modulo FrameLen, since one was begun with
                    \* none left; not counted while stray
          stray,    \* history: since such a frame a cold reset caught a byte in
                    \* the transmitter
          muted     \* history: a cold reset lowered the IRQ line, and no
                    \* interrupt or IRQEN write followed yet

vars == <<chip, mounted, req, sent, skew, stray, muted>>

Sources == {"needed", "done", "ready"}    \* IRQEN bits 4, 3 and 5

Bytes   == [req : Requests, pos : 1..FrameLen, skew : 0..(FrameLen - 1),
            fresh : BOOLEAN]
Answers == {"ACK", "COMPLETE", "ERROR", "NAK", "data", "checksum"}
Entries == [gap : {0, AckDelay, CompleteDelay}, byte : Answers]

-----------------------------------------------------------------------------
(***************************************************************************)
(* The chip, one operation at a time.                                      *)
(***************************************************************************)

BytesOf(entries) == [i \in DOMAIN entries |-> entries[i].byte]

(* %RAISE-IRQ: a disabled source latches nothing.                          *)
Raise(c, source) ==
    IF source \in c.irqen
    THEN [c EXCEPT !.irqst = @ \cup {source}, !.pin = TRUE]
    ELSE c

(* %SERIAL-IN-START-HEAD and POKEY-QUEUE-SERIAL-IN.                        *)
StartHead(c) ==
    [c EXCEPT !.in        = Head(c.queue).byte,
              !.in_cycles = Head(c.queue).gap + ByteTime,
              !.queue     = Tail(@),
              !.pending   = @ \cup {"rx"}]

QueueInBusyOrNot(c, entries) ==                                \* a mutant
    LET d == [c EXCEPT !.queue = @ \o entries, !.owed = @ \o BytesOf(entries)]
    IN  IF entries # <<>> THEN StartHead(d) ELSE d

QueueIn(c, entries) ==
    LET d == [c EXCEPT !.queue = @ \o entries, !.owed = @ \o BytesOf(entries)]
    IN  IF entries # <<>> /\ c.in_cycles = 0 THEN StartHead(d) ELSE d

(* %SIO-DISPATCH: what the drive has to say to a command frame.            *)
Good(f) == \A i \in DOMAIN f : f[i].pos = i /\ f[i].req = f[1].req

Reply(f) ==
    LET After(gap, b) == [gap |-> gap, byte |-> b]
        Acked(b)      == <<After(AckDelay, "ACK"), After(CompleteDelay, b)>>
        Refused       == <<After(AckDelay, "NAK")>>
    IN  IF ~Good(f) THEN Refused
        ELSE IF ~mounted THEN <<>>
        ELSE CASE f[1].req = "write" -> Refused
               [] f[1].req = "bad"   -> Acked("ERROR")
               [] OTHER -> Acked("COMPLETE")
                           \o <<After(0, "data"), After(0, "checksum")>>

(* SIO-WIRE-BYTE.  The mutant leaves the dispatched frame in place.        *)
WireByteKeepingFrame(c, b) ==
    LET f == Append(c.frame, b)
    IN  IF Len(f) < FrameLen
        THEN [c EXCEPT !.frame = f]
        ELSE QueueIn([c EXCEPT !.frame = f], Reply(f))

WireByte(c, b) ==
    LET f == Append(c.frame, b)
    IN  IF Len(f) < FrameLen
        THEN [c EXCEPT !.frame = f]
        ELSE QueueIn([c EXCEPT !.frame = <<>>], Reply(f))

(* %SERIAL-OUT-WRITE, in a transmit mode.                                  *)
OutWrite(c, b) ==
    IF c.out_cycles > 0
    THEN [c EXCEPT !.holding = <<b>>]
    ELSE Raise([c EXCEPT !.shift = <<b>>, !.holding = <<>>,
                         !.out_cycles = ByteTime,
                         !.pending = @ \cup {"tx"}], "needed")

(* The byte in the shift register has left it.  The mutant leaves PENDING. *)
OutLandsStillPending(c) ==
    LET d == WireByte(c, Head(c.shift))
    IN  IF c.holding # <<>>
        THEN Raise([d EXCEPT !.shift = c.holding, !.holding = <<>>,
                             !.out_cycles = @ + ByteTime], "needed")
        ELSE Raise([d EXCEPT !.shift = <<>>, !.out_cycles = 0], "done")

OutLands(c) ==
    LET d == WireByte(c, Head(c.shift))
    IN  IF c.holding # <<>>
        THEN Raise([d EXCEPT !.shift = c.holding, !.holding = <<>>,
                             !.out_cycles = @ + ByteTime], "needed")
        ELSE Raise([d EXCEPT !.shift = <<>>, !.out_cycles = 0,
                             !.pending = @ \ {"tx"}], "done")

(* %SERIAL-OUT-ADVANCE: there are at most two bytes to finish.             *)
OutSettle(c) == IF c.out_cycles > 0 \/ c.shift = <<>> THEN c ELSE OutLands(c)

OutAdvance(c, n) ==
    OutSettle(OutSettle([c EXCEPT !.out_cycles = @ - n]))

(* The byte in flight lands in SERIN.  The mutant drops the remainder.     *)
InLandsAfresh(c) ==
    LET d == Raise([c EXCEPT !.overrun = @ \/ c.unread, !.serin = c.in,
                             !.unread = TRUE, !.owed = Tail(@)], "ready")
    IN  IF c.queue # <<>>
        THEN StartHead(d)
        ELSE [d EXCEPT !.in_cycles = 0, !.pending = @ \ {"rx"}]

InLands(c) ==
    LET d == Raise([c EXCEPT !.overrun = @ \/ c.unread, !.serin = c.in,
                             !.unread = TRUE, !.owed = Tail(@)], "ready")
    IN  IF c.queue # <<>>
        THEN [StartHead(d) EXCEPT !.in_cycles = @ + c.in_cycles]
        ELSE [d EXCEPT !.in_cycles = 0, !.pending = @ \ {"rx"}]

(* %SERIAL-IN-ADVANCE: the loop lands at most the byte in flight and those *)
(* that are queued.                                                        *)
InSettle(c) == IF c.in_cycles > 0 \/ "rx" \notin c.pending THEN c ELSE InLands(c)

InSettled(c) ==
    LET settled[i \in 0..(Len(c.queue) + 1)] ==
            IF i = 0 THEN c ELSE InSettle(settled[i - 1])
    IN  settled

InAdvance(c, n) ==
    InSettled([c EXCEPT !.in_cycles = @ - n])[Len(c.queue) + 1]

(* POKEY-ADVANCE: PENDING is read once, on entry.                          *)
Advance(c, n) ==
    LET d == IF "tx" \in c.pending THEN OutAdvance(c, n) ELSE c
    IN  IF "rx" \in c.pending THEN InAdvance(d, n) ELSE d

(* POKEY-TICK, up to n times.                                              *)
Ticked(c, n) ==
    LET ticked[i \in 0..n] == IF i = 0 THEN c ELSE Advance(ticked[i - 1], 1)
    IN  ticked

Ticks(c, n) == Ticked(c, n)[n]

-----------------------------------------------------------------------------
(***************************************************************************)
(* The system.                                                             *)
(***************************************************************************)
Init ==
    /\ chip = [irqen |-> {}, irqst |-> {}, pin |-> FALSE,
               shift |-> <<>>, holding |-> <<>>, out_cycles |-> 0,
               in |-> "ACK", in_cycles |-> 0, queue |-> <<>>,
               serin |-> "ACK", unread |-> FALSE, overrun |-> FALSE,
               pending |-> {}, frame |-> <<>>, owed |-> <<>>]
    /\ mounted \in BOOLEAN
    /\ req \in Requests
    /\ sent = 0
    /\ skew = 0 /\ stray = FALSE /\ muted = FALSE

(* The program writes SEROUT when the holding register is empty.           *)
Write(r, place, lead) ==
    /\ chip.holding = <<>>
    /\ req' = r
    /\ sent' = place % FrameLen
    /\ skew' = lead
    /\ chip' = OutWrite(chip, [req |-> r, pos |-> place, skew |-> lead,
                               fresh |-> TRUE])
    /\ muted' = (muted /\ ~chip'.pin)
    /\ UNCHANGED mounted

Continue ==
    /\ sent > 0
    /\ Write(req, sent + 1, skew)
    /\ UNCHANGED stray

(* A command frame may be begun at any time: when the last one is out, or, *)
(* after a timeout or the BREAK key, in the middle of it.  Nothing tells   *)
(* the SIO layer of that.                                                  *)
Outgoing == chip.frame \o chip.shift \o chip.holding

BeginFrame(r) ==
    /\ Len(chip.queue) <= MaxQueue
    /\ Write(r, 1, IF Outgoing = <<>> \/ stray THEN 0
                ELSE (skew + sent) % FrameLen)
    /\ stray' = (stray /\ Outgoing # <<>>)

(* POKEY-WRITE to IRQEN: what is disabled is acknowledged, then            *)
(* %SYNC-IRQ-LINE.  The mutant leaves the line.                            *)
EnableUnsynced(enabled) ==
    /\ chip' = [chip EXCEPT !.irqen = enabled, !.irqst = @ \cap enabled]
    /\ muted' = FALSE
    /\ UNCHANGED <<mounted, req, sent, skew, stray>>

Enable(enabled) ==
    /\ chip' = [chip EXCEPT !.irqen = enabled, !.irqst = @ \cap enabled,
                            !.pin = (chip.irqst \cap enabled # {})]
    /\ muted' = FALSE
    /\ UNCHANGED <<mounted, req, sent, skew, stray>>

ReadSerin ==
    /\ chip' = [chip EXCEPT !.unread = FALSE]
    /\ UNCHANGED <<mounted, req, sent, skew, stray, muted>>

Skrest ==
    /\ chip' = [chip EXCEPT !.overrun = FALSE]
    /\ UNCHANGED <<mounted, req, sent, skew, stray, muted>>

Elapse(n) ==
    /\ chip' = Advance(chip, n)
    /\ muted' = (muted /\ ~chip'.pin)
    /\ UNCHANGED <<mounted, req, sent, skew, stray>>

(* MOUNT-DISK and UNMOUNT-DISK, between two frames.                        *)
Mount ==
    /\ mounted' = ~mounted
    /\ UNCHANGED <<chip, req, sent, skew, stray, muted>>

(* MACHINE-COLD-RESET: the accumulator is emptied and the IRQ line lowered;*)
(* POKEY is not reset, and the program starts over.  The mutant forgets    *)
(* the accumulator.                                                        *)
Stale(bytes) == [i \in DOMAIN bytes |-> [bytes[i] EXCEPT !.fresh = FALSE]]

ColdResetKeepingFrame ==
    /\ chip' = [chip EXCEPT !.pin = FALSE,
                            !.shift = Stale(@), !.holding = Stale(@)]
    /\ sent' = 0 /\ skew' = 0
    /\ stray' = (chip.shift # <<>>)
    /\ muted' = (chip.irqst # {})
    /\ UNCHANGED <<mounted, req>>

ColdReset ==
    /\ chip' = [chip EXCEPT !.frame = <<>>, !.pin = FALSE,
                            !.shift = Stale(@), !.holding = Stale(@)]
    /\ sent' = 0 /\ skew' = 0
    /\ stray' = (chip.shift # <<>>)
    /\ muted' = (chip.irqst # {})
    /\ UNCHANGED <<mounted, req>>

Next ==
    \/ Continue \/ \E r \in Requests : BeginFrame(r)
    \/ \E e \in Masks : Enable(e)
    \/ \E n \in Chunks : Elapse(n)
    \/ ReadSerin \/ Skrest \/ Mount \/ ColdReset

Spec == Init /\ [][Next]_vars

-----------------------------------------------------------------------------
(* Types: the byte held waits behind a busy shift register, a countdown    *)
(* never goes negative, the accumulator is never left holding a whole      *)
(* frame.                                                                  *)
TypeOK ==
    /\ chip.irqen \subseteq Sources /\ chip.irqst \subseteq chip.irqen
    /\ chip.pin \in BOOLEAN
    /\ chip.shift \in BoundedSeq(Bytes, 1)
    /\ chip.holding \in BoundedSeq(Bytes, 1)
    /\ chip.holding # <<>> => chip.shift # <<>>
    /\ chip.out_cycles \in 0..ByteTime
    /\ chip.in_cycles \in 0..(ByteTime + AckDelay + CompleteDelay)
    /\ chip.in \in Answers /\ chip.serin \in Answers
    /\ \A i \in DOMAIN chip.queue : chip.queue[i] \in Entries
    /\ chip.unread \in BOOLEAN /\ chip.overrun \in BOOLEAN
    /\ chip.pending \subseteq {"tx", "rx"}
    /\ Len(chip.frame) < FrameLen
    /\ \A i \in DOMAIN chip.frame : chip.frame[i] \in Bytes
    /\ mounted \in BOOLEAN /\ req \in Requests /\ sent \in 0..(FrameLen - 1)
    /\ skew \in 0..(FrameLen - 1) /\ stray \in BOOLEAN /\ muted \in BOOLEAN

(* A PENDING bit is set exactly while its condition holds: pokey.lisp asks *)
(* it of every place that starts or ends a transfer.  A bit left set costs *)
(* deferral, one left clear stops the transfer for good.                   *)
PendingIsExact ==
    /\ "tx" \in chip.pending <=> chip.out_cycles > 0
    /\ "tx" \in chip.pending <=> chip.shift # <<>>
    /\ "rx" \in chip.pending <=> chip.in_cycles > 0

(* The CPU's IRQ line is up exactly while an enabled source is latched;    *)
(* only a cold reset may leave it down, until the next interrupt or IRQEN  *)
(* write.  In particular there is never a phantom interrupt.               *)
LineIsLevel == chip.pin <=> (chip.irqst # {} /\ ~muted)

(* Each byte of a reply lands once and in order: those that have not       *)
(* landed are the one in flight and then the queue, whatever commands      *)
(* follow while a reply is still under way.                                *)
NoReplyByteLost ==
    chip.owed = (IF chip.in_cycles > 0 THEN <<chip.in>> ELSE <<>>)
                \o BytesOf(chip.queue)

(* A byte's place in the accumulator is its place in the command frame,    *)
(* displaced by what the program has given up of earlier ones, and by      *)
(* nothing else: not by a frame refused, unanswered or sent again, nor by  *)
(* a cold reset with the transmitter idle.  So frames are aligned while    *)
(* none is given up; after one, no NAK and no retry realigns them, as      *)
(* SIO-WIRE-BYTE has the count of bytes and no more, until the bytes given *)
(* up make whole frames.  Excepted is a cold reset that catches the        *)
(* transmitter busy, until a frame is begun with nothing left before it.   *)
FramesAligned ==
    ~stray => /\ \A i \in DOMAIN Outgoing :
                    /\ (Outgoing[i].skew + Outgoing[i].pos) % FrameLen = i % FrameLen
                    /\ Outgoing[i].fresh
              /\ Len(Outgoing) % FrameLen = (skew + sent) % FrameLen

(* machine.lisp:324: a cold reset must not leave the accumulator swallowing*)
(* the next frame at the wrong offset.  (It does: the byte that was in the *)
(* transmitter still arrives, and the next frame comes in behind it.)  Of  *)
(* frames with none given up before them.                                  *)
ResetAligns ==
    \A i \in DOMAIN chip.frame :
        chip.frame[i].fresh /\ chip.frame[i].skew = 0 => chip.frame[i].pos = i

(* POKEY-ADVANCE by n is n POKEY-TICKs, but for the start of a reply whose *)
(* command ends within the n cycles: that may come out up to n - 1 cycles  *)
(* away, in either direction.                                              *)
TicksAgree ==
    \A n \in Chunks :
        LET a == Advance(chip, n)
            b == Ticks(chip, n)
        IN  \/ a = b
            \/ /\ Len(a.frame) < Len(chip.frame)
               /\ a.in_cycles - b.in_cycles \in (1 - n)..(n - 1)
               /\ a = [b EXCEPT !.in_cycles = a.in_cycles]
=============================================================================
