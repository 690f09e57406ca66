---------------------------- MODULE CaptureProofs ----------------------------
(***************************************************************************)
(* Proofs about the post-frame hook, for every set of viewers and          *)
(* listeners and however long it runs, and, at the end, of the capture     *)
(* scripts that are its clients.                                           *)
(*                                                                         *)
(* The hook reads three things other threads may change between two of its *)
(* steps: the client lists, the request for a full render and, once the    *)
(* server is being stopped, the audio unit.  Each part of the invariant    *)
(* says what one of them can be at each of the hook's stages, and what may *)
(* still be missing or still has to be sent there.                         *)
(***************************************************************************)
EXTENDS Capture, TLAPS

(* Who still can be pushed to is registered.                               *)
Registered(c) ==
    /\ sent[c] > 0 => sock[c] \in {"open", "cut"} /\ c \in served
    /\ sent[c] = 0 => frames[c] = 0
    /\ sock[c] = "open" /\ c \in served => c \in clients
    /\ sock[c] = "out" => c \notin served

Registry ==
    /\ \A c \in Watchers : Registered(c)
    /\ snap \subseteq served
    /\ emu = "send" => snap \subseteq Viewers
    /\ emu \in Attaching \cup {"drain", "pcm"} => snap \subseteq Listeners

(* POKEY's unit and the server's slot, while the hook is called and after. *)
UnitInv ==
    /\ PostFrameFn =>
          /\ emu \notin Attaching => attached = slot
          /\ emu = "attach" => ~attached /\ snap # {}
          /\ emu = "slot"   => attached /\ snap # {}
          /\ emu = "pcm"    => attached
          /\ emu = "unslot" => ~attached
          /\ emu = "drain" /\ snap = {} => ~attached
    /\ ~PostFrameFn /\ ~overtaken =>
          /\ ~InHook
          /\ stop = "deaf" => attached = slot
          /\ stop \in {"unslot", "close", "closed"} => ~attached

(* The buffer holds the frame that is being run, or nothing.               *)
BufferInv ==
    /\ emu = "pcm" => chunk = frame
    /\ attached /\ InHook => from \in {frame, frame + 1}
    /\ attached /\ PostFrameFn =>
          /\ emu \in Outside \cup {"slot", "pcm"} => from = frame + 1
          /\ emu \in BeforeSync => from = frame

(* A listener that is owed the chunk of this frame, and one that has it.   *)
Active(c) == sock[c] = "open" /\ sent[c] > 0

Owed(l)   == last[l] + 1 = frame /\ (PostFrameFn => attached)
Served(l) == PostFrameFn => last[l] = frame /\ attached

ListenerOk(l) ==
    /\ sent[l] > 0 => frames[l] = sent[l] /\ last[l] + 1 = first[l] + sent[l]
    /\ Active(l) =>
          /\ emu \in Outside => Served(l)
          /\ emu \in BeforeSync => Owed(l)
          /\ emu \in Attaching \cup {"drain"} =>
                /\ Owed(l) /\ l \in snap
                /\ PostFrameFn => from = frame /\ emu = "drain"
          /\ emu = "pcm" => IF l \in snap THEN Owed(l) ELSE Served(l)

ListenerInv == \A l \in Listeners : ListenerOk(l)

(* After row 0 has lost its callback, a request is never met.              *)
Stuck == needs /\ ~ScanlineFn

(* Nothing is missing of the first n frames but what joins accounts for.   *)
Covered(v, n) == n + 1 <= first[v] + sent[v] + joins[v]

Pending == IF needs THEN 1 ELSE 0

ViewerOk(v) ==
    /\ sent[v] > 0 =>
          /\ first[v] + sent[v] <= last[v] + 1
          /\ last[v] + 1 <= first[v] + sent[v] + joins[v]
          /\ last[v] <= frame
    /\ Active(v) =>
          /\ emu = "video" => last[v] < frame /\ (Stuck \/ Covered(v, frame - 1 + Pending))
          /\ emu = "rows" /\ PostFrameFn => Stuck \/ Covered(v, frame + Pending)
          /\ emu = "send"  => IF v \in snap THEN last[v] < frame /\ Covered(v, frame - 1)
                                           ELSE Covered(v, frame)
          /\ emu \notin {"video", "rows", "send"} /\ (PostFrameFn \/ InHook) =>
                Stuck \/ Covered(v, frame)

ViewerInv == \A v \in Viewers : ViewerOk(v)

HookInv == HookTypeOK /\ Registry /\ UnitInv /\ BufferInv /\ ListenerInv /\ ViewerInv

(* Nobody is connected and nothing has been sent.                          *)
LEMMA HookInitInv == HookInit => HookInv
<1> SUFFICES ASSUME HookInit PROVE HookInv
  OBVIOUS
<1>1. \A c \in Watchers : sent[c] = 0 /\ frames[c] = 0 /\ sock[c] = "out"
  BY DEF HookInit
<1>2. HookTypeOK
  BY DEF HookInit, HookTypeOK, Outside
<1>3. Registry /\ ListenerInv /\ ViewerInv
  BY <1>1 DEF HookInit, Registry, Registered, ListenerInv, ListenerOk, ViewerInv, ViewerOk, Active,
              Attaching, Watchers
<1>4. UnitInv /\ BufferInv
  BY DEF HookInit, UnitInv, BufferInv, InHook, Outside, Attaching, PostFrameFn
<1> QED BY <1>2, <1>3, <1>4 DEF HookInv

(* What a push changes, connection by connection.                          *)
LEMMA PushEffect ==
  ASSUME HookTypeOK, NEW c \in snap, NEW begin, Push(c, begin)
  PROVE  /\ \A d \in Watchers : d # c \/ sock[c] # "open" =>
               /\ sent'[d] = sent[d] /\ frames'[d] = frames[d]
               /\ first'[d] = first[d] /\ last'[d] = last[d]
         /\ sock[c] = "open" =>
               /\ sent'[c] = sent[c] + 1 /\ frames'[c] = frames[c] + (frame + 1 - begin)
               /\ first'[c] = (IF sent[c] = 0 THEN begin ELSE first[c]) /\ last'[c] = frame
         /\ \A d \in clients : sock[d] = "open" => d \in clients'
         /\ c \in Watchers
BY DEF Push, HookTypeOK

(* Types: a chunk never begins after its frame, so it holds some frames.   *)
LEMMA TypeStep ==
  HookTypeOK /\ BufferInv /\ HookNext => HookTypeOK'
<1> SUFFICES ASSUME HookTypeOK /\ BufferInv, HookNext
             PROVE  HookTypeOK'
  OBVIOUS
<1> USE DEF HookTypeOK, Outside, BeforeSync, Attaching, emulator, audio,
            history, sockets
<1>1. CASE RowZero
  BY <1>1 DEF RowZero
<1>2. CASE EndFrame
  BY <1>2 DEF EndFrame
<1>3. CASE SnapVideo
  BY <1>3 DEF SnapVideo
<1>4. CASE SendFrame
  BY <1>4 DEF SendFrame, Push
<1>5. CASE SnapAudio
  BY <1>5 DEF SnapAudio
<1>6. CASE Attach
  BY <1>6 DEF Attach
<1>7. CASE Detach
  BY <1>7 DEF Detach
<1>8. CASE SetSlot
  BY <1>8 DEF SetSlot
<1>9. CASE Drain
  BY <1>9 DEF Drain
<1>10. CASE SendPcm
  BY <1>10 DEF SendPcm, Push, BufferInv
<1>11. CASE ClearCallbacks
  BY <1>11 DEF ClearCallbacks, InHook
<1>12. CASE StopReadsSlot
  BY <1>12 DEF StopReadsSlot
<1>13. CASE StopDetach
  BY <1>13 DEF StopDetach
<1>14. CASE StopForgets
  BY <1>14 DEF StopForgets
<1>15. CASE CloseAll
  BY <1>15 DEF CloseAll
<1>16. ASSUME NEW c \in Watchers, Open(c) PROVE HookTypeOK'
  BY <1>16 DEF Open
<1>17. ASSUME NEW c \in Watchers, Shut(c) PROVE HookTypeOK'
  BY <1>17 DEF Shut
<1>18. ASSUME NEW c \in Watchers, Register(c) PROVE HookTypeOK'
  <2>1. \A w \in Watchers : joins[w] \in Nat /\ joins[w] + 1 \in Nat
    OBVIOUS
  <2>2. joins' \in [Watchers -> Nat]
    BY <1>18, <2>1 DEF Register
  <2> QED BY <1>18, <2>2 DEF Register
<1>19. ASSUME NEW c \in Watchers, Unregister(c) PROVE HookTypeOK'
  BY <1>19 DEF Unregister
<1> QED BY <1>1, <1>2, <1>3, <1>4, <1>5, <1>6, <1>7, <1>8, <1>9, <1>10, <1>11,
           <1>12, <1>13, <1>14, <1>15, <1>16, <1>17, <1>18, <1>19 DEF
           HookNext, Emulator, Stop

(* Whoever has been sent something is registered until its socket closes.  *)
LEMMA RegistryStep ==
  HookTypeOK /\ Registry /\ HookNext => Registry'
<1> SUFFICES ASSUME HookTypeOK /\ Registry, HookNext
             PROVE  Registry'
  OBVIOUS
<1> USE DEF Registry, Registered, Watchers, HookTypeOK, Outside, BeforeSync,
            Attaching, emulator, audio, history, sockets
<1>1. CASE RowZero
  BY <1>1 DEF RowZero
<1>2. CASE EndFrame
  BY <1>2 DEF EndFrame
<1>3. CASE SnapVideo
  BY <1>3 DEF SnapVideo
<1>4. CASE SendFrame
  <2>1. PICK c \in snap : Push(c, frame)
    BY <1>4 DEF SendFrame
  <2>2. \A d \in Watchers : Registered(d)'
    BY <2>1, PushEffect DEF Push
  <2> QED BY <1>4, <2>1, <2>2, PortsAssumption DEF SendFrame, Push
<1>5. CASE SnapAudio
  BY <1>5 DEF SnapAudio
<1>6. CASE Attach
  BY <1>6 DEF Attach
<1>7. CASE Detach
  BY <1>7 DEF Detach
<1>8. CASE SetSlot
  BY <1>8 DEF SetSlot
<1>9. CASE Drain
  BY <1>9 DEF Drain
<1>10. CASE SendPcm
  <2>1. PICK c \in snap : Push(c, chunk)
    BY <1>10 DEF SendPcm
  <2>2. \A d \in Watchers : Registered(d)'
    BY <2>1, PushEffect DEF Push
  <2> QED BY <1>10, <2>1, <2>2, PortsAssumption DEF SendPcm, Push
<1>11. CASE ClearCallbacks
  BY <1>11 DEF ClearCallbacks
<1>12. CASE StopReadsSlot
  BY <1>12 DEF StopReadsSlot
<1>13. CASE StopDetach
  BY <1>13 DEF StopDetach
<1>14. CASE StopForgets
  BY <1>14 DEF StopForgets
<1>15. CASE CloseAll
  BY <1>15 DEF CloseAll
<1>16. ASSUME NEW c \in Watchers, Open(c) PROVE Registry'
  BY <1>16 DEF Open
<1>17. ASSUME NEW c \in Watchers, Shut(c) PROVE Registry'
  BY <1>17 DEF Shut
<1>18. ASSUME NEW c \in Watchers, Register(c) PROVE Registry'
  BY <1>18 DEF Register
<1>19. ASSUME NEW c \in Watchers, Unregister(c) PROVE Registry'
  BY <1>19 DEF Unregister
<1> QED BY <1>1, <1>2, <1>3, <1>4, <1>5, <1>6, <1>7, <1>8, <1>9, <1>10, <1>11,
           <1>12, <1>13, <1>14, <1>15, <1>16, <1>17, <1>18, <1>19 DEF
           HookNext, Emulator, Stop

(* The unit and the slot are apart only while one of the two threads is    *)
(* between them.                                                           *)
LEMMA UnitStep ==
  HookTypeOK /\ UnitInv /\ HookNext => UnitInv'
<1> SUFFICES ASSUME HookTypeOK /\ UnitInv, HookNext
             PROVE  UnitInv'
  OBVIOUS
<1> USE DEF UnitInv, InHook, PostFrameFn, HookTypeOK, Outside, BeforeSync,
            Attaching, emulator, audio, history, sockets
<1>1. CASE RowZero
  BY <1>1 DEF RowZero
<1>2. CASE EndFrame
  BY <1>2 DEF EndFrame
<1>3. CASE SnapVideo
  BY <1>3 DEF SnapVideo
<1>4. CASE SendFrame
  BY <1>4 DEF SendFrame, Push
<1>5. CASE SnapAudio
  BY <1>5 DEF SnapAudio
<1>6. CASE Attach
  BY <1>6 DEF Attach
<1>7. CASE Detach
  BY <1>7 DEF Detach
<1>8. CASE SetSlot
  BY <1>8 DEF SetSlot
<1>9. CASE Drain
  BY <1>9 DEF Drain
<1>10. CASE SendPcm
  BY <1>10 DEF SendPcm, Push
<1>11. CASE ClearCallbacks
  BY <1>11 DEF ClearCallbacks
<1>12. CASE StopReadsSlot
  BY <1>12 DEF StopReadsSlot
<1>13. CASE StopDetach
  BY <1>13 DEF StopDetach
<1>14. CASE StopForgets
  BY <1>14 DEF StopForgets
<1>15. CASE CloseAll
  BY <1>15 DEF CloseAll
<1>16. ASSUME NEW c \in Watchers, Open(c) PROVE UnitInv'
  BY <1>16 DEF Open
<1>17. ASSUME NEW c \in Watchers, Shut(c) PROVE UnitInv'
  BY <1>17 DEF Shut
<1>18. ASSUME NEW c \in Watchers, Register(c) PROVE UnitInv'
  BY <1>18 DEF Register
<1>19. ASSUME NEW c \in Watchers, Unregister(c) PROVE UnitInv'
  BY <1>19 DEF Unregister
<1> QED BY <1>1, <1>2, <1>3, <1>4, <1>5, <1>6, <1>7, <1>8, <1>9, <1>10, <1>11,
           <1>12, <1>13, <1>14, <1>15, <1>16, <1>17, <1>18, <1>19 DEF
           HookNext, Emulator, Stop

(* The buffer is begun when the unit is attached and after every drain.    *)
LEMMA BufferStep ==
  HookTypeOK /\ UnitInv /\ BufferInv /\ HookNext => BufferInv'
<1> SUFFICES ASSUME HookTypeOK /\ UnitInv /\ BufferInv, HookNext
             PROVE  BufferInv'
  OBVIOUS
<1> USE DEF BufferInv, UnitInv, InHook, PostFrameFn, HookTypeOK, Outside,
            BeforeSync, Attaching, emulator, audio, history, sockets
<1>1. CASE RowZero
  BY <1>1 DEF RowZero
<1>2. CASE EndFrame
  BY <1>2 DEF EndFrame
<1>3. CASE SnapVideo
  BY <1>3 DEF SnapVideo
<1>4. CASE SendFrame
  BY <1>4 DEF SendFrame, Push
<1>5. CASE SnapAudio
  BY <1>5 DEF SnapAudio
<1>6. CASE Attach
  BY <1>6 DEF Attach
<1>7. CASE Detach
  BY <1>7 DEF Detach
<1>8. CASE SetSlot
  BY <1>8 DEF SetSlot
<1>9. CASE Drain
  BY <1>9 DEF Drain
<1>10. CASE SendPcm
  BY <1>10 DEF SendPcm, Push
<1>11. CASE ClearCallbacks
  BY <1>11 DEF ClearCallbacks
<1>12. CASE StopReadsSlot
  BY <1>12 DEF StopReadsSlot
<1>13. CASE StopDetach
  BY <1>13 DEF StopDetach
<1>14. CASE StopForgets
  BY <1>14 DEF StopForgets
<1>15. CASE CloseAll
  BY <1>15 DEF CloseAll
<1>16. ASSUME NEW c \in Watchers, Open(c) PROVE BufferInv'
  BY <1>16 DEF Open
<1>17. ASSUME NEW c \in Watchers, Shut(c) PROVE BufferInv'
  BY <1>17 DEF Shut
<1>18. ASSUME NEW c \in Watchers, Register(c) PROVE BufferInv'
  BY <1>18 DEF Register
<1>19. ASSUME NEW c \in Watchers, Unregister(c) PROVE BufferInv'
  BY <1>19 DEF Unregister
<1> QED BY <1>1, <1>2, <1>3, <1>4, <1>5, <1>6, <1>7, <1>8, <1>9, <1>10, <1>11,
           <1>12, <1>13, <1>14, <1>15, <1>16, <1>17, <1>18, <1>19 DEF
           HookNext, Emulator, Stop

(* A listener of the snapshot gets the frame's chunk, and every listener    *)
(* with a first chunk is in the snapshot.                                  *)
LEMMA ListenerStep ==
  HookTypeOK /\ Registry /\ UnitInv /\ BufferInv /\ ListenerInv /\ HookNext => ListenerInv'
<1> SUFFICES ASSUME HookTypeOK /\ Registry /\ UnitInv /\ BufferInv /\ ListenerInv, HookNext
             PROVE  ListenerInv'
  OBVIOUS
<1> USE DEF ListenerInv, ListenerOk, Active, Owed, Served, Registry,
            Registered, BufferInv, Watchers, UnitInv, InHook, PostFrameFn,
            HookTypeOK, Outside, BeforeSync, Attaching, emulator, audio,
            history, sockets
<1>1. CASE RowZero
  BY <1>1 DEF RowZero
<1>2. CASE EndFrame
  BY <1>2 DEF EndFrame
<1>3. CASE SnapVideo
  BY <1>3 DEF SnapVideo
<1>4. CASE SendFrame
  BY <1>4, PortsAssumption DEF SendFrame, Push
<1>5. CASE SnapAudio
  BY <1>5 DEF SnapAudio
<1>6. CASE Attach
  BY <1>6 DEF Attach
<1>7. CASE Detach
  BY <1>7 DEF Detach
<1>8. CASE SetSlot
  BY <1>8 DEF SetSlot
<1>9. CASE Drain
  BY <1>9 DEF Drain
<1>10. CASE SendPcm
  <2>1. PICK c \in snap : Push(c, chunk)
    BY <1>10 DEF SendPcm
  <2>2. chunk = frame /\ c \in Listeners
    BY <1>10 DEF SendPcm
  <2> SUFFICES ASSUME NEW l \in Listeners PROVE ListenerOk(l)'
    OBVIOUS
  <2>3. emu' \in {"pcm", "top"} /\ snap' = snap \ {c} /\ (emu' = "top" => snap' = {})
    BY <1>10, <2>1 DEF SendPcm, Push
  <2>4. CASE l = c /\ sock[c] = "open"
    <3>1. sent[l] > 0 => last[l] + 1 = frame /\ (PostFrameFn => attached)
      BY <1>10, <2>1, <2>4 DEF SendPcm
    <3>2. /\ sent'[l] = sent[l] + 1 /\ last'[l] = frame /\ frames'[l] = frames[l] + 1
          /\ first'[l] = (IF sent[l] = 0 THEN frame ELSE first[l])
      BY <2>1, <2>2, <2>4, PushEffect
    <3>3. PostFrameFn => attached
      BY <1>10 DEF SendPcm
    <3> QED BY <1>10, <2>1, <2>2, <2>3, <2>4, <3>1, <3>2, <3>3 DEF SendPcm, Push
  <2>5. CASE ~(l = c /\ sock[c] = "open")
    <3>1. /\ sent'[l] = sent[l] /\ last'[l] = last[l] /\ frames'[l] = frames[l]
          /\ first'[l] = first[l]
      BY <2>1, <2>5, PushEffect
    <3> QED BY <1>10, <2>1, <2>3, <2>5, <3>1 DEF SendPcm, Push
  <2> QED BY <2>4, <2>5
<1>11. CASE ClearCallbacks
  BY <1>11 DEF ClearCallbacks
<1>12. CASE StopReadsSlot
  BY <1>12 DEF StopReadsSlot
<1>13. CASE StopDetach
  BY <1>13 DEF StopDetach
<1>14. CASE StopForgets
  BY <1>14 DEF StopForgets
<1>15. CASE CloseAll
  BY <1>15 DEF CloseAll
<1>16. ASSUME NEW c \in Watchers, Open(c) PROVE ListenerInv'
  BY <1>16 DEF Open
<1>17. ASSUME NEW c \in Watchers, Shut(c) PROVE ListenerInv'
  BY <1>17 DEF Shut
<1>18. ASSUME NEW c \in Watchers, Register(c) PROVE ListenerInv'
  BY <1>18 DEF Register
<1>19. ASSUME NEW c \in Watchers, Unregister(c) PROVE ListenerInv'
  BY <1>19 DEF Unregister
<1> QED BY <1>1, <1>2, <1>3, <1>4, <1>5, <1>6, <1>7, <1>8, <1>9, <1>10, <1>11,
           <1>12, <1>13, <1>14, <1>15, <1>16, <1>17, <1>18, <1>19 DEF
           HookNext, Emulator, Stop

(* A push is held off at most once for each viewer that registers.         *)
LEMMA ViewerStep ==
  HookTypeOK /\ Registry /\ ViewerInv /\ HookNext => ViewerInv'
<1> SUFFICES ASSUME HookTypeOK /\ Registry /\ ViewerInv, HookNext
             PROVE  ViewerInv'
  OBVIOUS
<1> USE DEF ViewerInv, ViewerOk, Active, Stuck, Covered, Pending, Registry,
            Registered, ScanlineFn, PostFrameFn, InHook, Watchers, HookTypeOK,
            Outside, BeforeSync, Attaching, emulator, audio, history, sockets
<1>1. CASE RowZero
  <2> SUFFICES ASSUME NEW v \in Viewers PROVE ViewerOk(v)'
    OBVIOUS
  <2>1. /\ first[v] \in Nat /\ sent[v] \in Nat /\ last[v] \in Nat /\ joins[v] \in Nat
        /\ frame \in Nat /\ ViewerOk(v)
    OBVIOUS
  <2>2. Active(v) => v \in clients \cap Viewers
    OBVIOUS
  <2>3. Active(v) /\ ScanlineFn => ~needs'
    BY <1>1, <2>2 DEF RowZero
  <2>4. ~ScanlineFn => needs' = needs
    BY <1>1 DEF RowZero
  <2>5. emu = "top" /\ emu' = "rows" 
        /\ UNCHANGED <<frame, snap, stop, sock, sent, first, last, joins>>
    BY <1>1 DEF RowZero
  <2> QED BY <2>1, <2>3, <2>4, <2>5
<1>2. CASE EndFrame
  <2> SUFFICES ASSUME NEW v \in Viewers PROVE ViewerOk(v)'
    OBVIOUS
  <2>1. /\ first[v] \in Nat /\ sent[v] \in Nat /\ last[v] \in Nat /\ joins[v] \in Nat
        /\ frame \in Nat /\ ViewerOk(v)
    OBVIOUS
  <2>2. CASE PostFrameFn
    BY <1>2, <2>1, <2>2 DEF EndFrame
  <2>3. CASE ~PostFrameFn
    BY <1>2, <2>1, <2>3 DEF EndFrame
  <2> QED BY <2>2, <2>3
<1>3. CASE SnapVideo
  BY <1>3 DEF SnapVideo
<1>4. CASE SendFrame
  BY <1>4 DEF SendFrame, Push
<1>5. CASE SnapAudio
  BY <1>5 DEF SnapAudio
<1>6. CASE Attach
  BY <1>6 DEF Attach
<1>7. CASE Detach
  BY <1>7 DEF Detach
<1>8. CASE SetSlot
  BY <1>8 DEF SetSlot
<1>9. CASE Drain
  BY <1>9 DEF Drain
<1>10. CASE SendPcm
  BY <1>10, PortsAssumption DEF SendPcm, Push
<1>11. CASE ClearCallbacks
  BY <1>11 DEF ClearCallbacks
<1>12. CASE StopReadsSlot
  BY <1>12 DEF StopReadsSlot
<1>13. CASE StopDetach
  BY <1>13 DEF StopDetach
<1>14. CASE StopForgets
  BY <1>14 DEF StopForgets
<1>15. CASE CloseAll
  BY <1>15 DEF CloseAll
<1>16. ASSUME NEW c \in Watchers, Open(c) PROVE ViewerInv'
  BY <1>16 DEF Open
<1>17. ASSUME NEW c \in Watchers, Shut(c) PROVE ViewerInv'
  BY <1>17 DEF Shut
<1>18. ASSUME NEW c \in Watchers, Register(c) PROVE ViewerInv'
  BY <1>18 DEF Register
<1>19. ASSUME NEW c \in Watchers, Unregister(c) PROVE ViewerInv'
  BY <1>19 DEF Unregister
<1> QED BY <1>1, <1>2, <1>3, <1>4, <1>5, <1>6, <1>7, <1>8, <1>9, <1>10, <1>11,
           <1>12, <1>13, <1>14, <1>15, <1>16, <1>17, <1>18, <1>19 DEF
           HookNext, Emulator, Stop

(* The parts together.                                                     *)
LEMMA HookStep == HookInv /\ [HookNext]_hookVars => HookInv'
<1> SUFFICES ASSUME HookInv, [HookNext]_hookVars PROVE HookInv'
  OBVIOUS
<1>1. CASE HookNext
  BY <1>1, TypeStep, RegistryStep, UnitStep, BufferStep, ListenerStep, ViewerStep DEF HookInv
<1>2. CASE UNCHANGED hookVars
  BY <1>2 DEF hookVars, HookInv, HookTypeOK, Registry, UnitInv, BufferInv, ListenerInv, ViewerInv,
              ListenerOk, ViewerOk, Registered, Active, Owed, Served, Stuck, Covered,
              Pending, InHook, PostFrameFn, ScanlineFn
<1> QED BY <1>1, <1>2

(* The strengthening of the hook's properties, preserved by every step of  *)
(* the emulator thread, the server's threads and STOP-AESP-SERVER.         *)
THEOREM InductiveInvariant == HookSpec => []HookInv
BY HookInitInv, HookStep, PTL DEF HookSpec

(* Types of the hook's variables.                                          *)
THEOREM TypeCorrect == HookSpec => []HookTypeOK
<1>1. HookInv => HookTypeOK
  BY DEF HookInv
<1> QED BY <1>1, InductiveInvariant, PTL

(* Every listener gets one chunk per frame, each of one frame.             *)
THEOREM AudioIsSteady == HookSpec => []AudioSteady
<1>1. HookInv => AudioSteady
  BY DEF HookInv, ListenerInv, ListenerOk, AudioSteady
<1> QED BY <1>1, InductiveInvariant, PTL

(* A viewer misses at most one frame for each viewer that connects.        *)
THEOREM VideoIsSteady == HookSpec => []VideoSteady
<1>1. HookInv => VideoSteady
  BY DEF HookInv, ViewerInv, ViewerOk, VideoSteady
<1> QED BY <1>1, InductiveInvariant, PTL

(* A stopped server leaves no audio unit behind, unless overtaken.         *)
THEOREM StopIsClean == HookSpec => []StopDetaches
<1>1. HookInv => StopDetaches
  BY DEF HookInv, UnitInv, PostFrameFn, StopDetaches
<1> QED BY <1>1, InductiveInvariant, PTL

-----------------------------------------------------------------------------
(***************************************************************************)
(* The capture scripts are clients of the post-frame hook: every behaviour *)
(* of the composition is one of FrameHook, so that what is proved of the   *)
(* hook holds of every capture.                                            *)
(***************************************************************************)
(* Every step of a script, of the server or of neither is a step the hook  *)
(* allows its environment.                                                 *)
LEMMA ScriptStep ==
  ASSUME NEW c \in Watchers, Script(c)
  PROVE  Open(c) \/ Shut(c) \/ UNCHANGED hookVars
<1>1. CASE Connect(c)
  BY <1>1 DEF Connect
<1>2. CASE ConnectFails(c)
  BY <1>2 DEF ConnectFails
<1>3. CASE Read(c)
  <2>1. CASE c \in Recorders
    BY <1>3, <2>1 DEF Read
  <2>2. CASE c \notin Recorders
    BY <1>3, <2>2, Zenon DEF Read, vars
  <2> QED BY <2>1, <2>2
<1>4. CASE ReadFails(c)
  BY <1>4 DEF ReadFails
<1>5. CASE Write(c)
  BY <1>5, Zenon DEF Write
<1>6. CASE WriteFails(c)
  BY <1>6, Zenon DEF WriteFails
<1> QED BY <1>1, <1>2, <1>3, <1>4, <1>5, <1>6 DEF Script

(* The scripts with their server implement the hook and its clients.       *)
THEOREM CapturesAreClients == Spec => HookSpec
<1>1. Init => HookInit
  BY DEF Init
<1>2. [Next]_vars => [HookNext]_hookVars
  <2> SUFFICES ASSUME [Next]_vars PROVE HookNext \/ UNCHANGED hookVars
    OBVIOUS
  <2>1. CASE Server
    BY <2>1 DEF Server, HookNext
  <2>2. CASE Scripts
    <3>1. PICK c \in Watchers : Script(c)
      BY <2>2 DEF Scripts
    <3> QED BY <3>1, ScriptStep DEF HookNext
  <2>3. CASE UNCHANGED vars
    BY <2>3 DEF vars
  <2> QED BY <2>1, <2>2, <2>3 DEF Next, Over
<1> QED BY <1>1, <1>2, PTL DEF Spec, HookSpec

(* A recording of the sound is one chunk per frame.                        *)
THEOREM RecordedSoundIsSteady == Spec => []AudioSteady
BY CapturesAreClients, AudioIsSteady, PTL

(* A recording of the picture misses a frame only when a viewer connects.  *)
THEOREM RecordedVideoIsSteady == Spec => []VideoSteady
BY CapturesAreClients, VideoIsSteady, PTL

(* Stopping the server under the scripts leaves no audio unit, likewise.   *)
THEOREM StopUnderCapture == Spec => []StopDetaches
BY CapturesAreClients, StopIsClean, PTL

(* What a script has read has been sent to it, and it reads on only while  *)
(* it has not read all it was asked for.                                   *)
ReadSoFar(c) ==
    /\ script[c] = "read" => have[c] < Want[c]
    /\ script[c] = "read" \/ (script[c] = "write" /\ c \in Recorders) =>
          have[c] <= sent[c] /\ have[c] <= Want[c]
    /\ script[c] = "write" => have[c] <= Want[c] /\ (c \in Recorders \/ have[c] = Want[c])
    /\ rc[c] = 0 => have[c] = Want[c]

ScriptTypes ==
    /\ script \in [Watchers -> {"connect", "read", "write", "exit"}]
    /\ have \in [Watchers -> Nat]
    /\ rc \in [Watchers -> {NotYet, 0, 1}]
    /\ \A c \in Watchers : rc[c] = NotYet <=> script[c] # "exit"
    /\ \A c \in Watchers : script[c] = "connect" => have[c] = 0

ScriptInv == ScriptTypes /\ \A c \in Watchers : ReadSoFar(c)

(* Nothing the server does takes back what was sent.                       *)
LEMMA ServerSends ==
  ASSUME HookTypeOK, Server, NEW c \in Watchers
  PROVE  sent[c] <= sent'[c]
<1> sent \in [Watchers -> Nat] /\ sent[c] \in Nat
  BY DEF HookTypeOK
<1>1. ASSUME NEW d, NEW begin, d \in snap, Push(d, begin) PROVE sent[c] <= sent'[c]
  BY <1>1 DEF Push
<1>2. CASE SendFrame
  BY <1>2, <1>1 DEF SendFrame
<1>3. CASE SendPcm
  BY <1>3, <1>1 DEF SendPcm
<1>4. CASE Emulator /\ ~SendFrame /\ ~SendPcm
  BY <1>4 DEF Emulator, RowZero, EndFrame, SnapVideo, SnapAudio, Attach, Detach, SetSlot,
              Drain, history
<1>5. CASE Stop
  BY <1>5 DEF Stop, ClearCallbacks, StopReadsSlot, StopDetach, StopForgets, CloseAll, history
<1>6. ASSUME NEW d \in Watchers, Register(d) \/ Unregister(d) PROVE sent[c] <= sent'[c]
  BY <1>6 DEF Register, Unregister, history
<1> QED BY <1>2, <1>3, <1>4, <1>5, <1>6 DEF Server

(* A script leaves the other scripts alone.                                *)
LEMMA ScriptsAreApart ==
  ASSUME HookTypeOK, ScriptInv, NEW c \in Watchers, NEW d \in Watchers, c # d, Script(c)
  PROVE  /\ sent'[d] = sent[d]
         /\ script'[d] = script[d] /\ have'[d] = have[d] /\ rc'[d] = rc[d]
<1>1. sent'[d] = sent[d]
  BY ScriptStep DEF Open, Shut, history, hookVars, HookTypeOK
<1>2. /\ script \in [Watchers -> {"connect", "read", "write", "exit"}]
      /\ have \in [Watchers -> Nat] /\ rc \in [Watchers -> {NotYet, 0, 1}]
  BY DEF ScriptInv, ScriptTypes
<1> QED BY <1>1, <1>2 DEF Script, Connect, ConnectFails, Read, ReadFails, Write, WriteFails,
                         Goto, Exit, vars

(* One step of a script on its own part of the invariant.                  *)
LEMMA ScriptKeepsOwn ==
  ASSUME HookTypeOK, ScriptInv, NEW c \in Watchers, Script(c)
  PROVE  /\ script' \in [Watchers -> {"connect", "read", "write", "exit"}]
         /\ have' \in [Watchers -> Nat]
         /\ rc' \in [Watchers -> {NotYet, 0, 1}]
         /\ rc'[c] = NotYet <=> script'[c] # "exit"
         /\ script'[c] = "connect" => have'[c] = 0
         /\ ReadSoFar(c)'
<1> Want[c] \in Nat \ {0} /\ sent \in [Watchers -> Nat] /\ sent[c] \in Nat /\ have[c] \in Nat
  BY WantAssumption DEF HookTypeOK, ScriptInv, ScriptTypes
<1> USE DEF ScriptInv, ScriptTypes, ReadSoFar, NotYet
<1>1. CASE Connect(c)
  BY <1>1 DEF Connect, Goto, Open, history
<1>3. CASE ConnectFails(c) \/ ReadFails(c) \/ WriteFails(c)
  BY <1>3 DEF ConnectFails, ReadFails, WriteFails, Exit, Goto
<1>4. CASE Read(c)
  <2>1. CASE c \in Recorders
    BY <1>4, <2>1 DEF Read, Goto, hookVars
  <2>2. CASE c \notin Recorders /\ have'[c] = Want[c]
    BY <1>4, <2>2 DEF Read, Goto
  <2>3. CASE c \notin Recorders /\ have'[c] # Want[c]
    BY <1>4, <2>3 DEF Read, hookVars
  <2> QED BY <2>1, <2>2, <2>3
<1>5. CASE Write(c)
  <2>1. CASE c \notin Recorders \/ have[c] = Want[c]
    BY <1>5, <2>1 DEF Write, Exit, Goto
  <2>2. CASE c \in Recorders /\ have[c] # Want[c]
    BY <1>5, <2>2 DEF Write, Goto, hookVars
  <2> QED BY <2>1, <2>2
<1> QED BY <1>1, <1>3, <1>4, <1>5 DEF Script

LEMMA ScriptInvStep == HookTypeOK /\ HookTypeOK' /\ ScriptInv /\ [Next]_vars => ScriptInv'
<1> SUFFICES ASSUME HookTypeOK, HookTypeOK', ScriptInv, [Next]_vars PROVE ScriptInv'
  OBVIOUS
<1>1. CASE Server
  <2>1. UNCHANGED scripts
    BY <1>1 DEF Server
  <2>2. \A c \in Watchers : sent[c] <= sent'[c]
    BY <1>1, ServerSends
  <2>3. sent \in [Watchers -> Nat]
    BY DEF HookTypeOK
  <2>4. sent' \in [Watchers -> Nat]
    BY DEF HookTypeOK
  <2>5. Want \in [Watchers -> Nat \ {0}]
    BY WantAssumption
  <2> QED BY <2>1, <2>2, <2>3, <2>4, <2>5 DEF ScriptInv, ScriptTypes, ReadSoFar, scripts
<1>2. CASE Scripts
  <2>1. PICK c \in Watchers : Script(c)
    BY <1>2 DEF Scripts
  <2>2. \A d \in Watchers \ {c} : ReadSoFar(d)'
    BY <2>1, ScriptsAreApart DEF ScriptInv, ReadSoFar
  <2>3. \A d \in Watchers \ {c} :
           /\ rc'[d] = NotYet <=> script'[d] # "exit"
           /\ script'[d] = "connect" => have'[d] = 0
    BY <2>1, ScriptsAreApart DEF ScriptInv, ScriptTypes
  <2> QED BY <2>1, <2>2, <2>3, ScriptKeepsOwn DEF ScriptInv, ScriptTypes
<1>3. CASE UNCHANGED vars
  BY <1>3 DEF vars, hookVars, ScriptInv, ScriptTypes, ReadSoFar
<1> QED BY <1>1, <1>2, <1>3 DEF Next, Over

(* No script reads what was not sent to it, nor more than it was asked     *)
(* for; one that goes on has no exit code, and one that exits with 0 has   *)
(* read all of it.                                                         *)
THEOREM TypesUnderCapture == Spec => []TypeOK
<1>1. Init => ScriptInv
  BY DEF Init, ScriptInv, ScriptTypes, ReadSoFar, NotYet
<1>2. Spec => []HookTypeOK
  BY CapturesAreClients, TypeCorrect, PTL
<1>3. HookTypeOK /\ ScriptInv => TypeOK
  BY DEF TypeOK, ScriptInv, ScriptTypes, ReadSoFar
<1> QED BY <1>1, <1>2, <1>3, ScriptInvStep, PTL DEF Spec

=============================================================================
