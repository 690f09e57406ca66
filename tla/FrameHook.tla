----------------------------- MODULE FrameHook -----------------------------
(***************************************************************************)
(* The post-frame hook of the AESP server (src/src/aesp.lisp): after every *)
(* frame the emulator thread pushes one FRAME_RAW to the video port's      *)
(* clients and one AUDIO_PCM to the audio port's, and attaches or detaches *)
(* the audio unit; acceptor and reader threads change the client lists     *)
(* under the server's lock, and STOP-AESP-SERVER runs on a thread of its   *)
(* own without it.                                                         *)
(*                                                                         *)
(* Pixels and samples are abstracted to the number of the frame they       *)
(* belong to: the audio buffer is the first frame in it, a chunk a range   *)
(* of frames.  What a viewer is shown is VideoGate's subject.              *)
(***************************************************************************)
EXTENDS Naturals

CONSTANTS Viewers,     \* connections to the video port
          Listeners,   \* connections to the audio port
          MaxFrames    \* bound on the frames that are run

ASSUME PortsAssumption  == Viewers \cap Listeners = {}
ASSUME FramesAssumption == MaxFrames \in Nat

Watchers == Viewers \cup Listeners

VARIABLES
    frame,      \* FRAME-COUNT
    emu,        \* where the emulator thread is
    needs,      \* NEEDS-FULL-RENDER-P
    snap,       \* the push's snapshot of a client list, less those served
    attached,   \* POKEY has an audio unit
    slot,       \* AUDIO-UNIT of the server
    from,       \* the first frame in the unit's buffer; 0 without a unit
    chunk,      \* the first frame of the drained samples; 0 when they are sent
    clients,    \* VIDEO-CLIENTS and AUDIO-CLIENTS
    served,     \* connections that were accepted
    sock,       \* sock[c]: the connection, as both ends left it
    stop,       \* where STOP-AESP-SERVER is
    overtaken,  \* history: a hook was in progress when its callback was cleared
    sent,       \* history, while a connection is open: messages pushed to it,
    frames,     \*          the frames they hold,
    first,      \*          the frame the first of them begins with
    last,       \*          and the frame the last one ends with
    joins       \* history, likewise: viewers registered since this one's first frame

emulator == <<frame, emu, needs, snap, attached, slot, from, chunk>>
audio    == <<attached, slot, from, chunk>>
history  == <<sent, frames, first, last, joins>>
sockets  == <<clients, served, sock>>
hookVars == <<frame, emu, needs, snap, attached, slot, from, chunk, clients,
              served, sock, stop, overtaken, sent, frames, first, last, joins>>

Outside   == {"top", "rows"}
BeforeSync == {"video", "send", "audio"}
Attaching == {"attach", "slot", "detach", "unslot"}
InHook    == emu \notin Outside

(* STOP clears the two callbacks of the machine one after the other.       *)
ScanlineFn  == stop = "up"
PostFrameFn == stop \in {"up", "blind"}

HookInit ==
    /\ frame = 0 /\ emu = "top" /\ needs = FALSE /\ snap = {}
    /\ attached = FALSE /\ slot = FALSE /\ from = 0 /\ chunk = 0
    /\ clients = {} /\ served = {} /\ sock = [c \in Watchers |-> "out"]
    /\ stop = "up" /\ overtaken = FALSE
    /\ sent = [c \in Watchers |-> 0] /\ frames = sent /\ first = sent /\ last = sent
    /\ joins = sent

-----------------------------------------------------------------------------
(* The frame.                                                              *)

(* Row 0: with the gate open, the request for a full render is met.        *)
RowZero ==
    /\ emu = "top" /\ emu' = "rows"
    /\ needs' = (needs /\ ~(ScanlineFn /\ clients \cap Viewers # {}))
    /\ UNCHANGED <<frame, snap, audio, sockets, stop, overtaken, history>>

EndFrame ==
    /\ emu = "rows" /\ frame < MaxFrames
    /\ frame' = frame + 1
    /\ emu' = IF PostFrameFn THEN "video" ELSE "top"
    /\ UNCHANGED <<needs, snap, audio, sockets, stop, overtaken, history>>

-----------------------------------------------------------------------------
(* %PUSH-VIDEO-FRAME.                                                      *)

(* Mutant: a frame that shows nothing new is not sent.                     *)
SnapVideoOfChanges ==
    /\ emu = "video"
    /\ \E changed \in BOOLEAN :
          snap' = IF needs \/ ~changed THEN {} ELSE clients \cap Viewers
    /\ emu' = IF snap' = {} THEN "audio" ELSE "send"
    /\ UNCHANGED <<frame, needs, audio, sockets, stop, overtaken, history>>

(* The client list is copied under the lock; after it, and as one step     *)
(* with it since nothing that comes between changes what is sent, the      *)
(* request is tested: the push is held off until a frame has been rendered *)
(* from its top.                                                           *)
SnapVideo ==
    /\ emu = "video"
    /\ snap' = IF needs THEN {} ELSE clients \cap Viewers
    /\ emu' = IF snap' = {} THEN "audio" ELSE "send"
    /\ UNCHANGED <<frame, needs, audio, sockets, stop, overtaken, history>>

(* A message that ends with this frame, to one connection of the snapshot: *)
(* it arrives; or the connection is gone, and the write fails, if not at   *)
(* once then later, and the client is unregistered.                        *)
Push(c, begin) ==
    /\ snap' = snap \ {c}
    /\ IF sock[c] = "open"
       THEN /\ sent'   = [sent EXCEPT ![c] = @ + 1]
            /\ frames' = [frames EXCEPT ![c] = @ + (frame + 1 - begin)]
            /\ first'  = [first EXCEPT ![c] = IF sent[c] = 0 THEN begin ELSE @]
            /\ last'   = [last EXCEPT ![c] = frame]
            /\ UNCHANGED clients
       ELSE clients' \in {clients, clients \ {c}} /\ UNCHANGED <<sent, frames, first, last>>
    /\ UNCHANGED <<frame, needs, served, sock, stop, overtaken, joins>>

SendFrame ==
    /\ emu = "send"
    /\ \E c \in snap : Push(c, frame)
    /\ emu' = IF snap' = {} THEN "audio" ELSE "send"
    /\ UNCHANGED audio

-----------------------------------------------------------------------------
(* %PUSH-AUDIO-FRAME and %SYNC-AUDIO-ATTACHMENT.                           *)

(* The client list is copied and the slot is read, which decide together.  *)
SnapAudio ==
    /\ emu = "audio"
    /\ snap' = clients \cap Listeners
    /\ emu' = CASE snap' # {} /\ ~slot -> "attach"
                [] snap' = {} /\ slot  -> "detach"
                [] OTHER               -> "drain"
    /\ UNCHANGED <<frame, needs, audio, sockets, stop, overtaken, history>>

(* MACHINE-ATTACH-AUDIO of a new unit, with an empty buffer.               *)
Attach ==
    /\ emu = "attach" /\ emu' = "slot"
    /\ attached' = TRUE /\ from' = frame + 1
    /\ UNCHANGED <<frame, needs, snap, slot, chunk, sockets, stop, overtaken, history>>

Detach ==
    /\ emu = "detach" /\ emu' = "unslot"
    /\ attached' = FALSE /\ from' = 0
    /\ UNCHANGED <<frame, needs, snap, slot, chunk, sockets, stop, overtaken, history>>

SetSlot ==
    /\ emu \in {"slot", "unslot"} /\ emu' = "drain"
    /\ slot' = (emu = "slot")
    /\ UNCHANGED <<frame, needs, snap, attached, from, chunk, sockets, stop, overtaken,
                   history>>

(* Mutant: the buffer is read and not emptied.                             *)
DrainWithoutReset ==
    /\ emu = "drain"
    /\ IF snap # {} /\ attached /\ from <= frame
       THEN emu' = "pcm" /\ chunk' = from /\ UNCHANGED snap
       ELSE emu' = "top" /\ snap' = {} /\ UNCHANGED chunk
    /\ UNCHANGED <<frame, needs, attached, slot, from, sockets, stop, overtaken, history>>

(* Without a unit, and on the frame it was attached, there is nothing.     *)
Drain ==
    /\ emu = "drain"
    /\ IF snap # {} /\ attached /\ from <= frame
       THEN emu' = "pcm" /\ chunk' = from /\ from' = frame + 1 /\ UNCHANGED snap
       ELSE emu' = "top" /\ snap' = {} /\ UNCHANGED <<chunk, from>>
    /\ UNCHANGED <<frame, needs, attached, slot, sockets, stop, overtaken, history>>

SendPcm ==
    /\ emu = "pcm"
    /\ \E c \in snap : Push(c, chunk)
    /\ emu' = IF snap' = {} THEN "top" ELSE "pcm"
    /\ chunk' = IF snap' = {} THEN 0 ELSE chunk
    /\ UNCHANGED <<attached, slot, from>>

Emulator == RowZero \/ EndFrame \/ SnapVideo \/ SendFrame \/ SnapAudio
              \/ Attach \/ Detach \/ SetSlot \/ Drain \/ SendPcm

-----------------------------------------------------------------------------
(* Connections.                                                            *)

(* A client connects while there is a listener, and closes its end.  Once  *)
(* the stop has begun, the acceptor closes what it accepts.                *)
Open(c) ==
    /\ sock[c] = "out" /\ stop # "closed"
    /\ sock' = [sock EXCEPT ![c] = IF stop = "up" THEN "open" ELSE "cut"]
    /\ UNCHANGED <<emulator, clients, served, stop, overtaken, history>>

Shut(c) ==
    /\ sock[c] \in {"open", "cut"}
    /\ sock' = [sock EXCEPT ![c] = "shut"]
    /\ sent'   = [sent   EXCEPT ![c] = 0]
    /\ frames' = [frames EXCEPT ![c] = 0]
    /\ first'  = [first  EXCEPT ![c] = 0]
    /\ last'   = [last   EXCEPT ![c] = 0]
    /\ joins'  = [joins  EXCEPT ![c] = 0]
    /\ UNCHANGED <<emulator, clients, served, stop, overtaken>>

(* %AESP-ACCEPTOR: a connection accepted before the server was stopped is  *)
(* registered, a video client with a request for a full render.            *)
Register(c) ==
    /\ sock[c] \in {"open", "shut"} /\ c \notin served /\ stop # "closed"
    /\ served' = served \cup {c} /\ clients' = clients \cup {c}
    /\ IF c \in Viewers
       THEN /\ needs' = TRUE
            /\ joins' = [w \in Watchers |->
                            IF w \in Viewers /\ sent[w] > 0 THEN joins[w] + 1 ELSE joins[w]]
       ELSE UNCHANGED <<needs, joins>>
    /\ UNCHANGED <<frame, emu, snap, audio, sock, stop, overtaken, sent, frames, first, last>>

(* The reader meets the end of the stream and unregisters its client.      *)
Unregister(c) ==
    /\ c \in clients /\ sock[c] # "open"
    /\ clients' = clients \ {c}
    /\ UNCHANGED <<emulator, served, sock, stop, overtaken, history>>

-----------------------------------------------------------------------------
(* STOP-AESP-SERVER.                                                       *)

ClearCallbacks ==
    /\ \/ stop = "up" /\ stop' = "blind" /\ UNCHANGED overtaken
       \/ stop = "blind" /\ stop' = "deaf" /\ overtaken' = InHook
    /\ UNCHANGED <<emulator, sockets, history>>

StopReadsSlot ==
    /\ stop = "deaf"
    /\ stop' = IF slot THEN "detach" ELSE "close"
    /\ UNCHANGED <<emulator, sockets, overtaken, history>>

(* Mutant: the unit is forgotten without being detached.                   *)
StopDetachNot ==
    /\ stop = "detach" /\ stop' = "unslot"
    /\ UNCHANGED <<emulator, sockets, overtaken, history>>

StopDetach ==
    /\ stop = "detach" /\ stop' = "unslot"
    /\ attached' = FALSE /\ from' = 0
    /\ UNCHANGED <<frame, emu, needs, snap, slot, chunk, sockets, overtaken, history>>

StopForgets ==
    /\ stop = "unslot" /\ stop' = "close"
    /\ slot' = FALSE
    /\ UNCHANGED <<frame, emu, needs, snap, attached, from, chunk, sockets, overtaken, history>>

(* The listeners are closed, with what waits to be accepted, and every     *)
(* registered connection; one between the two keeps its socket, unless the *)
(* acceptor closed it since it saw that the server no longer runs.         *)
CloseAll ==
    /\ stop = "close" /\ stop' = "closed"
    /\ \E between \in SUBSET (Watchers \ served) :
          sock' = [c \in Watchers |->
                      IF sock[c] = "open" /\ c \notin between THEN "cut" ELSE sock[c]]
    /\ UNCHANGED <<emulator, clients, served, overtaken, history>>

Stop == ClearCallbacks \/ StopReadsSlot \/ StopDetach \/ StopForgets \/ CloseAll

HookNext ==
    \/ Emulator \/ Stop
    \/ \E c \in Watchers :
           Open(c) \/ Shut(c) \/ Register(c) \/ Unregister(c)

HookSpec == HookInit /\ [][HookNext]_hookVars

-----------------------------------------------------------------------------
(* Types.                                                                  *)
HookTypeOK ==
    /\ frame \in Nat
    /\ emu \in Outside \cup BeforeSync \cup Attaching \cup {"drain", "pcm"}
    /\ needs \in BOOLEAN /\ attached \in BOOLEAN /\ slot \in BOOLEAN
    /\ overtaken \in BOOLEAN
    /\ snap \subseteq Watchers /\ clients \subseteq served /\ served \subseteq Watchers
    /\ from \in Nat /\ chunk \in Nat
    /\ sock \in [Watchers -> {"out", "open", "shut", "cut"}]
    /\ stop \in {"up", "blind", "deaf", "detach", "unslot", "close", "closed"}
    /\ sent \in [Watchers -> Nat] /\ frames \in [Watchers -> Nat] /\ first \in [Watchers -> Nat]
    /\ last \in [Watchers -> Nat] /\ joins \in [Watchers -> Nat]

(* One AUDIO_PCM per frame: what a listener has been sent is consecutive   *)
(* frames, each in a chunk of its own, from its first one on, whoever else *)
(* comes or goes and whenever the server is stopped.                       *)
AudioSteady ==
    \A l \in Listeners : sent[l] > 0 =>
        /\ frames[l] = sent[l]
        /\ last[l] + 1 = first[l] + sent[l]

(* One FRAME_RAW per frame, but for pushes held off, of which another      *)
(* viewer that connects costs at most one: with AudioSteady, the Nth       *)
(* AUDIO_PCM and the Nth FRAME_RAW keep their distance while no viewer     *)
(* connects.                                                               *)
VideoSteady ==
    \A v \in Viewers : sent[v] > 0 =>
        /\ first[v] + sent[v] <= last[v] + 1
        /\ last[v] + 1 <= first[v] + sent[v] + joins[v]

(* A stopped server leaves the machine without an audio unit, so that no   *)
(* buffer grows that nobody drains: unless a hook was in progress when its *)
(* callback was cleared.                                                   *)
StopDetaches == stop = "closed" /\ ~InHook /\ attached => overtaken
=============================================================================
