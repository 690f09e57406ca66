------------------------------ MODULE Capture ------------------------------
(***************************************************************************)
(* The capture scripts (scripts/capture-video.py, capture-audio.py,        *)
(* capture-screenshot.py over aesp_client.py) at the ports of a server     *)
(* that may be stopped under them: fetch the configuration, connect, read  *)
(* Want[c] payloads, write, exit.  The socket's timeout is abstract: a     *)
(* read may time out whenever no whole message is there.                   *)
(***************************************************************************)
EXTENDS FrameHook

CONSTANTS Want,       \* --frames
          Recorders   \* those that write every frame as it is read

ASSUME WantAssumption == Want \in [Watchers -> Nat \ {0}] /\ Recorders \subseteq Viewers

VARIABLES
    script,   \* script[c]: where main is
    have,     \* payloads read by a script that goes on
    rc        \* exit code, NotYet until there is one

scripts == <<script, have, rc>>
vars == <<hookVars, script, have, rc>>

NotYet == 255

Init ==
    /\ HookInit
    /\ script = [c \in Watchers |-> "connect"] /\ have = [c \in Watchers |-> 0]
    /\ rc = [c \in Watchers |-> NotYet]

Goto(c, place) == script' = [script EXCEPT ![c] = place]

Exit(c, code) ==
    /\ Goto(c, "exit")
    /\ rc' = [rc EXCEPT ![c] = code] /\ UNCHANGED have

-----------------------------------------------------------------------------
(* The configuration comes from the control port, or the defaults when it  *)
(* does not: the capture goes on either way, and the server has one format.*)
Connect(c) ==
    /\ script[c] = "connect"
    /\ Open(c) /\ Goto(c, "read")
    /\ UNCHANGED <<have, rc>>

ConnectFails(c) ==
    /\ script[c] = "connect" /\ stop = "closed"
    /\ Exit(c, 1)
    /\ UNCHANGED hookVars

(* read_video_frame, read_audio_pcm: one message of the expected type.  A  *)
(* recorder writes it out before it reads on; the others close the socket  *)
(* after the last one, and write then.                                     *)
Read(c) ==
    /\ script[c] = "read" /\ have[c] < sent[c]
    /\ have' = [have EXCEPT ![c] = @ + 1]
    /\ IF c \in Recorders THEN Goto(c, "write") /\ UNCHANGED hookVars
       ELSE IF have'[c] = Want[c] THEN Goto(c, "write") /\ Shut(c)
       ELSE UNCHANGED <<script, hookVars>>
    /\ UNCHANGED rc

(* Mutant: no timeout is set on the socket.                                *)
ReadFailsAtEnd(c) ==
    /\ script[c] = "read" /\ sock[c] = "cut"
    /\ Shut(c) /\ Exit(c, 1)

(* A timeout, or the end of the stream.                                    *)
ReadFails(c) ==
    /\ script[c] = "read" /\ (sock[c] = "cut" \/ have[c] = sent[c])
    /\ Shut(c) /\ Exit(c, 1)

(* Mutant: one frame more than was asked for.                              *)
WriteOneMore(c) ==
    /\ script[c] = "write"
    /\ IF c \notin Recorders THEN Exit(c, 0) /\ UNCHANGED hookVars
       ELSE IF have[c] > Want[c] THEN Exit(c, 0) /\ Shut(c)
       ELSE Goto(c, "read") /\ UNCHANGED <<have, rc, hookVars>>

(* write_image, write_wav.                                                 *)
Write(c) ==
    /\ script[c] = "write"
    /\ IF c \notin Recorders THEN Exit(c, 0) /\ UNCHANGED hookVars
       ELSE IF have[c] = Want[c] THEN Exit(c, 0) /\ Shut(c)
       ELSE Goto(c, "read") /\ UNCHANGED <<have, rc, hookVars>>

WriteFails(c) ==
    /\ script[c] = "write"
    /\ Exit(c, 1)
    /\ IF c \in Recorders THEN Shut(c) ELSE UNCHANGED hookVars

Script(c) == Connect(c) \/ ConnectFails(c) \/ Read(c) \/ ReadFails(c)
               \/ Write(c) \/ WriteFails(c)

(* The server's threads.                                                   *)
Server ==
    /\ \/ Emulator \/ Stop
       \/ \E c \in Watchers : Register(c) \/ Unregister(c)
    /\ UNCHANGED scripts

(* The bound on frames is reached.                                         *)
Over == frame = MaxFrames /\ UNCHANGED vars

Scripts == \E c \in Watchers : Script(c)

Next == Server \/ Scripts \/ Over

(* The scripts go on: none of their waits is without end.  Nothing is      *)
(* asked of the server, whose emulator may be paused.                      *)
Spec == Init /\ [][Next]_vars /\ WF_vars(Scripts)

-----------------------------------------------------------------------------
(* Types; a script that reads on is short of its last payload, one that    *)
(* writes has something to write, and exit code 0 says that every payload  *)
(* asked for was read, wherever the server stopped or a timeout fell.      *)
TypeOK ==
    /\ HookTypeOK
    /\ script \in [Watchers -> {"connect", "read", "write", "exit"}]
    /\ have \in [Watchers -> Nat]
    /\ \A c \in Watchers :
          /\ rc[c] \in {NotYet, 0, 1} /\ (rc[c] = NotYet <=> script[c] # "exit")
          /\ script[c] = "read" => have[c] <= sent[c] /\ have[c] < Want[c]
          /\ script[c] = "write" =>
                have[c] <= Want[c] /\ (c \in Recorders \/ have[c] = Want[c])
          /\ rc[c] = 0 => have[c] = Want[c]

(* Every script ends, whatever the server does.                            *)
CaptureEnds == <>(\A c \in Watchers : script[c] = "exit")
=============================================================================
