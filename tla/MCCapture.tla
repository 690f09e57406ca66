----------------------------- MODULE MCCapture -----------------------------
(* A recording, the screenshot of somebody else, and two audio captures.   *)
EXTENDS Capture, TLC

CONSTANTS video, shot, wav1

MCWant == (video :> 2) @@ (shot :> 1) @@ (wav1 :> 2)
=============================================================================
