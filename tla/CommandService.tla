--------------------------- MODULE CommandService ---------------------------
(***************************************************************************)
(* What a machine's command mailbox promises to the threads that post to   *)
(* it: commands take effect one at a time, in the order they were          *)
(* accepted, each at most once, and a client is answered with the outcome  *)
(* of its own command.  A command may be refused, but only when at least   *)
(* SoftCap others are waiting; stopping the service may lose the oldest    *)
(* commands that were waiting, never a later one before an earlier one.    *)
(***************************************************************************)
EXTENDS Naturals, Sequences

CONSTANTS Clients,   \* threads that post commands
          Ops,       \* what a command asks for
          SoftCap    \* backlog that makes the service refuse

VARIABLES pending,   \* accepted commands not yet executed, oldest first
          asked,     \* asked[c]: what c's command asks for, or "none"
          running,   \* RUNNING-P, the machine state the commands act on
          status,    \* status[c]: where c stands with its command
          outcome,   \* outcome[c]: what executing c's command produced
          reply      \* reply[c]: the latest answer c was given

vars == <<pending, asked, running, status, outcome, reply>>

State(r) == IF r THEN "running" ELSE "paused"

(* The effect of an operation on RUNNING-P, and what its thunk returns.    *)
EffectOf(op, r) == CASE op = "pause"  -> FALSE
                     [] op = "resume" -> TRUE
                     [] OTHER         -> r

OutcomeOf(op, r) == IF op = "fail" THEN "error" ELSE State(EffectOf(op, r))

Init ==
    /\ pending = <<>>
    /\ asked = [c \in Clients |-> "none"]
    /\ running = FALSE
    /\ status = [c \in Clients |-> "idle"]
    /\ outcome = [c \in Clients |-> "none"]
    /\ reply = [c \in Clients |-> "none"]

Accept(c, op) ==
    /\ status[c] = "idle"
    /\ pending' = Append(pending, c)
    /\ asked' = [asked EXCEPT ![c] = op]
    /\ status' = [status EXCEPT ![c] = "waiting"]
    /\ outcome' = [outcome EXCEPT ![c] = "none"]
    /\ reply' = [reply EXCEPT ![c] = "none"]
    /\ UNCHANGED running

Refuse(c) ==
    /\ status[c] = "idle"
    /\ Len(pending) >= SoftCap
    /\ reply' = [reply EXCEPT ![c] = "busy"]
    /\ UNCHANGED <<pending, asked, running, status, outcome>>

(* The oldest command takes effect, at one instant.                        *)
Execute ==
    /\ pending # <<>>
    /\ LET c == Head(pending) IN
         /\ running' = EffectOf(asked[c], running)
         /\ outcome' = [outcome EXCEPT ![c] = OutcomeOf(asked[c], running)]
    /\ pending' = Tail(pending)
    /\ UNCHANGED <<asked, status, reply>>

Deliver(c) ==
    /\ status[c] = "waiting"
    /\ outcome[c] # "none"
    /\ reply' = [reply EXCEPT ![c] = outcome[c]]
    /\ status' = [status EXCEPT ![c] = "idle"]
    /\ outcome' = [outcome EXCEPT ![c] = "none"]
    /\ asked' = [asked EXCEPT ![c] = "none"]
    /\ UNCHANGED <<pending, running>>

(* The client's own thread ends; a command it posted still takes effect.   *)
Leave(c) ==
    /\ status[c] # "gone"
    /\ status' = [status EXCEPT ![c] = "gone"]
    /\ reply' = [reply EXCEPT ![c] = "none"]
    /\ UNCHANGED <<pending, asked, running, outcome>>

(* The service is killed and loses the n oldest commands.                  *)
Lose(n) ==
    /\ pending' = SubSeq(pending, n + 1, Len(pending))
    /\ UNCHANGED <<asked, running, status, outcome, reply>>

Next ==
    \/ \E c \in Clients, op \in Ops : Accept(c, op)
    \/ \E c \in Clients : Refuse(c) \/ Deliver(c) \/ Leave(c)
    \/ Execute
    \/ \E n \in 1..Len(pending) : Lose(n)

Spec == Init /\ [][Next]_vars
=============================================================================
