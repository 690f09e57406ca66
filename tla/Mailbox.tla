------------------------------- MODULE Mailbox -------------------------------
(***************************************************************************)
(* The command mailbox and the run loop of src/src/machine.lisp.           *)
(*                                                                         *)
(* Server threads (AESP and CLI readers, the launch scripts) call          *)
(* MACHINE-SUBMIT, which posts a command under the mailbox lock and then   *)
(* waits on the command's own condition variable.  One emulator thread     *)
(* runs MACHINE-RUN-LOOP: test the stop flag, drain the mailbox, then run  *)
(* a frame or park.  START-MACHINE and STOP-MACHINE create and end that    *)
(* thread; the servers' stop functions end the submitting threads.         *)
(*                                                                         *)
(* Each action is one critical section, or one step of a thread between    *)
(* two of them.  A submitter has at most one command outstanding, so a     *)
(* command is named by its submitter.                                      *)
(***************************************************************************)
EXTENDS Naturals, Sequences, SequencesExt

CONSTANTS Clients,    \* submitting threads
          NoCmd,      \* "no command is being run"
          Ops,        \* what commands ask for, a subset of AllOps
          SoftCap,    \* command-mailbox-soft-cap (1024 in the code)
          MaxStarts   \* bound: how often START-MACHINE is called

(* "probe" stands for every thunk that only reads (STATUS, READ, ...) and  *)
(* "fail" for one that signals an error.                                   *)
AllOps   == {"pause", "resume", "probe", "fail"}
Priority == {"pause", "resume"}
Values   == {"none", "error", "paused", "running"}

ASSUME OpsAssumption == Ops \subseteq AllOps
ASSUME NoCmdAssumption == NoCmd \notin Clients
ASSUME SoftCapAssumption == SoftCap \in Nat \ {0}
ASSUME MaxStartsAssumption == MaxStarts \in Nat

VARIABLES
    queue,     \* command-mailbox-queue, newest first
    count,     \* command-mailbox-count
    batch,     \* commands MAILBOX-DRAIN took and has not run, oldest first
    cur,       \* the command whose thunk has run and is not yet marked done
    op,        \* op[c]: what c's command asks for; "none" without one
    value,     \* value[c]: result or error slot of c's command
    done,      \* done[c]: the done slot of c's command
    cpc,       \* cpc[c]: where thread c is
    reply,     \* reply[c]: what MACHINE-SUBMIT last gave thread c
    loop,      \* where the emulator thread is
    stop,      \* the runner's stop cell
    running,   \* RUNNING-P
    prioFlag,  \* PRIORITY-PENDING-FLAG
    starts,    \* calls of START-MACHINE so far
    waited,    \* waited[c]: frames begun since c's command was queued
    lost       \* submitters whose drained command died with its loop

box   == <<queue, count>>
cmds  == <<op, value, done>>
vars  == <<queue, count, batch, cur, op, value, done, cpc, reply, loop, stop,
           running, prioFlag, starts, waited, lost>>

LoopStates   == {"none", "check", "drain", "run", "choose", "frame", "parked",
                 "dead"}
ClientStates == {"idle", "posted", "checking", "asleep", "gone"}

Alive      == loop \notin {"none", "dead"}
Waiting(c) == cpc[c] \in {"posted", "checking", "asleep"}
Queued     == Range(queue)
Taken      == Range(batch)
Held       == Queued \cup Taken \cup ({cur} \ {NoCmd})

TypeOK ==
    /\ queue \in Seq(Clients)
    /\ count \in 0..SoftCap
    /\ batch \in Seq(Clients)
    /\ cur \in Clients \cup {NoCmd}
    /\ op \in [Clients -> Ops \cup {"none"}]
    /\ value \in [Clients -> Values]
    /\ done \in [Clients -> BOOLEAN]
    /\ cpc \in [Clients -> ClientStates]
    /\ reply \in [Clients -> Values \cup {"busy"}]
    /\ loop \in LoopStates
    /\ stop \in BOOLEAN
    /\ running \in BOOLEAN
    /\ prioFlag \in BOOLEAN
    /\ starts \in 0..MaxStarts
    /\ waited \in [Clients -> Nat]
    /\ lost \subseteq Clients

Init ==
    /\ queue = <<>> /\ count = 0 /\ batch = <<>> /\ cur = NoCmd
    /\ op = [c \in Clients |-> "none"]
    /\ value = [c \in Clients |-> "none"]
    /\ done = [c \in Clients |-> FALSE]
    /\ cpc = [c \in Clients |-> "idle"]
    /\ reply = [c \in Clients |-> "none"]
    /\ loop = "none" /\ stop = FALSE /\ running = FALSE /\ prioFlag = FALSE
    /\ starts = 0
    /\ waited = [c \in Clients |-> 0]
    /\ lost = {}

-----------------------------------------------------------------------------
(* MACHINE-SUBMIT, on the submitting thread.                               *)

(* Mutant: the cap is tested one too late.                                 *)
HasRoomOffByOne == count <= SoftCap

HasRoom == count < SoftCap

(* Mutant: the post forgets to notify.                                     *)
NotifyLoopMissing == UNCHANGED loop

(* CONDITION-NOTIFY on the mailbox: a parked loop re-enters its cycle.     *)
NotifyLoop == loop' = IF loop = "parked" THEN "check" ELSE loop

(* MAILBOX-ENQUEUE answers :OK.                                            *)
Post(c, o) ==
    /\ cpc[c] = "idle"
    /\ HasRoom
    /\ queue' = <<c>> \o queue
    /\ count' = count + 1
    /\ NotifyLoop
    /\ op' = [op EXCEPT ![c] = o]
    /\ value' = [value EXCEPT ![c] = "none"]
    /\ done' = [done EXCEPT ![c] = FALSE]
    /\ cpc' = [cpc EXCEPT ![c] = "posted"]
    /\ waited' = [waited EXCEPT ![c] = 0]
    /\ reply' = [reply EXCEPT ![c] = "none"]
    /\ UNCHANGED <<batch, cur, stop, running, prioFlag, starts, lost>>

(* MAILBOX-ENQUEUE answers :BUSY; MAILBOX-FULL becomes a busy reply.       *)
PostBusy(c) ==
    /\ cpc[c] = "idle"
    /\ ~HasRoom
    /\ reply' = [reply EXCEPT ![c] = "busy"]
    /\ UNCHANGED <<box, batch, cur, cmds, cpc, loop, stop, running, prioFlag,
                   starts, waited, lost>>

(* The flag is set after the mailbox lock is released.                     *)
FlagPriority(c) ==
    /\ cpc[c] = "posted"
    /\ prioFlag' = (prioFlag \/ op[c] \in Priority)
    /\ cpc' = [cpc EXCEPT ![c] = "checking"]
    /\ UNCHANGED <<box, batch, cur, cmds, reply, loop, stop, running, starts,
                   waited, lost>>

(* Mutant: the wait is entered without testing DONE.                       *)
SleepUntested(c) ==
    /\ cpc[c] = "checking"
    /\ cpc' = [cpc EXCEPT ![c] = "asleep"]
    /\ UNCHANGED <<box, batch, cur, cmds, reply, loop, stop, running,
                   prioFlag, starts, waited, lost>>

(* Under the command's lock: not done, so wait on its condition variable.  *)
Sleep(c) ==
    /\ cpc[c] = "checking"
    /\ ~done[c]
    /\ cpc' = [cpc EXCEPT ![c] = "asleep"]
    /\ UNCHANGED <<box, batch, cur, cmds, reply, loop, stop, running,
                   prioFlag, starts, waited, lost>>

(* Under the command's lock: done, so return the result or re-signal the   *)
(* error.  The command itself is dropped.                                  *)
Collect(c) ==
    /\ cpc[c] = "checking"
    /\ done[c]
    /\ reply' = [reply EXCEPT ![c] = value[c]]
    /\ cpc' = [cpc EXCEPT ![c] = "idle"]
    /\ op' = [op EXCEPT ![c] = "none"]
    /\ value' = [value EXCEPT ![c] = "none"]
    /\ done' = [done EXCEPT ![c] = FALSE]
    /\ UNCHANGED <<box, batch, cur, loop, stop, running, prioFlag, starts,
                   waited, lost>>

(* A condition variable may wake its waiter for no reason.                 *)
SpuriousWake(c) ==
    /\ cpc[c] = "asleep"
    /\ cpc' = [cpc EXCEPT ![c] = "checking"]
    /\ UNCHANGED <<box, batch, cur, cmds, reply, loop, stop, running,
                   prioFlag, starts, waited, lost>>

(* The reader thread ends: its peer left, or the server's stop function    *)
(* destroyed it, possibly while it was waiting.                            *)
Leave(c) ==
    /\ cpc[c] # "gone"
    /\ cpc' = [cpc EXCEPT ![c] = "gone"]
    /\ reply' = [reply EXCEPT ![c] = "none"]
    /\ UNCHANGED <<box, batch, cur, cmds, loop, stop, running, prioFlag,
                   starts, waited, lost>>

-----------------------------------------------------------------------------
(* MACHINE-RUN-LOOP, on the emulator thread.                               *)

(* Mutant: the stop flag is honoured only while the machine is paused.     *)
CheckStopWhenPaused ==
    /\ loop = "check"
    /\ loop' = IF stop /\ ~running THEN "dead" ELSE "drain"
    /\ UNCHANGED <<box, batch, cur, cmds, cpc, reply, stop, running, prioFlag,
                   starts, waited, lost>>

CheckStop ==
    /\ loop = "check"
    /\ loop' = IF stop THEN "dead" ELSE "drain"
    /\ UNCHANGED <<box, batch, cur, cmds, cpc, reply, stop, running, prioFlag,
                   starts, waited, lost>>

(* Mutants: the drain leaves the count, takes one command per frame, or    *)
(* takes the newest first.                                                 *)
DrainKeepsCount ==
    /\ loop = "drain"
    /\ batch' = Reverse(queue)
    /\ queue' = <<>>
    /\ loop' = "run"
    /\ UNCHANGED <<count, cur, cmds, cpc, reply, stop, running, prioFlag,
                   starts, waited, lost>>

DrainOne ==
    /\ loop = "drain"
    /\ batch' = IF queue = <<>> THEN <<>> ELSE <<Last(queue)>>
    /\ queue' = IF queue = <<>> THEN <<>> ELSE Front(queue)
    /\ count' = Len(queue')
    /\ loop' = "run"
    /\ UNCHANGED <<cur, cmds, cpc, reply, stop, running, prioFlag, starts,
                   waited, lost>>

DrainNewestFirst ==
    /\ loop = "drain"
    /\ batch' = queue
    /\ queue' = <<>>
    /\ count' = 0
    /\ loop' = "run"
    /\ UNCHANGED <<cur, cmds, cpc, reply, stop, running, prioFlag, starts,
                   waited, lost>>

(* MAILBOX-DRAIN takes everything queued, oldest first.                    *)
Drain ==
    /\ loop = "drain"
    /\ batch' = Reverse(queue)
    /\ queue' = <<>>
    /\ count' = 0
    /\ loop' = "run"
    /\ UNCHANGED <<cur, cmds, cpc, reply, stop, running, prioFlag, starts,
                   waited, lost>>

Effect(o) == CASE o = "pause"  -> FALSE
               [] o = "resume" -> TRUE
               [] OTHER        -> running

ThunkValue(o) == IF o = "fail" THEN "error"
                 ELSE IF Effect(o) THEN "running" ELSE "paused"

(* %RUN-COMMAND, first half: the thunk runs and its outcome is stored.     *)
RunThunk ==
    /\ loop = "run"
    /\ cur = NoCmd
    /\ batch # <<>>
    /\ cur' = Head(batch)
    /\ batch' = Tail(batch)
    /\ running' = Effect(op[Head(batch)])
    /\ value' = [value EXCEPT ![Head(batch)] = ThunkValue(op[Head(batch)])]
    /\ UNCHANGED <<box, op, done, cpc, reply, loop, stop, prioFlag, starts,
                   waited, lost>>

(* Mutant: done is set and nobody is told.                                 *)
NotifyClientMissing(c) == UNCHANGED cpc

(* CONDITION-NOTIFY on command c.                                          *)
NotifyClient(c) ==
    cpc' = [cpc EXCEPT ![c] = IF @ = "asleep" THEN "checking" ELSE @]

(* %RUN-COMMAND, second half: under the command's lock, done and notify.   *)
Finish ==
    /\ loop = "run"
    /\ cur # NoCmd
    /\ done' = [done EXCEPT ![cur] = TRUE]
    /\ NotifyClient(cur)
    /\ cur' = NoCmd
    /\ UNCHANGED <<box, batch, op, value, reply, loop, stop, running,
                   prioFlag, starts, waited, lost>>

(* The drain returns and PRIORITY-PENDING-FLAG is cleared.                 *)
EndBatch ==
    /\ loop = "run"
    /\ cur = NoCmd
    /\ batch = <<>>
    /\ prioFlag' = FALSE
    /\ loop' = "choose"
    /\ UNCHANGED <<box, batch, cur, cmds, cpc, reply, stop, running, starts,
                   waited, lost>>

BeginFrame ==
    /\ loop = "choose"
    /\ running
    /\ loop' = "frame"
    /\ waited' = [c \in Clients |-> IF c \in Queued THEN waited[c] + 1
                                    ELSE waited[c]]
    /\ UNCHANGED <<box, batch, cur, cmds, cpc, reply, stop, running, prioFlag,
                   starts, lost>>

EndFrame ==
    /\ loop = "frame"
    /\ loop' = "check"
    /\ UNCHANGED <<box, batch, cur, cmds, cpc, reply, stop, running, prioFlag,
                   starts, waited, lost>>

(* MAILBOX-WAIT: under the mailbox lock, sleep only if nothing is queued.  *)
Park ==
    /\ loop = "choose"
    /\ ~running
    /\ loop' = IF queue = <<>> THEN "parked" ELSE "check"
    /\ UNCHANGED <<box, batch, cur, cmds, cpc, reply, stop, running, prioFlag,
                   starts, waited, lost>>

(* The wait of 0.05 s runs out.                                            *)
ParkTimeout ==
    /\ loop = "parked"
    /\ loop' = "check"
    /\ UNCHANGED <<box, batch, cur, cmds, cpc, reply, stop, running, prioFlag,
                   starts, waited, lost>>

-----------------------------------------------------------------------------
(* START-MACHINE and STOP-MACHINE, on the owner's thread.                  *)

(* A new thread and a new stop cell.  RUNNING-P is not assigned.           *)
Start ==
    /\ ~Alive
    /\ starts < MaxStarts
    /\ loop' = "check"
    /\ stop' = FALSE
    /\ starts' = starts + 1
    /\ UNCHANGED <<box, batch, cur, cmds, cpc, reply, running, prioFlag,
                   waited, lost>>

RequestStop ==
    /\ Alive
    /\ ~stop
    /\ stop' = TRUE
    /\ UNCHANGED <<box, batch, cur, cmds, cpc, reply, loop, running, prioFlag,
                   starts, waited, lost>>

(* The thread outlived the timeout: DESTROY-THREAD, wherever it is.  What  *)
(* it had drained dies with its stack; the mailbox keeps the rest.         *)
Destroy ==
    /\ Alive
    /\ stop
    /\ loop' = "dead"
    /\ lost' = lost \cup (Held \ Queued)
    /\ batch' = <<>>
    /\ cur' = NoCmd
    /\ UNCHANGED <<box, cmds, cpc, reply, stop, running, prioFlag, starts,
                   waited>>

-----------------------------------------------------------------------------
LoopStep == \/ CheckStop \/ Drain \/ RunThunk \/ Finish \/ EndBatch
            \/ BeginFrame \/ EndFrame \/ Park \/ ParkTimeout

ClientStep(c) == FlagPriority(c) \/ Sleep(c) \/ Collect(c)

Next ==
    \/ \E c \in Clients, o \in Ops : Post(c, o)
    \/ \E c \in Clients : PostBusy(c) \/ ClientStep(c) \/ SpuriousWake(c)
                          \/ Leave(c)
    \/ LoopStep
    \/ Start \/ RequestStop \/ Destroy

Spec == Init /\ [][Next]_vars

(* The scheduler runs every thread that can run; nobody owes the system a  *)
(* new command, a start, a stop or a departure.                            *)
Fairness == WF_vars(LoopStep) /\ \A c \in Clients : WF_vars(ClientStep(c))

FairSpec == Spec /\ Fairness

-----------------------------------------------------------------------------
(* PROPERTIES                                                              *)

Injective(s) == \A i, j \in 1..Len(s) : s[i] = s[j] => i = j

(* Every command has one custodian: it sits once in the queue, or once in  *)
(* the drained batch, or is the one being run; while it does it is not     *)
(* done; the count is the length of the queue; and a waiting client's      *)
(* unfinished command has a custodian unless a loop was destroyed.         *)
(* (MAILBOX-ENQUEUE, MAILBOX-DRAIN and %RUN-COMMAND together.)             *)
Custody ==
    /\ count = Len(queue)
    /\ Injective(queue)
    /\ Injective(batch)
    /\ Queued \cap Taken = {}
    /\ cur \notin Queued \cup Taken
    /\ \A c \in Held : ~done[c]
    /\ \A c \in Held : cpc[c] # "idle"
    /\ batch # <<>> \/ cur # NoCmd => loop = "run"
    /\ Held \cap lost = {}
    /\ \A c \in lost : cpc[c] # "idle" /\ ~done[c]
    /\ \A c \in Clients : Waiting(c) /\ ~done[c] => c \in Held \cup lost

(* A client asleep on its command's condition variable is always still     *)
(* owed an answer: DONE is set and notified under the lock the client      *)
(* tests it under, so no wake-up is lost and no reply waits unread.        *)
NoSleepPastDone == \A c \in Clients : cpc[c] = "asleep" => ~done[c]

(* The emulator thread is parked only while nothing is queued: a command   *)
(* posted to a paused machine never waits for the 0.05 s timeout.          *)
NoParkOnWork == loop = "parked" => queue = <<>>

(* A command waits for at most one frame to be run, however many others    *)
(* are posted: pause, resume and reset act at the next frame boundary.     *)
OneFrameLatency == \A c \in Held : waited[c] <= 1

(* The mailbox implements the abstract command service: what waits, oldest *)
(* first, is the rest of the drained batch and then the queue.             *)
Pending == batch \o Reverse(queue)
Status  == [c \in Clients |-> IF Waiting(c) THEN "waiting" ELSE cpc[c]]

Svc == INSTANCE CommandService WITH
           pending <- Pending, status <- Status, asked <- op, outcome <- value

ImplementsCommandService == Svc!Spec

(* While the loop is neither stopped nor missing, every posted command is  *)
(* answered, whatever the other clients do.  A command that an earlier,    *)
(* destroyed loop had drained is never answered: it has no custodian.      *)
Serving   == Alive /\ ~stop
Answered  ==
    \A c \in Clients :
        (Waiting(c) /\ Serving /\ (c \in Held \/ done[c]))
            ~> (~Waiting(c) \/ ~Serving)

(* STOP-MACHINE's flag ends the loop by itself, under any load: the flag   *)
(* is tested once per iteration and an iteration is finite.                *)
StopEndsLoop == (Alive /\ stop) ~> ~Alive
=============================================================================
