---------------------------- MODULE MailboxProofs ----------------------------
(***************************************************************************)
(* Proofs about the command mailbox, for every set of clients, soft cap    *)
(* and number of starts.  Custody is the heart of the inductive invariant: *)
(* the other safety properties say what a thread sees of a command, and    *)
(* that depends on where the command is.                                   *)
(***************************************************************************)
EXTENDS Mailbox, SequenceTheorems, TLAPS

(***************************************************************************)
(* Lemmas on the three ways the model moves commands between sequences.    *)
(***************************************************************************)

(* The range of a sequence, by its indices.                                *)
LEMMA RangeLemma ==
    ASSUME NEW S, NEW s \in Seq(S), NEW y
    PROVE  y \in Range(s) <=> \E i \in 1..Len(s) : y = s[i]
<1>1. DOMAIN s = 1..Len(s)
  OBVIOUS
<1>2. QED BY <1>1, Zenon DEF Range

(* Pushing a new element on the front of a repetition-free sequence, as    *)
(* MAILBOX-ENQUEUE does.                                                   *)
LEMMA PushLemma ==
    ASSUME NEW S, NEW s \in Seq(S), NEW x \in S, x \notin Range(s),
           Injective(s)
    PROVE  /\ <<x>> \o s \in Seq(S)
           /\ Len(<<x>> \o s) = Len(s) + 1
           /\ Range(<<x>> \o s) = Range(s) \cup {x}
           /\ Injective(<<x>> \o s)
<1> DEFINE t == <<x>> \o s
<1>1. /\ t \in Seq(S)
      /\ Len(s) \in Nat
      /\ Len(t) = Len(s) + 1
      /\ t[1] = x
      /\ \A i \in 1..Len(s) : t[i + 1] = s[i]
      /\ \A i \in 2..Len(t) : t[i] = s[i - 1]
  OBVIOUS
<1> HIDE DEF t
<1>2. /\ \A y : y \in Range(t) <=> \E i \in 1..Len(t) : y = t[i]
      /\ \A y : y \in Range(s) <=> \E i \in 1..Len(s) : y = s[i]
  BY <1>1, RangeLemma, ZenonT(30)
<1>3. \A i \in 2..Len(t) : i - 1 \in 1..Len(s) /\ t[i] \in Range(s)
  BY <1>1, <1>2
<1>4. Range(t) = Range(s) \cup {x}
  <2>1. ASSUME NEW y \in Range(t) PROVE y \in Range(s) \cup {x}
    <3>1. PICK i \in 1..Len(t) : y = t[i]
      BY <1>2, <2>1
    <3>2. i = 1 \/ i \in 2..Len(t)
      BY <1>1
    <3>3. QED BY <1>1, <1>3, <3>1, <3>2
  <2>2. x \in Range(t)
    <3>1. 1 \in 1..Len(t)
      BY <1>1
    <3>2. QED BY <1>1, <1>2, <3>1
  <2>3. ASSUME NEW y \in Range(s) PROVE y \in Range(t)
    <3>1. PICK i \in 1..Len(s) : y = s[i]
      BY <1>2, <2>3
    <3>2. i + 1 \in 1..Len(t) /\ t[i + 1] = y
      BY <1>1, <3>1
    <3>3. QED BY <1>2, <3>2
  <2>4. QED BY <2>1, <2>2, <2>3
<1>5. Injective(t)
  <2> SUFFICES ASSUME NEW i \in 1..Len(t), NEW j \in 1..Len(t), t[i] = t[j]
               PROVE  i = j
    BY DEF Injective
  <2>1. CASE i = 1 \/ j = 1
    BY <1>1, <1>3, <2>1
  <2>2. CASE i # 1 /\ j # 1
    <3>1. i \in 2..Len(t) /\ j \in 2..Len(t)
      BY <1>1, <2>2
    <3>2. /\ s[i - 1] = s[j - 1]
          /\ i - 1 \in 1..Len(s)
          /\ j - 1 \in 1..Len(s)
      BY <1>1, <1>3, <3>1
    <3>3. i - 1 = j - 1
      BY <3>2 DEF Injective
    <3>4. QED BY <3>1, <3>3
  <2>3. QED BY <2>1, <2>2
<1>6. QED BY <1>1, <1>4, <1>5 DEF t

(* Reversing keeps the elements and their number: NREVERSE in              *)
(* MAILBOX-DRAIN.                                                          *)
LEMMA ReverseLemma ==
    ASSUME NEW S, NEW s \in Seq(S), Injective(s)
    PROVE  /\ Reverse(s) \in Seq(S)
           /\ Len(Reverse(s)) = Len(s)
           /\ Range(Reverse(s)) = Range(s)
           /\ Injective(Reverse(s))
<1> DEFINE t == Reverse(s)
<1>1. /\ t \in Seq(S)
      /\ Len(s) \in Nat
      /\ Len(t) = Len(s)
      /\ \A i \in 1..Len(s) : t[i] = s[(Len(s) - i) + 1]
  BY DEF Reverse
<1> HIDE DEF t
<1>2. /\ \A y : y \in Range(t) <=> \E i \in 1..Len(t) : y = t[i]
      /\ \A y : y \in Range(s) <=> \E i \in 1..Len(s) : y = s[i]
  BY <1>1, RangeLemma, Zenon
<1>3. \A i \in 1..Len(s) : (Len(s) - i) + 1 \in 1..Len(s)
                           /\ t[(Len(s) - i) + 1] = s[i]
  BY <1>1
<1>4. ASSUME NEW y PROVE y \in Range(t) <=> y \in Range(s)
  <2>1. ASSUME NEW i \in 1..Len(t), y = t[i] PROVE y \in Range(s)
    BY <1>1, <1>2, <1>3, <2>1
  <2>2. ASSUME NEW i \in 1..Len(s), y = s[i] PROVE y \in Range(t)
    BY <1>1, <1>2, <1>3, <2>2
  <2>3. QED BY <1>2, <2>1, <2>2
<1>5. Injective(t)
  <2> SUFFICES ASSUME NEW i \in 1..Len(t), NEW j \in 1..Len(t), t[i] = t[j]
               PROVE  i = j
    BY DEF Injective
  <2>1. /\ s[(Len(s) - i) + 1] = s[(Len(s) - j) + 1]
        /\ (Len(s) - i) + 1 \in 1..Len(s)
        /\ (Len(s) - j) + 1 \in 1..Len(s)
    BY <1>1, <1>3
  <2>2. (Len(s) - i) + 1 = (Len(s) - j) + 1
    BY <2>1 DEF Injective
  <2>3. QED BY <1>1, <2>2
<1>6. QED BY <1>1, <1>4, <1>5 DEF t

(* Taking the head off a repetition-free sequence: the DOLIST of           *)
(* MAILBOX-DRAIN.                                                          *)
LEMMA PopLemma ==
    ASSUME NEW S, NEW s \in Seq(S), s # <<>>, Injective(s)
    PROVE  /\ Head(s) \in S
           /\ Head(s) \in Range(s)
           /\ Tail(s) \in Seq(S)
           /\ Range(Tail(s)) = Range(s) \ {Head(s)}
           /\ Injective(Tail(s))
<1> DEFINE t == Tail(s)
<1>1. /\ t \in Seq(S)
      /\ Len(s) \in Nat
      /\ Len(s) >= 1
      /\ Len(t) = Len(s) - 1
      /\ \A i \in 1..Len(t) : t[i] = s[i + 1] /\ i + 1 \in 1..Len(s)
      /\ \A i \in 2..Len(s) : s[i] = t[i - 1] /\ i - 1 \in 1..Len(t)
      /\ Head(s) = s[1]
      /\ Head(s) \in S
  OBVIOUS
<1> HIDE DEF t
<1>2. /\ \A y : y \in Range(t) <=> \E i \in 1..Len(t) : y = t[i]
      /\ \A y : y \in Range(s) <=> \E i \in 1..Len(s) : y = s[i]
  BY <1>1, RangeLemma, Zenon
<1>3. Head(s) \in Range(s)
  <2>1. 1 \in 1..Len(s)
    BY <1>1
  <2>2. QED BY <1>1, <1>2, <2>1
<1>4. ASSUME NEW y \in Range(t) PROVE y \in Range(s) \ {Head(s)}
  <2>1. PICK i \in 1..Len(t) : y = t[i]
    BY <1>2, <1>4
  <2>2. i + 1 \in 1..Len(s) /\ y = s[i + 1] /\ i + 1 # 1 /\ 1 \in 1..Len(s)
    BY <1>1, <2>1
  <2>3. s[i + 1] # s[1]
    BY <2>2 DEF Injective
  <2>4. QED BY <1>1, <1>2, <2>2, <2>3
<1>5. ASSUME NEW y \in Range(s) \ {Head(s)} PROVE y \in Range(t)
  <2>1. PICK i \in 1..Len(s) : y = s[i]
    BY <1>2, <1>5
  <2>2. i \in 2..Len(s)
    BY <1>1, <1>5, <2>1
  <2>3. QED BY <1>1, <1>2, <2>1, <2>2
<1>6. Injective(t)
  BY <1>1 DEF Injective
<1>7. QED BY <1>1, <1>3, <1>4, <1>5, <1>6 DEF t
-----------------------------------------------------------------------------
(***************************************************************************)
(* The inductive invariant.  Each of its parts needs the others: whether   *)
(* an answer may be slept through or a frame may be waited for depends on  *)
(* who holds the command, and custody depends on the types.                *)
(***************************************************************************)

(* Between the drain and the next frame, what is queued is new.            *)
FreshAfterDrain ==
    loop \in {"run", "choose"} => \A c \in Queued : waited[c] = 0

IInv == /\ TypeOK
        /\ Custody
        /\ NoSleepPastDone
        /\ NoParkOnWork
        /\ OneFrameLatency
        /\ FreshAfterDrain

(* The empty sequence holds nothing.                                       *)
LEMMA EmptyLemma ==
    ASSUME NEW S
    PROVE  <<>> \in Seq(S) /\ Len(<<>>) = 0 /\ Range(<<>>) = {} /\ Injective(<<>>)
<1>1. <<>> \in Seq(S) /\ Len(<<>>) = 0
  OBVIOUS
<1>2. \A y : ~(\E i \in 1..Len(<<>>) : y = <<>>[i])
  BY <1>1
<1>3. \A y : y \notin Range(<<>>)
  BY <1>1, <1>2, RangeLemma, Zenon
<1>4. QED BY <1>1, <1>3 DEF Injective

(* Commands are named by their submitters, wherever they are.              *)
LEMMA HeldAreClients ==
    ASSUME TypeOK
    PROVE  Queued \subseteq Clients /\ Taken \subseteq Clients /\ Held \subseteq Clients
<1>1. ASSUME NEW s \in Seq(Clients) PROVE Range(s) \subseteq Clients
  <2>1. \A i \in 1..Len(s) : s[i] \in Clients
    OBVIOUS
  <2>2. \A y : y \in Range(s) <=> \E i \in 1..Len(s) : y = s[i]
    BY RangeLemma, Zenon
  <2>3. QED BY <2>1, <2>2
<1>2. QED BY <1>1 DEF TypeOK, Queued, Taken, Held

(* A fresh machine: no command anywhere, so no custodian and no sleeper.   *)
LEMMA InitIInv == Init => IInv
<1> SUFFICES ASSUME Init PROVE IInv
  OBVIOUS
<1>1. queue = <<>> /\ batch = <<>>
  BY DEF Init
<1>2. /\ queue \in Seq(Clients) /\ Len(queue) = 0 /\ Queued = {} /\ Injective(queue)
      /\ batch \in Seq(Clients) /\ Taken = {} /\ Injective(batch)
  BY <1>1, EmptyLemma, Zenon DEF Queued, Taken
<1>3. Held = {}
  BY <1>2 DEF Held, Init
<1>4. TypeOK
  <2>1. /\ count \in 0..SoftCap
        /\ starts \in 0..MaxStarts
        /\ waited \in [Clients -> Nat]
    BY SoftCapAssumption, MaxStartsAssumption DEF Init
  <2>2. QED BY <1>2, <2>1 DEF Init, TypeOK, LoopStates, ClientStates, Values
<1>5. Custody
  BY <1>1, <1>2, <1>3 DEF Init, Custody, Waiting
<1>6. NoSleepPastDone /\ NoParkOnWork /\ OneFrameLatency /\ FreshAfterDrain
  BY <1>2, <1>3 DEF Init, NoSleepPastDone, NoParkOnWork, OneFrameLatency, FreshAfterDrain
<1>7. QED BY <1>4, <1>5, <1>6 DEF IInv

(* MACHINE-SUBMIT accepts a command: it enters the queue, and so leaves    *)
(* the emulator thread nothing to park on.                                 *)
LEMMA PostStep ==
    ASSUME IInv, NEW c \in Clients, NEW o \in Ops, Post(c, o)
    PROVE  IInv'
<1>1. cpc[c] = "idle"
  BY DEF Post
<1>2. c \notin Held /\ c \notin lost
  BY <1>1 DEF IInv, Custody
<1>3. c \notin Range(queue) /\ queue \in Seq(Clients) /\ Injective(queue)
  BY <1>2 DEF IInv, TypeOK, Custody, Held, Queued
<1>4. /\ queue' \in Seq(Clients)
      /\ Len(queue') = Len(queue) + 1
      /\ Queued' = Queued \cup {c}
      /\ Injective(queue')
  BY <1>3, PushLemma, ZenonT(30) DEF Post, Queued
<1>5. Taken' = Taken /\ cur' = cur /\ Held' = Held \cup {c} /\ lost' = lost
  BY <1>4 DEF Post, Held, Taken
<1>6. TypeOK'
  <2>1. count' \in 0..SoftCap
    BY SoftCapAssumption DEF Post, IInv, TypeOK, HasRoom
  <2>2. /\ op' \in [Clients -> Ops \cup {"none"}]
        /\ value' \in [Clients -> Values]
        /\ done' \in [Clients -> BOOLEAN]
    BY DEF Post, IInv, TypeOK, Values
  <2>3. /\ cpc' \in [Clients -> ClientStates]
        /\ reply' \in [Clients -> Values \cup {"busy"}]
        /\ waited' \in [Clients -> Nat]
        /\ loop' \in LoopStates
    BY DEF Post, IInv, TypeOK, NotifyLoop, LoopStates, ClientStates, Values
  <2>4. UNCHANGED <<batch, cur, stop, running, prioFlag, starts, lost>>
    BY DEF Post
  <2>5. QED BY <1>4, <2>1, <2>2, <2>3, <2>4 DEF IInv, TypeOK
<1>7. Custody'
  <2>1. count' = Len(queue') /\ Injective(batch')
    BY <1>4 DEF Post, IInv, Custody
  <2>2. Queued' \cap Taken' = {} /\ cur' \notin Queued' \cup Taken'
    BY <1>2, <1>4, <1>5, NoCmdAssumption DEF IInv, Custody, Held
  <2>3. \A d \in Held' : ~done'[d] /\ cpc'[d] # "idle"
    BY <1>5 DEF Post, IInv, TypeOK, Custody
  <2>4. batch' # <<>> \/ cur' # NoCmd => loop' = "run"
    BY DEF Post, IInv, Custody, NotifyLoop
  <2>5. /\ Held' \cap lost' = {}
        /\ \A d \in lost' : cpc'[d] # "idle" /\ ~done'[d]
    BY <1>2, <1>5 DEF Post, IInv, TypeOK, Custody
  <2>6. \A d \in Clients : Waiting(d)' /\ ~done'[d] => d \in Held' \cup lost'
    BY <1>5 DEF Post, IInv, TypeOK, Custody, Waiting
  <2>7. QED BY <1>4, <2>1, <2>2, <2>3, <2>4, <2>5, <2>6 DEF Custody
<1>8. NoSleepPastDone' /\ NoParkOnWork'
  BY DEF Post, IInv, TypeOK, NoSleepPastDone, NoParkOnWork, NotifyLoop
<1>9. OneFrameLatency' /\ FreshAfterDrain'
  BY <1>4, <1>5
     DEF Post, IInv, TypeOK, NotifyLoop, OneFrameLatency, FreshAfterDrain
<1>10. QED BY <1>6, <1>7, <1>8, <1>9 DEF IInv

(* The other steps of a submitting thread move no command.                 *)
LEMMA ClientStepsKeep ==
    ASSUME IInv, NEW c \in Clients,
           PostBusy(c) \/ ClientStep(c) \/ SpuriousWake(c) \/ Leave(c)
    PROVE  IInv'
<1>1. /\ UNCHANGED <<queue, count, batch, cur, loop, waited, lost>>
      /\ Queued' = Queued /\ Taken' = Taken /\ Held' = Held
  BY DEF PostBusy, ClientStep, FlagPriority, Sleep, Collect, SpuriousWake,
         Leave, box, Queued, Taken, Held
<1>2. NoParkOnWork' /\ OneFrameLatency' /\ FreshAfterDrain'
  BY <1>1 DEF IInv, NoParkOnWork, OneFrameLatency, FreshAfterDrain
<1>3. CASE PostBusy(c)
  <2>1. TypeOK'
    BY <1>1, <1>3 DEF PostBusy, IInv, TypeOK, cmds
  <2>2. Custody' /\ NoSleepPastDone'
    BY <1>1, <1>3 DEF PostBusy, IInv, Custody, NoSleepPastDone, Waiting, cmds
  <2>3. QED BY <1>2, <2>1, <2>2 DEF IInv
<1>4. CASE FlagPriority(c)
  <2>1. TypeOK'
    BY <1>1, <1>4 DEF FlagPriority, IInv, TypeOK, cmds, ClientStates
  <2>2. Custody' /\ NoSleepPastDone'
    BY <1>1, <1>4
       DEF FlagPriority, IInv, TypeOK, Custody, NoSleepPastDone, Waiting, cmds
  <2>3. QED BY <1>2, <2>1, <2>2 DEF IInv
<1>5. CASE Sleep(c)
  <2>1. TypeOK'
    BY <1>1, <1>5 DEF Sleep, IInv, TypeOK, cmds, ClientStates
  <2>2. Custody' /\ NoSleepPastDone'
    BY <1>1, <1>5
       DEF Sleep, IInv, TypeOK, Custody, NoSleepPastDone, Waiting, cmds
  <2>3. QED BY <1>2, <2>1, <2>2 DEF IInv
<1>6. CASE Collect(c)
  <2>1. TypeOK'
    BY <1>1, <1>6 DEF Collect, IInv, TypeOK, ClientStates, Values
  <2>2. c \notin Held /\ c \notin lost
    BY <1>6 DEF Collect, IInv, Custody
  <2>3. Custody' /\ NoSleepPastDone'
    BY <1>1, <1>6, <2>2
       DEF Collect, IInv, TypeOK, Custody, NoSleepPastDone, Waiting
  <2>4. QED BY <1>2, <2>1, <2>3 DEF IInv
<1>7. CASE SpuriousWake(c)
  <2>1. TypeOK'
    BY <1>1, <1>7 DEF SpuriousWake, IInv, TypeOK, cmds, ClientStates
  <2>2. Custody' /\ NoSleepPastDone'
    BY <1>1, <1>7
       DEF SpuriousWake, IInv, TypeOK, Custody, NoSleepPastDone, Waiting, cmds
  <2>3. QED BY <1>2, <2>1, <2>2 DEF IInv
<1>8. CASE Leave(c)
  <2>1. TypeOK'
    BY <1>1, <1>8 DEF Leave, IInv, TypeOK, cmds, ClientStates, Values
  <2>2. Custody' /\ NoSleepPastDone'
    BY <1>1, <1>8
       DEF Leave, IInv, TypeOK, Custody, NoSleepPastDone, Waiting, cmds
  <2>3. QED BY <1>2, <2>1, <2>2 DEF IInv
<1>9. QED BY <1>3, <1>4, <1>5, <1>6, <1>7, <1>8 DEF ClientStep
(* Steps of the emulator thread and its owner that only move the thread or *)
(* the stop and priority flags.  Leaving "run" needs the batch consumed,   *)
(* and parking needs the queue empty: both are the guards' doing.          *)
LEMMA ControlStepsKeep ==
    ASSUME IInv,
           CheckStop \/ EndBatch \/ EndFrame \/ Park \/ ParkTimeout \/ Start
           \/ RequestStop
    PROVE  IInv'
<1>1. /\ UNCHANGED <<queue, count, batch, cur, op, value, done, cpc, reply,
                     running, waited, lost>>
      /\ Queued' = Queued /\ Taken' = Taken /\ Held' = Held
  BY DEF CheckStop, EndBatch, EndFrame, Park, ParkTimeout, Start, RequestStop,
         box, cmds, Queued, Taken, Held
<1>2. TypeOK'
  <2>1. /\ stop' \in BOOLEAN /\ prioFlag' \in BOOLEAN
        /\ loop' \in LoopStates
    BY DEF IInv, TypeOK, LoopStates, CheckStop, EndBatch, EndFrame, Park,
           ParkTimeout, Start, RequestStop
  <2>2. starts' \in 0..MaxStarts
    BY MaxStartsAssumption
       DEF IInv, TypeOK, CheckStop, EndBatch, EndFrame, Park, ParkTimeout,
           Start, RequestStop
  <2>3. QED BY <1>1, <2>1, <2>2 DEF IInv, TypeOK
<1>3. batch # <<>> \/ cur # NoCmd => loop' = "run"
  BY DEF IInv, Custody, CheckStop, EndBatch, EndFrame, Park, ParkTimeout,
         Start, RequestStop, Alive
<1>4. loop' = "parked" => queue = <<>>
  BY DEF IInv, NoParkOnWork, CheckStop, EndBatch, EndFrame, Park, ParkTimeout,
         Start, RequestStop
<1>5. loop' \in {"run", "choose"} => loop \in {"run", "choose"}
  BY DEF CheckStop, EndBatch, EndFrame, Park, ParkTimeout, Start, RequestStop
<1>6. Custody' /\ NoSleepPastDone'
  BY <1>1, <1>3 DEF IInv, Custody, NoSleepPastDone, Waiting
<1>7. NoParkOnWork' /\ OneFrameLatency' /\ FreshAfterDrain'
  BY <1>1, <1>4, <1>5
     DEF IInv, NoParkOnWork, OneFrameLatency, FreshAfterDrain
<1>8. QED BY <1>2, <1>6, <1>7 DEF IInv

(* MAILBOX-DRAIN moves custody from the queue to the batch, whole.         *)
LEMMA DrainStep ==
    ASSUME IInv, Drain
    PROVE  IInv'
<1>1. loop = "drain" /\ batch = <<>> /\ cur = NoCmd
  BY DEF Drain, IInv, Custody
<1>2. queue \in Seq(Clients) /\ Injective(queue)
  BY DEF IInv, TypeOK, Custody
<1>3. /\ batch' \in Seq(Clients)
      /\ Taken' = Queued
      /\ Injective(batch')
  BY <1>2, ReverseLemma, Zenon DEF Drain, Taken, Queued
<1>4. /\ queue' \in Seq(Clients) /\ Len(queue') = 0
      /\ Queued' = {} /\ Injective(queue')
  BY EmptyLemma, Zenon DEF Drain, Queued
<1>5. UNCHANGED <<cur, op, value, done, cpc, reply, stop, running, prioFlag,
                  starts, waited, lost>>
  BY DEF Drain, cmds
<1>6. Taken = {}
  BY <1>1, EmptyLemma, Zenon DEF Taken
<1>7. Held' = Held
  BY <1>1, <1>3, <1>4, <1>5, <1>6 DEF Held
<1>8. TypeOK'
  <2>1. count' \in 0..SoftCap /\ loop' \in LoopStates
    BY SoftCapAssumption DEF Drain, LoopStates
  <2>2. QED BY <1>3, <1>4, <1>5, <2>1 DEF IInv, TypeOK
<1>9. Custody'
  <2>1. count' = Len(queue') /\ loop' = "run" /\ cur' \notin Queued' \cup Taken'
    BY <1>1, <1>3, <1>4, <1>5 DEF Drain, IInv, Custody
  <2>2. QED BY <1>3, <1>4, <1>5, <1>7, <2>1 DEF IInv, Custody, Waiting
<1>10. NoSleepPastDone' /\ NoParkOnWork' /\ OneFrameLatency' /\ FreshAfterDrain'
  <2>1. loop' = "run"
    BY DEF Drain
  <2>2. QED BY <1>4, <1>5, <1>7, <2>1
               DEF IInv, NoSleepPastDone, NoParkOnWork, OneFrameLatency,
                   FreshAfterDrain
<1>11. QED BY <1>8, <1>9, <1>10 DEF IInv

(* The thunk runs: custody passes from the batch to the running command.   *)
LEMMA RunThunkStep ==
    ASSUME IInv, RunThunk
    PROVE  IInv'
<1>1. cur = NoCmd /\ batch # <<>> /\ loop = "run"
  BY DEF RunThunk
<1>2. batch \in Seq(Clients) /\ Injective(batch)
  BY DEF IInv, TypeOK, Custody
<1>3. /\ Head(batch) \in Clients
      /\ Head(batch) \in Taken
      /\ batch' \in Seq(Clients)
      /\ Taken' = Taken \ {Head(batch)}
      /\ Injective(batch')
  BY <1>1, <1>2, PopLemma, Zenon DEF RunThunk, Taken
<1>4. /\ UNCHANGED <<queue, count, op, done, cpc, reply, loop, stop, prioFlag,
                     starts, waited, lost>>
      /\ Queued' = Queued
      /\ cur' = Head(batch)
  BY DEF RunThunk, box, Queued
<1>5. cur' # NoCmd
  BY <1>3, <1>4, NoCmdAssumption
<1>6. Held' = Held
  BY <1>1, <1>3, <1>4, <1>5 DEF Held
<1>7. TypeOK'
  <2>1. running' \in BOOLEAN
    BY DEF RunThunk, IInv, TypeOK, Effect
  <2>2. value' \in [Clients -> Values]
    BY DEF RunThunk, IInv, TypeOK, ThunkValue, Values
  <2>3. QED BY <1>3, <1>4, <2>1, <2>2 DEF IInv, TypeOK
<1>8. Custody'
  <2>1. cur' \notin Queued' \cup Taken' /\ Queued' \cap Taken' = {}
    BY <1>3, <1>4 DEF IInv, Custody
  <2>2. QED BY <1>1, <1>3, <1>4, <1>6, <2>1 DEF IInv, Custody, Waiting
<1>9. NoSleepPastDone' /\ NoParkOnWork' /\ OneFrameLatency' /\ FreshAfterDrain'
  BY <1>4, <1>6
     DEF IInv, NoSleepPastDone, NoParkOnWork, OneFrameLatency, FreshAfterDrain
<1>10. QED BY <1>7, <1>8, <1>9 DEF IInv
(* DONE is set and notified: the command leaves custody and its client, if *)
(* asleep, is woken in the same critical section.                          *)
LEMMA FinishStep ==
    ASSUME IInv, Finish
    PROVE  IInv'
<1>1. cur # NoCmd /\ loop = "run" /\ cur \in Clients
  BY DEF Finish, IInv, TypeOK
<1>2. /\ UNCHANGED <<queue, count, batch, op, value, reply, loop, stop,
                     running, prioFlag, starts, waited, lost>>
      /\ Queued' = Queued /\ Taken' = Taken
      /\ cur' = NoCmd
  BY DEF Finish, box, Queued, Taken
<1>3. cur \in Held /\ cur \notin Queued \cup Taken /\ cur \notin lost
  BY <1>1 DEF IInv, Custody, Held
<1>4. Held' = Held \ {cur}
  BY <1>1, <1>2, <1>3 DEF Held
<1>5. /\ done' = [done EXCEPT ![cur] = TRUE]
      /\ cpc' = [cpc EXCEPT ![cur] = IF @ = "asleep" THEN "checking" ELSE @]
  BY DEF Finish, NotifyClient
<1>6. \A d \in Clients :
        /\ d # cur => cpc'[d] = cpc[d] /\ done'[d] = done[d]
        /\ cpc'[d] = "idle" => cpc[d] = "idle"
        /\ cpc'[cur] # "asleep" /\ done'[cur]
        /\ cpc'[d] \in {"posted", "checking", "asleep"}
              => cpc[d] \in {"posted", "checking", "asleep"}
  BY <1>1, <1>5 DEF IInv, TypeOK
<1>7. TypeOK'
  <2>1. done' \in [Clients -> BOOLEAN] /\ cpc' \in [Clients -> ClientStates]
    BY <1>1, <1>5 DEF IInv, TypeOK, ClientStates
  <2>2. QED BY <1>2, <2>1 DEF IInv, TypeOK
<1>8. Custody'
  <2>1. \A d \in Held' : ~done'[d] /\ cpc'[d] # "idle"
    <3>1. Held \subseteq Clients
      BY HeldAreClients DEF IInv
    <3>2. QED BY <1>4, <1>6, <3>1 DEF IInv, Custody
  <2>2. \A d \in lost' : ~done'[d] /\ cpc'[d] # "idle"
    BY <1>2, <1>3, <1>6 DEF IInv, TypeOK, Custody
  <2>3. \A d \in Clients : Waiting(d)' /\ ~done'[d] => d \in Held' \cup lost'
    BY <1>2, <1>4, <1>6 DEF IInv, Custody, Waiting
  <2>4. cur' \notin Queued' \cup Taken'
    <3>1. Queued \cup Taken \subseteq Clients
      BY HeldAreClients DEF IInv
    <3>2. QED BY <1>2, <3>1, NoCmdAssumption
  <2>5. QED BY <1>1, <1>2, <1>4, <2>1, <2>2, <2>3, <2>4 DEF IInv, Custody
<1>9. NoSleepPastDone'
  BY <1>6 DEF IInv, NoSleepPastDone
<1>10. NoParkOnWork' /\ OneFrameLatency' /\ FreshAfterDrain'
  BY <1>2, <1>4 DEF IInv, NoParkOnWork, OneFrameLatency, FreshAfterDrain
<1>11. QED BY <1>7, <1>8, <1>9, <1>10 DEF IInv

(* A frame begins right after a drain, so what is queued has waited for    *)
(* none before it.                                                         *)
LEMMA BeginFrameStep ==
    ASSUME IInv, BeginFrame
    PROVE  IInv'
<1>1. /\ UNCHANGED <<queue, count, batch, cur, op, value, done, cpc, reply,
                     stop, running, prioFlag, starts, lost>>
      /\ Queued' = Queued /\ Taken' = Taken /\ Held' = Held
      /\ loop = "choose" /\ loop' = "frame"
  BY DEF BeginFrame, box, cmds, Queued, Taken, Held
<1>2. batch = <<>> /\ cur = NoCmd
  BY <1>1 DEF IInv, Custody
<1>3. Held = Queued /\ Queued \subseteq Clients
  <2>1. Taken = {}
    BY <1>2, EmptyLemma, Zenon DEF Taken
  <2>2. QED BY <1>2, <2>1, HeldAreClients DEF IInv, Held
<1>4. \A c \in Clients :
        waited'[c] = IF c \in Queued THEN waited[c] + 1 ELSE waited[c]
  BY DEF BeginFrame
<1>5. waited' \in [Clients -> Nat]
  BY DEF BeginFrame, IInv, TypeOK
<1>6. TypeOK'
  BY <1>1, <1>5 DEF IInv, TypeOK, LoopStates
<1>7. Custody' /\ NoSleepPastDone'
  BY <1>1, <1>2 DEF IInv, Custody, NoSleepPastDone, Waiting
<1>8. \A c \in Held' : waited'[c] = 1
  BY <1>1, <1>3, <1>4 DEF IInv, FreshAfterDrain
<1>9. OneFrameLatency'
  BY <1>8 DEF OneFrameLatency
<1>10. NoParkOnWork' /\ FreshAfterDrain'
  BY <1>1 DEF NoParkOnWork, FreshAfterDrain
<1>11. QED BY <1>6, <1>7, <1>9, <1>10 DEF IInv

(* Killing the thread loses what it had drained and nothing else.          *)
LEMMA DestroyStep ==
    ASSUME IInv, Destroy
    PROVE  IInv'
<1>1. /\ UNCHANGED <<queue, count, op, value, done, cpc, reply, stop, running,
                     prioFlag, starts, waited>>
      /\ Queued' = Queued
      /\ lost' = lost \cup (Held \ Queued)
      /\ batch' = <<>> /\ cur' = NoCmd /\ loop' = "dead"
  BY DEF Destroy, box, cmds, Queued
<1>2. /\ batch' \in Seq(Clients) /\ Taken' = {} /\ Injective(batch')
  BY <1>1, EmptyLemma, Zenon DEF Taken
<1>3. Held' = Queued
  BY <1>1, <1>2 DEF Held
<1>4. Held \subseteq Clients /\ Queued \subseteq Held
  BY HeldAreClients DEF IInv, Held
<1>5. TypeOK'
  BY <1>1, <1>2, <1>4 DEF IInv, TypeOK, LoopStates
<1>6. Custody'
  <2>1. cur' \notin Queued' \cup Taken'
    BY <1>1, <1>2, <1>4, NoCmdAssumption
  <2>2. /\ \A c \in Held' : ~done'[c] /\ cpc'[c] # "idle"
        /\ \A c \in lost' : ~done'[c] /\ cpc'[c] # "idle"
        /\ Held' \cap lost' = {}
    BY <1>1, <1>3, <1>4 DEF IInv, Custody
  <2>3. \A c \in Clients : Waiting(c)' /\ ~done'[c] => c \in Held' \cup lost'
    BY <1>1, <1>3 DEF IInv, Custody, Waiting
  <2>4. QED BY <1>1, <1>2, <2>1, <2>2, <2>3 DEF IInv, Custody
<1>7. NoSleepPastDone' /\ NoParkOnWork' /\ OneFrameLatency' /\ FreshAfterDrain'
  BY <1>1, <1>3, <1>4
     DEF IInv, NoSleepPastDone, NoParkOnWork, OneFrameLatency, FreshAfterDrain
<1>8. QED BY <1>5, <1>6, <1>7 DEF IInv

(* The invariant speaks of the state alone.                                *)
LEMMA StutterStep ==
    ASSUME IInv, UNCHANGED vars
    PROVE  IInv'
<1>1. UNCHANGED <<queue, count, batch, cur, op, value, done, cpc, reply, loop,
                  stop, running, prioFlag, starts, waited, lost>>
  BY DEF vars
<1>2. Queued' = Queued /\ Taken' = Taken /\ Held' = Held
  BY <1>1 DEF Queued, Taken, Held
<1>3. TypeOK' /\ Custody'
  BY <1>1, <1>2 DEF IInv, TypeOK, Custody, Waiting
<1>4. NoSleepPastDone' /\ NoParkOnWork' /\ OneFrameLatency' /\ FreshAfterDrain'
  BY <1>1, <1>2
     DEF IInv, NoSleepPastDone, NoParkOnWork, OneFrameLatency, FreshAfterDrain
<1>5. QED BY <1>3, <1>4 DEF IInv

(* One case for each step of a thread of machine.lisp.                     *)
LEMMA InductiveStep == IInv /\ [Next]_vars => IInv'
<1> SUFFICES ASSUME IInv, [Next]_vars PROVE IInv'
  OBVIOUS
<1>1. CASE \E c \in Clients, o \in Ops : Post(c, o)
  BY <1>1, PostStep
<1>2. CASE \E c \in Clients : PostBusy(c) \/ ClientStep(c) \/ SpuriousWake(c)
                              \/ Leave(c)
  BY <1>2, ClientStepsKeep
<1>3. CASE LoopStep
  BY <1>3, ControlStepsKeep, DrainStep, RunThunkStep, FinishStep,
     BeginFrameStep DEF LoopStep
<1>4. CASE Start \/ RequestStop
  BY <1>4, ControlStepsKeep
<1>5. CASE Destroy
  BY <1>5, DestroyStep
<1>6. CASE UNCHANGED vars
  BY <1>6, StutterStep
<1>7. QED BY <1>1, <1>2, <1>3, <1>4, <1>5, <1>6 DEF Next

(* The invariant holds of every behaviour of the mailbox.                  *)
THEOREM InductiveInvariant == Spec => []IInv
  BY InitIInv, InductiveStep, PTL DEF Spec

(* Every slot of the mailbox, the commands and the runner keeps its type,  *)
(* and the backlog never exceeds the soft cap.                             *)
THEOREM TypeCorrect == Spec => []TypeOK
<1>1. IInv => TypeOK
  BY DEF IInv
<1>2. QED BY <1>1, InductiveInvariant, PTL

(* No command is duplicated, dropped or finished while it is still held.   *)
THEOREM CustodyHolds == Spec => []Custody
<1>1. IInv => Custody
  BY DEF IInv
<1>2. QED BY <1>1, InductiveInvariant, PTL

(* No submitter sleeps through its own answer.                             *)
THEOREM NoLostAnswer == Spec => []NoSleepPastDone
<1>1. IInv => NoSleepPastDone
  BY DEF IInv
<1>2. QED BY <1>1, InductiveInvariant, PTL

(* No post is slept through by the emulator thread.                        *)
THEOREM NoLostPost == Spec => []NoParkOnWork
<1>1. IInv => NoParkOnWork
  BY DEF IInv
<1>2. QED BY <1>1, InductiveInvariant, PTL

(* Commands act at the next frame boundary.                                *)
THEOREM LatencyBound == Spec => []OneFrameLatency
<1>1. IInv => OneFrameLatency
  BY DEF IInv
<1>2. QED BY <1>1, InductiveInvariant, PTL

-----------------------------------------------------------------------------
(***************************************************************************)
(* The mailbox implements CommandService, for every set of clients, soft   *)
(* cap and number of starts.  Accepting is Post, executing is RunThunk,    *)
(* delivering is Collect; draining moves commands between the two          *)
(* sequences whose concatenation is the abstract backlog and changes       *)
(* nothing the clients can see.                                            *)
(***************************************************************************)
(* Reversing a queue with a new front puts the new element at the end.     *)
LEMMA ReversePush ==
    ASSUME NEW S, NEW q \in Seq(S), NEW b \in Seq(S), NEW x \in S
    PROVE  b \o Reverse(<<x>> \o q) = Append(b \o Reverse(q), x)
<1> DEFINE t == <<x>> \o q
<1> DEFINE r == Reverse(q)
<1> DEFINE u == Reverse(t)
<1>1. /\ t \in Seq(S)
      /\ Len(q) \in Nat
      /\ Len(t) = Len(q) + 1
      /\ t[1] = x
      /\ \A i \in 2..Len(t) : t[i] = q[i - 1]
  OBVIOUS
<1> HIDE DEF t
<1>2. /\ r \in Seq(S) /\ Len(r) = Len(q)
      /\ \A i \in 1..Len(q) : r[i] = q[(Len(q) - i) + 1]
  BY DEF Reverse
<1>3. /\ u \in Seq(S) /\ Len(u) = Len(t)
      /\ \A i \in 1..Len(t) : u[i] = t[(Len(t) - i) + 1]
  BY <1>1 DEF Reverse
<1> HIDE DEF r, u
<1>4. \A i \in 1..Len(q) : u[i] = r[i]
  <2> SUFFICES ASSUME NEW i \in 1..Len(q) PROVE u[i] = r[i]
    OBVIOUS
  <2> DEFINE k == (Len(t) - i) + 1
  <2>1. k \in 2..Len(t) /\ k - 1 = (Len(q) - i) + 1
    BY <1>1
  <2>2. i \in 1..Len(t)
    BY <1>1
  <2>3. u[i] = t[k]
    BY <1>3, <2>2
  <2>4. t[k] = q[k - 1]
    BY <1>1, <2>1
  <2>5. QED BY <1>2, <2>1, <2>3, <2>4
<1>5. u[Len(q) + 1] = x
  BY <1>1, <1>3
<1>6. u = Append(r, x)
  BY <1>1, <1>2, <1>3, <1>4, <1>5
<1>7. b \o Append(r, x) = Append(b \o r, x)
  BY <1>2
<1>8. QED BY <1>6, <1>7 DEF t, r, u

(* The reverse of nothing.                                                 *)
LEMMA ReverseEmpty == Reverse(<<>>) = <<>>
  BY DEF Reverse

(* Nothing on either side of a backlog leaves it as it is.                 *)
LEMMA ConcatEmpty ==
    ASSUME NEW S, NEW r \in Seq(S)
    PROVE  <<>> \o r = r /\ r \o <<>> = r
  OBVIOUS

-----------------------------------------------------------------------------
(* A finished command, or one whose thunk has run, has an outcome.         *)
HasOutcome == /\ \A c \in Clients : done[c] => value[c] # "none"
              /\ cur # NoCmd => value[cur] # "none"

RInv == IInv /\ HasOutcome

(* Only the steps that run or answer a thunk touch what HasOutcome says.   *)
LEMMA RInvStep == RInv /\ [Next]_vars => RInv'
<1> SUFFICES ASSUME RInv, [Next]_vars PROVE HasOutcome'
  BY InductiveStep DEF RInv
<1>1. IInv
  BY DEF RInv
<1>2. ASSUME NEW c \in Clients, NEW o \in Ops, Post(c, o) PROVE HasOutcome'
  <2>1. cur # c
    <3>1. c \notin Held
      BY <1>1, <1>2 DEF IInv, Custody, Post
    <3>2. QED BY <3>1, NoCmdAssumption DEF Held
  <2>2. QED BY <1>1, <1>2, <2>1 DEF Post, IInv, TypeOK, RInv, HasOutcome
<1>3. ASSUME NEW c \in Clients,
             PostBusy(c) \/ FlagPriority(c) \/ Sleep(c) \/ SpuriousWake(c)
             \/ Leave(c)
      PROVE  HasOutcome'
  BY <1>3 DEF PostBusy, FlagPriority, Sleep, SpuriousWake, Leave, cmds, RInv,
              HasOutcome
<1>4. ASSUME NEW c \in Clients, Collect(c) PROVE HasOutcome'
  <2>1. cur # c
    <3>1. c \notin Held
      BY <1>1, <1>4 DEF IInv, Custody, Collect
    <3>2. QED BY <3>1, NoCmdAssumption DEF Held
  <2>2. QED BY <1>1, <1>4, <2>1 DEF Collect, IInv, TypeOK, RInv, HasOutcome
<1>5. CASE RunThunk
  <2>1. Head(batch) \in Clients
    BY <1>1, <1>5, PopLemma DEF RunThunk, IInv, TypeOK, Custody
  <2>2. value' = [value EXCEPT ![Head(batch)] = ThunkValue(op[Head(batch)])]
        /\ cur' = Head(batch) /\ done' = done
    BY <1>5 DEF RunThunk
  <2>3. ThunkValue(op[Head(batch)]) # "none"
    BY DEF ThunkValue
  <2>4. QED BY <1>1, <2>1, <2>2, <2>3 DEF IInv, TypeOK, RInv, HasOutcome
<1>6. CASE Finish
  BY <1>1, <1>6 DEF Finish, IInv, TypeOK, RInv, HasOutcome
<1>7. CASE \/ CheckStop \/ Drain \/ EndBatch \/ BeginFrame \/ EndFrame \/ Park
           \/ ParkTimeout \/ Start \/ RequestStop
  BY <1>7 DEF CheckStop, Drain, EndBatch, BeginFrame, EndFrame, Park,
              ParkTimeout, Start, RequestStop, cmds, RInv, HasOutcome
<1>8. CASE Destroy
  BY <1>8 DEF Destroy, cmds, RInv, HasOutcome
<1>9. CASE UNCHANGED vars
  BY <1>9 DEF vars, RInv, HasOutcome
<1>10. QED BY <1>2, <1>3, <1>4, <1>5, <1>6, <1>7, <1>8, <1>9
              DEF Next, LoopStep, ClientStep

-----------------------------------------------------------------------------
(* The step simulation, action by action.                                  *)

(* A fresh machine is a fresh service: nothing accepted, nobody waiting.   *)
LEMMA InitRefines == Init => Svc!Init
<1> SUFFICES ASSUME Init PROVE Svc!Init
  OBVIOUS
<1>1. queue = <<>> /\ batch = <<>>
  BY DEF Init
<1>2. Pending = <<>>
  <2>1. <<>> \in Seq(Clients)
    OBVIOUS
  <2>2. QED BY <1>1, <2>1, ReverseEmpty, ConcatEmpty, Zenon DEF Pending
<1>3. Status = [c \in Clients |-> "idle"]
  BY DEF Init, Status, Waiting
<1>4. QED BY <1>2, <1>3 DEF Init, Svc!Init

(* Shapes of the backlog, for the actions that change it.                  *)
LEMMA PendingParts ==
    ASSUME IInv
    PROVE  /\ queue \in Seq(Clients) /\ batch \in Seq(Clients)
           /\ Reverse(queue) \in Seq(Clients)
           /\ Len(Reverse(queue)) = Len(queue)
           /\ Pending \in Seq(Clients)
           /\ Len(Pending) = Len(batch) + Len(queue)
<1>1. queue \in Seq(Clients) /\ batch \in Seq(Clients) /\ Injective(queue)
  BY DEF IInv, TypeOK, Custody
<1>2. Reverse(queue) \in Seq(Clients) /\ Len(Reverse(queue)) = Len(queue)
  BY <1>1, ReverseLemma, Zenon
<1>3. /\ Pending \in Seq(Clients)
      /\ Len(Pending) = Len(batch) + Len(Reverse(queue))
  <2> DEFINE r == Reverse(queue)
  <2>1. r \in Seq(Clients) /\ Pending = batch \o r
    BY <1>2 DEF Pending
  <2> HIDE DEF r
  <2>2. Pending \in Seq(Clients) /\ Len(Pending) = Len(batch) + Len(r)
    BY <1>1, <2>1
  <2>3. QED BY <2>2 DEF r
<1>4. QED BY <1>1, <1>2, <1>3

(* How a client's thread moves shows in the abstract status.               *)
LEMMA StatusOf ==
    ASSUME IInv, NEW c \in Clients, NEW v,
           cpc' = [cpc EXCEPT ![c] = v]
    PROVE  Status' = [Status EXCEPT ![c] =
                         IF v \in {"posted", "checking", "asleep"}
                         THEN "waiting" ELSE v]
  BY DEF IInv, TypeOK, Status, Waiting

(* MAILBOX-ENQUEUE with room in the backlog accepts the command.           *)
LEMMA PostRefines ==
    ASSUME IInv, NEW c \in Clients, NEW o \in Ops, Post(c, o)
    PROVE  Svc!Accept(c, o)
<1>1. Status[c] = "idle"
  BY DEF Post, Status, Waiting
<1>2. Status' = [Status EXCEPT ![c] = "waiting"]
  BY StatusOf DEF Post
<1>3. Pending' = Append(Pending, c)
  <2>1. queue' = <<c>> \o queue /\ batch' = batch
    BY DEF Post
  <2>2. batch \o Reverse(<<c>> \o queue) = Append(batch \o Reverse(queue), c)
    BY PendingParts, ReversePush, Zenon
  <2>3. QED BY <2>1, <2>2 DEF Pending
<1>4. QED BY <1>1, <1>2, <1>3 DEF Post, Svc!Accept

(* MAILBOX-ENQUEUE with a full backlog refuses it and leaves no trace.     *)
LEMMA PostBusyRefines ==
    ASSUME IInv, NEW c \in Clients, PostBusy(c)
    PROVE  Svc!Refuse(c)
<1>1. Status[c] = "idle"
  BY DEF PostBusy, Status, Waiting
<1>2. count = Len(queue) /\ count >= SoftCap
  BY SoftCapAssumption DEF PostBusy, HasRoom, IInv, TypeOK, Custody
<1>3. Len(Pending) >= SoftCap
  <2>1. Len(Pending) = Len(batch) + Len(queue) /\ Len(batch) \in Nat
    BY PendingParts
  <2>2. QED BY <1>2, <2>1, SoftCapAssumption DEF IInv, TypeOK
<1>4. Pending' = Pending /\ Status' = Status
  BY DEF PostBusy, box, Pending, Status, Waiting
<1>5. QED BY <1>1, <1>3, <1>4 DEF PostBusy, cmds, Svc!Refuse

(* A submitter that finds DONE set is delivered its own outcome.           *)
LEMMA CollectRefines ==
    ASSUME RInv, NEW c \in Clients, Collect(c)
    PROVE  Svc!Deliver(c)
<1>1. Status[c] = "waiting" /\ value[c] # "none"
  BY DEF Collect, Status, Waiting, RInv, HasOutcome
<1>2. Pending' = Pending
  BY DEF Collect, box, Pending
<1>3. Status' = [Status EXCEPT ![c] = "idle"]
  BY StatusOf DEF Collect, RInv
<1>4. QED BY <1>1, <1>2, <1>3 DEF Collect, Svc!Deliver

(* A submitter that goes away gives up its answer, not its command.        *)
LEMMA LeaveRefines ==
    ASSUME IInv, NEW c \in Clients, Leave(c)
    PROVE  Svc!Leave(c)
<1>1. Status[c] # "gone"
  BY DEF Leave, Status, Waiting
<1>2. Pending' = Pending
  BY DEF Leave, box, Pending
<1>3. Status' = [Status EXCEPT ![c] = "gone"]
  BY StatusOf DEF Leave
<1>4. QED BY <1>1, <1>2, <1>3 DEF Leave, cmds, Svc!Leave

(* A thunk run by the emulator thread is the command's one execution.      *)
LEMMA RunThunkRefines ==
    ASSUME IInv, RunThunk
    PROVE  Svc!Execute
<1>1. /\ Pending # <<>>
      /\ Head(Pending) = Head(batch)
      /\ Pending' = Tail(Pending)
  <2> DEFINE r == Reverse(queue)
  <2>1. /\ r \in Seq(Clients) /\ batch \in Seq(Clients) /\ batch # <<>>
        /\ Pending = batch \o r /\ Pending' = Tail(batch) \o r
    BY PendingParts DEF Pending, RunThunk, box
  <2> HIDE DEF r
  <2>2. /\ batch \o r # <<>>
        /\ Head(batch \o r) = Head(batch)
        /\ Tail(batch \o r) = Tail(batch) \o r
    BY <2>1
  <2>3. QED BY <2>1, <2>2, Zenon
<1>2. Status' = Status
  BY DEF RunThunk, Status, Waiting
<1>3. /\ running' = Effect(op[Head(batch)])
      /\ value' = [value EXCEPT ![Head(batch)] = ThunkValue(op[Head(batch)])]
      /\ UNCHANGED <<op, reply>>
  BY DEF RunThunk
<1>4. ASSUME NEW o
      PROVE  /\ Effect(o) = Svc!EffectOf(o, running)
             /\ ThunkValue(o) = Svc!OutcomeOf(o, running)
  BY DEF Effect, ThunkValue, Svc!EffectOf, Svc!OutcomeOf, Svc!State
<1>5. QED BY <1>1, <1>2, <1>3, <1>4 DEF Svc!Execute

(* A kill loses the rest of the batch, which is the front of the backlog.  *)
LEMMA DestroyRefines ==
    ASSUME IInv, Destroy
    PROVE  (\E n \in 1..Len(Pending) : Svc!Lose(n)) \/ UNCHANGED Svc!vars
<1> DEFINE r == Reverse(queue)
<1>1. /\ r \in Seq(Clients) /\ batch \in Seq(Clients)
      /\ Pending = batch \o r /\ Pending' = <<>> \o r
  BY PendingParts DEF Pending, Destroy, box
<1> HIDE DEF r
<1>2. /\ Pending' = r
      /\ Len(Pending) = Len(batch) + Len(r)
      /\ SubSeq(Pending, Len(batch) + 1, Len(Pending)) = r
  <2>1. /\ <<>> \o r = r
        /\ Len(batch \o r) = Len(batch) + Len(r)
        /\ SubSeq(batch \o r, Len(batch) + 1, Len(batch \o r)) = r
    BY <1>1
  <2>2. QED BY <1>1, <2>1, Zenon
<1>3. Status' = Status /\ UNCHANGED <<op, running, value, reply>>
  BY DEF Destroy, cmds, Status, Waiting
<1>4. CASE batch = <<>>
  <2>1. Pending = r
    BY <1>1, <1>4
  <2>2. QED BY <1>2, <1>3, <2>1 DEF Svc!vars
<1>5. CASE batch # <<>>
  <2>1. Len(batch) \in 1..Len(Pending)
    BY <1>1, <1>2, <1>5
  <2>2. Svc!Lose(Len(batch))
    BY <1>2, <1>3 DEF Svc!Lose
  <2>3. QED BY <2>1, <2>2
<1>6. QED BY <1>4, <1>5

(* Draining moves the queue into the batch: the backlog is the same.       *)
LEMMA DrainRefines ==
    ASSUME IInv, Drain
    PROVE  UNCHANGED Svc!vars
<1> DEFINE r == Reverse(queue)
<1>1. batch = <<>>
  BY DEF IInv, Custody, Drain
<1>2. /\ r \in Seq(Clients) /\ batch \in Seq(Clients)
      /\ Pending = batch \o r /\ Pending' = r \o <<>>
  BY PendingParts, ReverseEmpty DEF Pending, Drain
<1> HIDE DEF r
<1>3. Pending' = Pending
  BY <1>1, <1>2, ConcatEmpty, Zenon
<1>4. Status' = Status
  BY DEF Drain, Status, Waiting
<1>5. QED BY <1>3, <1>4 DEF Drain, cmds, Svc!vars

(* Every other step is invisible: it only moves a thread.                  *)
LEMMA ThreadStepsStutter ==
    ASSUME IInv,
           \/ \E c \in Clients : FlagPriority(c) \/ Sleep(c) \/ SpuriousWake(c)
           \/ CheckStop \/ Finish \/ EndBatch \/ BeginFrame \/ EndFrame \/ Park
           \/ ParkTimeout \/ Start \/ RequestStop \/ UNCHANGED vars
    PROVE  UNCHANGED Svc!vars
<1>1. UNCHANGED <<queue, batch, op, value, running, reply>>
  BY DEF FlagPriority, Sleep, SpuriousWake, CheckStop, Finish, EndBatch,
         BeginFrame, EndFrame, Park, ParkTimeout, Start, RequestStop, vars,
         box, cmds
<1>2. Pending' = Pending
  BY <1>1 DEF Pending
<1>3. Status' = Status
  <2>1. CASE \E c \in Clients : FlagPriority(c) \/ Sleep(c) \/ SpuriousWake(c)
    BY <2>1
       DEF FlagPriority, Sleep, SpuriousWake, IInv, TypeOK, Status, Waiting
  <2>2. CASE Finish
    BY <2>2 DEF Finish, NotifyClient, IInv, TypeOK, Status, Waiting
  <2>3. CASE \/ CheckStop \/ EndBatch \/ BeginFrame \/ EndFrame \/ Park
             \/ ParkTimeout \/ Start \/ RequestStop \/ UNCHANGED vars
    BY <2>3 DEF CheckStop, EndBatch, BeginFrame, EndFrame, Park, ParkTimeout,
                Start, RequestStop, vars, Status, Waiting
  <2>4. QED BY <2>1, <2>2, <2>3
<1>4. QED BY <1>1, <1>2, <1>3 DEF Svc!vars

(* Every step of the threads is a step of the service or none at all.      *)
LEMMA StepRefines == RInv /\ [Next]_vars => [Svc!Next]_(Svc!vars)
<1> SUFFICES ASSUME RInv, [Next]_vars PROVE Svc!Next \/ UNCHANGED Svc!vars
  OBVIOUS
<1>1. IInv
  BY DEF RInv
<1>2. ASSUME NEW c \in Clients, NEW o \in Ops, Post(c, o) PROVE Svc!Next
  BY <1>1, <1>2, PostRefines DEF Svc!Next
<1>3. ASSUME NEW c \in Clients, PostBusy(c) \/ Collect(c) \/ Leave(c)
      PROVE  Svc!Next
  BY <1>1, <1>3, PostBusyRefines, CollectRefines, LeaveRefines DEF Svc!Next
<1>4. CASE RunThunk
  BY <1>1, <1>4, RunThunkRefines DEF Svc!Next
<1>5. CASE Destroy
  BY <1>1, <1>5, DestroyRefines DEF Svc!Next
<1>6. CASE Drain
  BY <1>1, <1>6, DrainRefines
<1>7. CASE \/ \E c \in Clients : FlagPriority(c) \/ Sleep(c) \/ SpuriousWake(c)
           \/ CheckStop \/ Finish \/ EndBatch \/ BeginFrame \/ EndFrame \/ Park
           \/ ParkTimeout \/ Start \/ RequestStop \/ UNCHANGED vars
  BY <1>1, <1>7, ThreadStepsStutter
<1>8. QED BY <1>2, <1>3, <1>4, <1>5, <1>6, <1>7 DEF Next, LoopStep, ClientStep

(* The run loop with its mailbox is a FIFO command service: whatever the   *)
(* threads' interleaving, commands take effect one at a time in the order  *)
(* they were accepted, and every answer is that of the client's own        *)
(* command.                                                                *)
THEOREM MailboxImplementsService == Spec => ImplementsCommandService
<1>1. Init => RInv
  BY InitIInv DEF RInv, HasOutcome, Init
<1>2. QED BY <1>1, RInvStep, InitRefines, StepRefines, PTL
             DEF Spec, ImplementsCommandService, Svc!Spec

=============================================================================
