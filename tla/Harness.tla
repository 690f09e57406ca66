------------------------------ MODULE Harness ------------------------------
(***************************************************************************)
(* The protocol-comparison harness as a whole (compare-protocols.py,       *)
(* adapters.py, probes.py, reporters.py): probe the environment, launch    *)
(* the implementations one after the other, run every case against each,   *)
(* classify it, stop the servers unless they are to be kept, exit.         *)
(*                                                                         *)
(* External: the server processes and the rest of the machine.  A server   *)
(* may die whenever the harness looks at it, a launcher (`swift run') may  *)
(* die before its server, and some other process may take a port between   *)
(* its release by the harness and its binding by the server.  A port a     *)
(* server held is not taken again before the run is over.                  *)
(***************************************************************************)
EXTENDS CaseRun

CONSTANTS Order,     \* the implementations, in the order of --implementations
          Wrapped,   \* those started through a launcher, and polled with PING
          Suites     \* the case lists a run may be given

Impls == {Order[n] : n \in DOMAIN Order}

ASSUME WrappedAssumption == Wrapped \subseteq Impls

(* Every implementation is named once.                                     *)
ASSUME OrderAssumption ==
    /\ IsSeq(Order) /\ Order # << >>
    /\ \A m, n \in DOMAIN Order : Order[m] = Order[n] => m = n

ASSUME SuitesAssumption ==
    \A s \in Suites : IsSeq(s) /\ s # << >> /\ \A n \in DOMAIN s : IsCase(s[n])

VARIABLES
    main,      \* where _run_live is
    suite,     \* the selected cases
    keep,      \* --keep-servers-on-failure
    unix,      \* Unix-domain sockets can be had
    at,        \* index of the implementation being started, run or stopped
    started,   \* adapters whose start() returned
    leader,    \* leader[i]: the launcher of a wrapped implementation
    server,    \* server[i]: the server process
    port,      \* port[i]: who is bound to the control port given to i
    ready,     \* ready[i]: the READY line was seen
    per,       \* per_impl of the case in progress
    verdicts,  \* results: the cases classified so far
    listed,    \* cases written to failures.md
    exit       \* exit code

procs    == <<leader, server, port, ready>>
args     == <<suite, keep>>
mainVars == <<main, suite, keep, unix, at, started, per, verdicts, listed, exit>>
vars     == <<caseVars, mainVars, procs>>

Cur     == Order[at]
IsLast  == at = Len(Order)

NotYet     == 255        \* no exit code of the harness
ProcStates == {"none", "up", "dead"}

Init ==
    /\ CaseInit
    /\ main = "probe" /\ suite \in Suites /\ keep \in BOOLEAN /\ unix = FALSE
    /\ at = 1 /\ started = {} /\ per = << >> /\ verdicts = << >>
    /\ listed = {} /\ exit = NotYet
    /\ leader = [i \in Impls |-> "none"] /\ server = leader
    /\ port = [i \in Impls |-> "none"] /\ ready = [i \in Impls |-> FALSE]

-----------------------------------------------------------------------------
(* Probing and starting.                                                   *)

(* What the socket probes may find: a listener can be bound, connected to. *)
Environments == [{"tcp_bind", "tcp_connect", "unix_bind", "unix_connect"} -> BOOLEAN]

LiveTcp(env)  == env["tcp_bind"] /\ env["tcp_connect"]
LiveUnix(env) == env["unix_bind"] /\ env["unix_connect"]

(* A whole run without TCP loopback is refused when attic is among the     *)
(* implementations.  Without Unix sockets it goes on with a warning.       *)
Probe ==
    /\ main = "probe"
    /\ \E env \in Environments :
          /\ unix' = LiveUnix(env)
          /\ IF ~LiveTcp(env) /\ Wrapped # {}
             THEN main' = "done"  /\ exit' = 3
             ELSE main' = "spawn" /\ UNCHANGED exit
    /\ UNCHANGED <<args, at, started, per, verdicts, listed, procs, caseVars>>

(* An exception while starting: to the finally clause, without results.    *)
StartFails ==
    /\ main' = "stop" /\ at' = 1 /\ exit' = 1
    /\ UNCHANGED <<args, unix, started, per, verdicts, listed, procs, caseVars>>

(* Ports allocated and released, the process started: `swift run', or the  *)
(* Lisp itself with the launcher script.                                   *)
LaunchWrapped == leader' = [leader EXCEPT ![Cur] = "up"] /\ UNCHANGED server
LaunchServer  == server' = [server EXCEPT ![Cur] = "up"] /\ UNCHANGED leader

Spawn ==
    /\ main = "spawn"
    /\ main' = "await"
    /\ port' = [port EXCEPT ![Cur] = "free"]
    /\ IF Cur \in Wrapped THEN LaunchWrapped ELSE LaunchServer
    /\ UNCHANGED <<args, unix, at, started, per, verdicts, listed, exit, ready, caseVars>>

(* swift build fails, or the launcher script or Quicklisp is not there.    *)
SpawnFails == main = "spawn" /\ StartFails

(* start() returns; the next implementation, or the cases.                 *)
Started ==
    /\ started' = started \cup {Cur}
    /\ main' = IF IsLast THEN "case" ELSE "spawn"
    /\ at'   = IF IsLast THEN 1 ELSE at + 1
    /\ UNCHANGED <<args, unix, per, verdicts, listed, exit, procs, caseVars>>

(* _ping_aesp: whoever holds the port may answer; a foreign process may    *)
(* speak the protocol or not.                                              *)
Pinged ==
    /\ main = "await" /\ Cur \in Wrapped /\ leader[Cur] = "up"
    /\ port[Cur] = "foreign" \/ (port[Cur] = "own" /\ server[Cur] = "up")
    /\ Started

(* READY was read.  start() fails when the line does not parse or the PING *)
(* that follows it is not answered in time.                                *)
ReadySeen ==
    /\ main = "await" /\ Cur \notin Wrapped /\ ready[Cur]
    /\ (server[Cur] = "up" /\ Started) \/ StartFails

(* The launcher has exited, or the deadline passes.                        *)
AwaitFails ==
    /\ main = "await"
    /\ Cur \in Wrapped \/ ~ready[Cur]
    /\ StartFails

-----------------------------------------------------------------------------
(* The processes.                                                          *)

LauncherRuns ==
    /\ main = "await" /\ Cur \in Wrapped
    /\ leader[Cur] = "up" /\ server[Cur] = "none"
    /\ server' = [server EXCEPT ![Cur] = "up"]
    /\ UNCHANGED <<mainVars, leader, port, ready, caseVars>>

(* A server whose ports or, where the launcher script says so, whose CLI   *)
(* socket cannot be bound exits; one that can listens.                     *)
CanBind == port[Cur] = "free" /\ (unix \/ Cur \in Wrapped)

Binds ==
    /\ main = "await" /\ server[Cur] = "up" /\ port[Cur] # "own"
    /\ IF CanBind THEN port' = [port EXCEPT ![Cur] = "own"] /\ UNCHANGED server
                  ELSE server' = [server EXCEPT ![Cur] = "dead"] /\ UNCHANGED port
    /\ UNCHANGED <<mainVars, leader, ready, caseVars>>

Announces ==
    /\ main = "await" /\ Cur \notin Wrapped
    /\ server[Cur] = "up" /\ port[Cur] = "own" /\ ~ready[Cur]
    /\ ready' = [ready EXCEPT ![Cur] = TRUE]
    /\ UNCHANGED <<mainVars, leader, server, port, caseVars>>

ForeignBinds ==
    /\ main = "await" /\ port[Cur] = "free"
    /\ port' = [port EXCEPT ![Cur] = "foreign"]
    /\ UNCHANGED <<mainVars, leader, server, ready, caseVars>>

ServerDies ==
    /\ main \in {"await", "case"} /\ server[Cur] = "up"
    /\ server' = [server EXCEPT ![Cur] = "dead"]
    /\ IF Engaged /\ port[Cur] = "own" THEN closed' = TRUE /\ inbox' = << >> /\ outbox' = << >>
                  ELSE UNCHANGED <<closed, inbox, outbox>>
    /\ UNCHANGED <<mainVars, leader, port, ready, reader, wire, more>>

(* Nothing looks at the launcher while cases are run: whenever it dies in  *)
(* that time, it is dead when the adapter is stopped.                      *)
LauncherDies ==
    /\ main \in {"await", "stop"} /\ leader[Cur] = "up"
    /\ leader' = [leader EXCEPT ![Cur] = "dead"]
    /\ UNCHANGED <<mainVars, server, port, ready, caseVars>>

-----------------------------------------------------------------------------
(* The cases.                                                              *)

ThisCase == suite[Len(verdicts) + 1]

(* Who answers at the ports and the socket given to the implementation.    *)
Answering(i) ==
    IF ThisCase.protocol = "cli" /\ ~unix THEN "nobody"
    ELSE IF server[i] = "up" /\ port[i] = "own" THEN "own"
    ELSE IF port[i] = "foreign" /\ ThisCase.protocol = "aesp" THEN "foreign"
    ELSE "nobody"

(* validate_case finds an error: nothing is run.                           *)
Invalid ==
    /\ main = "case" /\ rpc = "idle" /\ ~ThisCase.valid
    /\ verdicts' = Append(verdicts, [class |-> "harness_error", per |-> << >>])
    /\ main' = IF Len(verdicts') = Len(suite) THEN "stop" ELSE "case"
    /\ UNCHANGED <<args, unix, at, started, per, listed, exit, procs, caseVars>>

Connects ==
    /\ main = "case" /\ rpc = "idle" /\ ThisCase.valid
    /\ Answering(Cur) # "nobody"
    /\ OpenCase(ThisCase)
    /\ UNCHANGED <<mainVars, procs>>

RunsCase ==
    /\ main = "case" /\ rpc # "idle"
    /\ Reader \/ Peer
    /\ UNCHANGED <<mainVars, procs>>

(* What execute_case keeps of one implementation, with three ghosts: that  *)
(* every step was run and met its expectation, that it was matched with    *)
(* its own answer, and whose answers they were.                            *)
Outcome ==
    IF rpc = "done"
    THEN [pass |-> CasePasses, norm |-> LastNorm,
          unsupported |-> ThisCase.protocol = "cli" /\ IsUnsupported(LastNorm),
          own |-> OwnAnswers, met |-> AllMet, by |-> IF port[Cur] = "own" THEN "own" ELSE "foreign"]
    ELSE [pass |-> FALSE, norm |-> NoRecord, unsupported |-> FALSE,
          own |-> FALSE, met |-> FALSE, by |-> "nobody"]

WithOutcome == [i \in DOMAIN per \cup {Cur} |-> IF i = Cur THEN Outcome ELSE per[i]]

Refusal == rpc = "idle" /\ Answering(Cur) = "nobody"

Verdict(all) == [class |-> Classify(Order, ThisCase, all), per |-> all]

(* The case ends on this implementation, with a verdict or an exception;   *)
(* after the last one it is classified.                                    *)
EndsCase ==
    /\ main = "case" /\ ThisCase.valid
    /\ rpc \in {"done", "raised"} \/ Refusal
    /\ CloseCase
    /\ LET all == WithOutcome
       IN IF IsLast
          THEN /\ verdicts' = Append(verdicts, Verdict(all))
               /\ per' = << >> /\ at' = 1
               /\ main' = IF Len(verdicts') = Len(suite) THEN "stop" ELSE "case"
          ELSE /\ per' = all /\ at' = at + 1
               /\ UNCHANGED <<verdicts, main>>
    /\ UNCHANGED <<args, unix, started, listed, exit, procs>>

-----------------------------------------------------------------------------
(* Stopping and reporting.                                                 *)

FailClasses == Impls \cup {"both_failure", "harness_error"}

Failed == {n \in DOMAIN verdicts : verdicts[n].class \in FailClasses}

Kept == keep /\ Failed # {}

(* Adapter.stop: SIGTERM to the group while its leader lives, SIGKILL to   *)
(* the leader if that does not end it.  A server behind a launcher gets    *)
(* only the SIGTERM, and may ignore it; nothing is signalled once the      *)
(* leader is gone.                                                         *)
StopWrapped(i) ==
    /\ leader' = [leader EXCEPT ![i] = "dead"]
    /\ \/ UNCHANGED server
       \/ leader[i] = "up" /\ server' = [server EXCEPT ![i] = "dead"]

(* Mutant: SIGTERM alone, which a server may ignore.                       *)
StopServerAsked(i) ==
    /\ server' = server \/ server' = [server EXCEPT ![i] = "dead"]
    /\ UNCHANGED leader

StopServer(i) == server' = [server EXCEPT ![i] = "dead"] /\ UNCHANGED leader

StopAdapter(i) == IF i \in Wrapped THEN StopWrapped(i) ELSE StopServer(i)

Stops ==
    /\ main = "stop"
    /\ IF Cur \in started /\ ~Kept THEN StopAdapter(Cur) ELSE UNCHANGED <<leader, server>>
    /\ main' = IF IsLast THEN "report" ELSE "stop"
    /\ at'   = IF IsLast THEN at ELSE at + 1
    /\ UNCHANGED <<args, unix, started, per, verdicts, listed, exit, port, ready, caseVars>>

(* write_failures_md has no place for harness errors.                      *)
Listed == {n \in Failed : verdicts[n].class # "harness_error"}

(* After an exception there is no report: it ends the process.             *)
Reports ==
    /\ main = "report"
    /\ main' = "done"
    /\ IF exit # NotYet THEN UNCHANGED <<listed, exit>>
       ELSE listed' = Listed /\ exit' = IF Failed # {} THEN 1 ELSE 0
    /\ UNCHANGED <<args, unix, at, started, per, verdicts, procs, caseVars>>

Harness == Probe \/ Spawn \/ SpawnFails \/ Pinged \/ ReadySeen \/ AwaitFails
             \/ Invalid \/ Connects \/ EndsCase \/ Stops \/ Reports

Processes == LauncherRuns \/ Binds \/ Announces \/ ForeignBinds \/ ServerDies
               \/ LauncherDies

Finished == main = "done" /\ UNCHANGED vars

Next == Harness \/ RunsCase \/ Processes \/ Finished

(* connect_cli has been called: Unix sockets are connected without a       *)
(* timeout, whatever the parameter of that name says.                      *)
Connecting ==
    /\ main = "case" /\ rpc = "idle"
    /\ ThisCase.valid /\ ThisCase.protocol = "cli"
    /\ Answering(Cur) # "nobody"

(* Every wait of the harness has a deadline but that connect: those of     *)
(* swift build, of the READY line, of a TCP connect, of a process that is  *)
(* to stop.                                                                *)
Timed == Probe \/ Spawn \/ SpawnFails \/ Pinged \/ ReadySeen \/ AwaitFails
           \/ Invalid \/ (Connects /\ ThisCase.protocol = "aesp")
           \/ EndsCase \/ Stops \/ Reports

(* The reader goes on as long as its recv returns, with data or after the  *)
(* timeout.  Nothing is assumed of the servers.                            *)
Spec == Init /\ [][Next]_vars /\ WF_vars(Timed)
             /\ WF_vars(main = "case" /\ Reader /\ UNCHANGED <<mainVars, procs>>)

-----------------------------------------------------------------------------
(* Types.                                                                  *)
TypeOK ==
    /\ main \in {"probe", "spawn", "await", "case", "stop", "report", "done"}
    /\ suite \in Suites /\ keep \in BOOLEAN /\ unix \in BOOLEAN
    /\ at \in DOMAIN Order
    /\ started \subseteq Impls
    /\ leader \in [Impls -> ProcStates] /\ server \in [Impls -> ProcStates]
    /\ port \in [Impls -> {"none", "free", "own", "foreign"}]
    /\ ready \in [Impls -> BOOLEAN]
    /\ Len(verdicts) <= Len(suite) /\ listed \subseteq DOMAIN verdicts
    /\ DOMAIN per \subseteq Impls
    /\ exit \in {NotYet, 0, 1, 3}
    /\ rpc \in {"idle", "send", "read", "done", "raised"}
    /\ rpc # "idle" => main = "case" /\ step \in DOMAIN case.steps
    /\ closed \in BOOLEAN

(* What is recorded tells what was on the connection: a record that names  *)
(* a type or a status was made from one answer and from its beginning, and *)
(* a silence that is no protocol error left every reply where it was.      *)
(* RecordIsWhole and SilenceTookNoReply, of every step of every case.      *)
RecordsTellTheWire == RecordIsWhole /\ SilenceTookNoReply

(* Exit code 0 is earned: every required implementation was put through    *)
(* every step of every case and met it, or had leave to lack it, and       *)
(* failures.md is empty; and in a case whose steps put up with neither  *)
(* silence nor disconnection, each step was answered by the answer to its  *)
(* own request, and by the server that was started unless only a PING told *)
(* that it was up.                                                         *)
ZeroIsEarned ==
    main = "done" /\ exit = 0 =>
        /\ Len(verdicts) = Len(suite) /\ listed = {}
        /\ \A n \in DOMAIN suite : \A i \in Impls \cap suite[n].required :
              LET o == verdicts[n].per[i]
              IN \/ i \in suite[n].accepted /\ o.unsupported
                 \/ /\ o.met
                    /\ Strict(suite[n]) => o.own /\ (i \in Wrapped \/ o.by = "own")

(* The class of a case every implementation is required for is the one of  *)
(* README.md's table: named after the one that does not conform, both if   *)
(* several do not, and if all do, pass exactly when their views agree.     *)
Conform(v) == {i \in Impls : v.per[i].pass}

TableClass(v, c) ==
    LET not == Impls \ Conform(v)
    IN IF not = {} THEN IF SemanticMatch(Order, c.protocol, c.exact, v.per)
                        THEN "pass" ELSE "accepted_difference"
       ELSE IF \A i, j \in not : i = j THEN CHOOSE i \in not : TRUE
       ELSE "both_failure"

ClassIsTable ==
    \A n \in DOMAIN verdicts :
        suite[n].valid /\ Impls \subseteq suite[n].required /\ suite[n].accepted = {}
            => verdicts[n].class = TableClass(verdicts[n], suite[n])

(* After the run no process the harness signals is left, unless they are   *)
(* kept, which takes a failed case: of the adapters that started, neither  *)
(* a launcher nor a server without one.                                    *)
StartedIsStopped ==
    main \in {"report", "done"} =>
        \A i \in started :
            \/ keep /\ \E n \in DOMAIN verdicts : verdicts[n].class \in FailClasses
            \/ IF i \in Wrapped THEN leader[i] # "up" ELSE server[i] # "up"

(* The harness comes to an end whatever the servers do, in pieces or not   *)
(* at all, dead or alive, but for the two things that no deadline ends: a  *)
(* server that for ever sends more of one line, and a CLI socket that      *)
(* never accepts the connection.                                           *)
Ends == <>(main = "done") \/ []<>more \/ <>[]Connecting
=============================================================================
