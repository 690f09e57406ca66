------------------------------ MODULE CaseRun ------------------------------
(***************************************************************************)
(* One case run against one implementation (runner.py): the steps are sent *)
(* one after the other over one connection, each is followed by one read   *)
(* with a timeout (aesp_codec.py, cli_codec.py), and what was read is      *)
(* normalized and matched.                                                 *)
(*                                                                         *)
(* The server is external and follows no protocol: it may answer any of    *)
(* Answers, late, in pieces, malformed, or not at all, and may close the   *)
(* connection in the middle of an answer.  It answers in order and once.   *)
(* An answer crosses the connection in units: a header in two halves and   *)
(* one unit for each byte of the (scaled) payload, or a CLI status prefix  *)
(* and the text with its newline.  The reader's clock is abstract: a recv  *)
(* may time out whenever nothing has arrived, which covers the shorter     *)
(* timeout of a step that expects silence.  The timeout is that of one     *)
(* recv, armed again by whatever arrives: a header and its payload bound   *)
(* how often that can be, and nothing bounds it for a line, whose server   *)
(* may go on sending text without a newline (Dribble).                     *)
(***************************************************************************)
EXTENDS Replies

CONSTANT Answers   \* Answers[p]: what a server of protocol p may answer

ASSUME AnswersAssumption ==
    \A p \in Protocols : \A m \in Answers[p] :
        /\ m.len \in Nat
        /\ m.type = "INFO" => m.body \in {"json", "text", "binary"}

IsSeq(s) == s \in Seq({s[n] : n \in DOMAIN s})

(* A case has steps.                                                       *)
IsCase(c) == c.protocol \in Protocols /\ IsSeq(c.steps) /\ c.steps # << >>

VARIABLES
    case,     \* the case being run
    rpc,      \* where _execute_aesp or _execute_cli is
    step,     \* the step in progress
    buf,      \* the units this step's read has received
    results,  \* step_results, with the units each step took
    inbox,    \* requests the server has not looked at, by step
    outbox,   \* the rest of the answer it is sending
    wire,     \* units on their way to the reader
    more,     \* text of a line begun is on its way, its newline not yet sent
    closed    \* the server has closed the connection

reader == <<case, rpc, step, buf, results>>
peer   == <<inbox, outbox, wire, more, closed>>
caseVars == <<case, rpc, step, buf, results, inbox, outbox, wire, more, closed>>

NoCase == [protocol |-> None]

CaseInit ==
    /\ case = NoCase /\ rpc = "idle" /\ step = 1 /\ buf = << >> /\ results = << >>
    /\ inbox = << >> /\ outbox = << >> /\ wire = << >>
    /\ more = FALSE /\ closed = FALSE

-----------------------------------------------------------------------------
(* Framing.                                                                *)

Unit(k, part, m) == [of |-> k, part |-> part, msg |-> m]

UnitsOf(protocol, k, m) ==
    IF protocol = "aesp"
    THEN <<Unit(k, "magic", m), Unit(k, "length", m)>>
            \o [b \in 1..m.len |-> Unit(k, "payload", m)]
    ELSE <<Unit(k, "status", m), Unit(k, "line", m)>>

(* decode_header refuses what does not begin with the magic, and a header  *)
(* with a version or a length it does not allow.                           *)
Misaligned(b) == b # << >> /\ b[1].part # "magic"

(* Mutant: the magic is not compared.                                      *)
BadHeaderWithoutMagic(b) == Len(b) = 2 /\ b[1].msg.type = "MALFORMED"

BadHeader(b) ==
    \/ Misaligned(b)
    \/ Len(b) = 2 /\ b[1].msg.type = "MALFORMED"

WholeMessage(b) ==
    Len(b) >= 2 /\ ~BadHeader(b) /\ Len(b) = 2 + b[1].msg.len

(* The units up to the first newline; what came with it in the same chunk  *)
(* is dropped with the buffer.                                             *)
Newlines(b) == {n \in DOMAIN b : b[n].part = "line"}

FirstLine(b) ==
    SubSeq(b, 1, CHOOSE n \in Newlines(b) : \A o \in Newlines(b) : n <= o)

(* classify_reply: a line that does not begin with a status prefix is      *)
(* UNKNOWN, whatever it is the end of; one cut after its prefix is empty.  *)
LineStatus(l) ==
    IF l[1].part = "status" /\ l[1].msg.type \in {"OK", "ERR"}
    THEN l[1].msg.type ELSE "UNKNOWN"

LineData(l) ==
    IF l[Len(l)].part = "line" THEN l[Len(l)].msg.body
    ELSE IF LineStatus(l) = "UNKNOWN" THEN l[1].msg.body ELSE ""

(* What the read has decoded; <<>> while it needs more.                    *)
Decoded(b) ==
    IF case.protocol = "aesp"
    THEN IF WholeMessage(b) THEN b ELSE << >>
    ELSE IF Newlines(b) # {} THEN FirstLine(b) ELSE << >>

Normalize(l) ==
    IF case.protocol = "aesp" THEN NormalizeAesp(l[1].msg)
    ELSE NormalizeCli(case.steps[step].verb, LineStatus(l), LineData(l))

Refused    == case.protocol = "aesp" /\ BadHeader(buf)
Unfinished == ~Refused /\ Decoded(buf) = << >>

-----------------------------------------------------------------------------
(* The runner.                                                             *)

(* Mutant: the step after the last one is run too.                         *)
GoesOnPastTheEnd(ok) == (ok \/ case.continue) /\ step <= Len(case.steps)

GoesOn(ok) == (ok \/ case.continue) /\ step < Len(case.steps)

(* Match what the step read, note it, and go on or leave the loop.         *)
Conclude(n, took) ==
    LET ok == Matches(case.protocol, n, case.steps[step].expect)
    IN /\ results' = Append(results, [pass |-> ok, norm |-> n, took |-> took])
       /\ buf' = << >>
       /\ rpc'  = IF GoesOn(ok) THEN "send" ELSE "done"
       /\ step' = IF GoesOn(ok) THEN step + 1 ELSE step
       /\ UNCHANGED case

(* sendall: on a connection the server has closed it may raise, which is   *)
(* not caught here: the case fails with an empty record.                   *)
SendStep ==
    /\ rpc = "send"
    /\ rpc' = "read"
    /\ inbox' = IF closed THEN inbox ELSE Append(inbox, step)
    /\ UNCHANGED <<case, step, buf, results, outbox, wire, more, closed>>

SendRaises ==
    /\ rpc = "send" /\ closed
    /\ rpc' = "raised"
    /\ UNCHANGED <<case, step, buf, results, peer>>

(* recv: never more than the frame needs, but whatever has arrived of a    *)
(* line and of what follows it.  Eight bytes read from the middle of an    *)
(* answer are no header, and may be any number of units.  Text that came   *)
(* before the units is taken with them.                                    *)
Receive ==
    /\ rpc = "read" /\ wire # << >>
    /\ Unfinished \/ (Refused /\ Misaligned(buf))
    /\ \E n \in 1..(IF case.protocol = "aesp" THEN 1 ELSE Len(wire)) :
          /\ buf' = buf \o SubSeq(wire, 1, n)
          /\ wire' = SubSeq(wire, n + 1, Len(wire))
    /\ more' = FALSE
    /\ UNCHANGED <<case, rpc, step, results, inbox, outbox, closed>>

(* A chunk with no newline: it joins the line, and the next recv has the   *)
(* whole timeout again.                                                    *)
ReceiveText ==
    /\ rpc = "read" /\ more
    /\ more' = FALSE
    /\ UNCHANGED <<reader, inbox, outbox, wire, closed>>

ReplyRead ==
    /\ rpc = "read" /\ Decoded(buf) # << >>
    /\ Conclude(Normalize(Decoded(buf)), Decoded(buf))
    /\ UNCHANGED peer

(* AESPProtocolError out of decode_header.                                 *)
HeaderRefused ==
    /\ rpc = "read" /\ Refused
    /\ Conclude(Silent("aesp", TRUE), buf)
    /\ UNCHANGED peer

NothingArrived == rpc = "read" /\ wire = << >> /\ ~more

(* A whole header and no byte of its payload yet.                          *)
AwaitsPayload(b) == Len(b) = 2

(* Mutant: once a part has arrived, the rest is waited for without end.    *)
TimedOutOnlyAtFirst ==
    /\ NothingArrived /\ ~closed /\ buf = << >>
    /\ Conclude(Silent(case.protocol, FALSE), buf)
    /\ UNCHANGED peer

(* A timeout with something read is a protocol error, but for the timeout  *)
(* before the first byte of a payload, which _recv_exactly raises again.   *)
TimedOut ==
    /\ NothingArrived /\ ~closed
    /\ Unfinished
    /\ LET clean == buf = << >> \/ (case.protocol = "aesp" /\ AwaitsPayload(buf))
       IN Conclude(Silent(case.protocol, ~clean), buf)
    /\ UNCHANGED peer

(* The end of the stream: a disconnection if nothing was read, else a      *)
(* truncated frame, or a line that is taken as it is.  A connection reset  *)
(* is a disconnection whatever was read before it.                         *)
PeerGone ==
    /\ NothingArrived /\ closed
    /\ Unfinished
    /\ \/ Conclude(Gone(case.protocol), buf)
       \/ buf # << >> /\ case.protocol = "aesp" /\ Conclude(Silent("aesp", TRUE), buf)
       \/ buf # << >> /\ case.protocol = "cli" /\ Conclude(Normalize(buf), buf)
    /\ UNCHANGED peer

Reader == SendStep \/ SendRaises \/ Receive \/ ReceiveText \/ ReplyRead
            \/ HeaderRefused \/ TimedOut \/ PeerGone

(* The verdict: every step passed, and the last record meets the case's    *)
(* own expectation.                                                        *)
(* Mutant: the verdict of the last step is the verdict of the case.        *)
LastStepPasses == results[Len(results)].pass

StepsPass == \A k \in DOMAIN results : results[k].pass
LastNorm  == results[Len(results)].norm

CasePasses == rpc = "done" /\ StepsPass /\ Matches(case.protocol, LastNorm, case.final)

-----------------------------------------------------------------------------
(* The server's side of the connection.                                    *)

Engaged == rpc \in {"send", "read"}

Answer ==
    /\ Engaged /\ inbox # << >> /\ outbox = << >>
    /\ \E m \in Answers[case.protocol] :
          outbox' = UnitsOf(case.protocol, Head(inbox), m)
    /\ inbox' = Tail(inbox)
    /\ UNCHANGED <<reader, wire, more, closed>>

Ignore ==
    /\ Engaged /\ inbox # << >> /\ outbox = << >>
    /\ inbox' = Tail(inbox)
    /\ UNCHANGED <<reader, outbox, wire, more, closed>>

Transmit ==
    /\ Engaged /\ outbox # << >>
    /\ wire' = Append(wire, Head(outbox))
    /\ outbox' = Tail(outbox)
    /\ UNCHANGED <<reader, inbox, more, closed>>

(* More of the text of a line, and no newline, to a reader that has begun  *)
(* it: as often as the server likes.  A line that ends, or that nobody is  *)
(* reading yet, crosses as its units.                                      *)
Dribble ==
    /\ rpc = "read" /\ case.protocol = "cli"
    /\ Unfinished /\ buf # << >> /\ wire = << >>
    /\ Len(outbox) = 1 /\ ~more
    /\ more' = TRUE
    /\ UNCHANGED <<reader, inbox, outbox, wire, closed>>

Hangup ==
    /\ Engaged /\ ~closed
    /\ closed' = TRUE /\ inbox' = << >> /\ outbox' = << >>
    /\ UNCHANGED <<reader, wire, more>>

Peer == Answer \/ Ignore \/ Transmit \/ Dribble \/ Hangup

-----------------------------------------------------------------------------
(* Connecting and, when the case is over, closing the socket.              *)

OpenCase(c) ==
    /\ case' = c /\ rpc' = "send" /\ step' = 1 /\ buf' = << >> /\ results' = << >>
    /\ inbox' = << >> /\ outbox' = << >> /\ wire' = << >>
    /\ more' = FALSE /\ closed' = FALSE

CloseCase ==
    /\ case' = NoCase /\ rpc' = "idle" /\ step' = 1 /\ buf' = << >> /\ results' = << >>
    /\ inbox' = << >> /\ outbox' = << >> /\ wire' = << >>
    /\ more' = FALSE /\ closed' = FALSE

-----------------------------------------------------------------------------
(* What a step's record was made from.                                     *)

Prefix(s, t) == Len(s) <= Len(t) /\ \A n \in DOMAIN s : s[n] = t[n]

(* The units of one answer from its first one on; all of them, unless the  *)
(* connection ended in the middle of a CLI line.                           *)
OneAnswer(protocol, took) ==
    LET whole == UnitsOf(protocol, took[1].of, took[1].msg)
    IN took # << >> /\ Prefix(took, whole) /\ (protocol = "aesp" => took = whole)

(* Every step of the case was run and met what it expects, and the last    *)
(* one met the case's own expectation.                                     *)
AllMet ==
    /\ DOMAIN results = DOMAIN case.steps
    /\ \A k \in DOMAIN results :
          Matches(case.protocol, results[k].norm, case.steps[k].expect)
    /\ Matches(case.protocol, LastNorm, case.final)

(* Every step was matched with the answer to its own request.              *)
OwnAnswers ==
    \A k \in DOMAIN results :
        OneAnswer(case.protocol, results[k].took) /\ results[k].took[1].of = k

(* A case none of whose steps puts up with silence or a disconnection.     *)
Strict(c) ==
    /\ ~c.continue
    /\ \A k \in DOMAIN c.steps :
          \A n \in {Silent(c.protocol, FALSE), Gone(c.protocol)} :
              ~Matches(c.protocol, n, c.steps[k].expect)

(* A record that names an AESP type, or an OK or ERR, was made from one    *)
(* answer from its beginning: never from the end of one, from parts of     *)
(* two, or from a line that happens to follow.                             *)
RecordIsWhole ==
    \A k \in DOMAIN results :
        results[k].norm.class \notin {"timeout", "disconnect"}
            /\ results[k].norm.type # "UNKNOWN"
        => OneAnswer(case.protocol, results[k].took)

(* Silence without a protocol error took nothing off the connection, or    *)
(* exactly one good header whose payload never came.                       *)
SilenceTookNoReply ==
    \A k \in DOMAIN results :
        results[k].norm.class = "timeout" /\ ~results[k].norm.malformed
        => LET took == results[k].took
           IN took = << >> \/ (took[1].part = "magic" /\ Len(took) = 2 /\ took[1].msg.len > 0)
=============================================================================
