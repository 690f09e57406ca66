------------------------------ MODULE Replies ------------------------------
(***************************************************************************)
(* What the protocol-comparison harness makes of one answer: the AESP and  *)
(* CLI normalizers (normalizers.py), the matching of a normalized record   *)
(* with an expectation and the classification of a case over the           *)
(* implementations it was run against (expectations.py).                   *)
(*                                                                         *)
(* A message is [type, len, body]: an AESP type with its payload length    *)
(* and what the payload says, or a CLI status with its text.  A normalized *)
(* record has the one shape below for both protocols; its `type' is the    *)
(* AESP type or the CLI status.  Texts and payloads are words of a small   *)
(* vocabulary, so "contains" and "startswith" are equality of words.       *)
(***************************************************************************)
EXTENDS Naturals, Sequences, FiniteSets

Any      == "any"      \* a constraint that is not stated
None     == "none"     \* Python's None
NoFields == << >>      \* no semantic field
ConfigLen == 2         \* length of a FRAME_CONFIG or AUDIO_CONFIG payload

Protocols == {"aesp", "cli"}

-----------------------------------------------------------------------------
(* Normalized records.                                                     *)

Record(type, len, class, raw, fields) ==
    [type |-> type, len |-> len, class |-> class, raw |-> raw,
     fields |-> fields, malformed |-> FALSE]

(* A read that timed out.  A protocol error is recorded as one too, with a *)
(* note among the semantic fields.                                         *)
Silent(protocol, isError) ==
    [Record(IF protocol = "aesp" THEN "TIMEOUT" ELSE "timeout",
            0, "timeout", "", NoFields) EXCEPT !.malformed = isError]

Gone(protocol) ==
    Record(IF protocol = "aesp" THEN "DISCONNECT" ELSE "disconnect",
           0, "disconnect", "", NoFields)

(* What a case that raised an exception leaves: an empty dictionary.       *)
NoRecord == Record(None, 0, None, None, NoFields)

ClassOfType ==
    [ERROR |-> "error", STATUS |-> "status", FRAME_CONFIG |-> "frame_config",
     AUDIO_CONFIG |-> "audio_config", FRAME_RAW |-> "frame",
     FRAME_DELTA |-> "frame_delta", AUDIO_PCM |-> "audio",
     AUDIO_SYNC |-> "audio_sync"]

(* INFO is read as JSON, else as text, else taken for binary, as is an     *)
(* INFO without a payload.                                                 *)
PayloadClass(m) ==
    IF m.type = "INFO" THEN IF m.len = 0 THEN "binary" ELSE m.body
    ELSE IF m.type \in DOMAIN ClassOfType THEN ClassOfType[m.type]
    ELSE IF m.len = 0 THEN "empty" ELSE "binary"

(* Fields are decoded only from payloads of the right length.              *)
AespFields(m) ==
    CASE m.type = "STATUS" /\ m.len >= 1 -> [state |-> m.body]
      [] m.type \in {"FRAME_CONFIG", "AUDIO_CONFIG"} /\ m.len = ConfigLen
           -> [config |-> m.body]
      [] m.type = "ERROR" -> [code |-> IF m.len = 0 THEN None ELSE m.body]
      [] m.type = "ACK"   -> [acked |-> IF m.len = 0 THEN None ELSE m.body]
      [] m.type = "INFO" /\ m.body # "binary" -> [text |-> m.body]
      [] OTHER -> NoFields

NormalizeAesp(m) ==
    Record(m.type, m.len, PayloadClass(m), m.body, AespFields(m))

(* The label of a CLI reply's data: by verb, except that data that shows   *)
(* the registers wins over the verbs tested after it.                      *)
EarlyClass == [ping |-> "pong", version |-> "version", status |-> "status"]
LateClass  == [read |-> "memory_dump", step |-> "step_result", drives |-> "list"]

DataClass(verb, data) ==
    IF data = "" THEN "empty"
    ELSE IF verb \in DOMAIN EarlyClass THEN EarlyClass[verb]
    ELSE IF verb = "registers" \/ data = "registers" THEN "registers"
    ELSE IF verb \in DOMAIN LateClass THEN LateClass[verb]
    ELSE IF data = "ASM" THEN "asm_session"
    ELSE "text"

CliFields(verb, data) ==
    LET class == DataClass(verb, data)
    IN IF verb = "status" /\ data \in {"running", "paused"}
       THEN [state |-> data, text |-> data]
       ELSE CASE verb \in {"status", "version"} -> [text |-> data]
              [] class = "registers" /\ data = "registers" -> [registers |-> data]
              [] class = "memory_dump" -> [bytes |-> data]
              [] OTHER -> NoFields

NormalizeCli(verb, status, data) ==
    Record(status, 0, DataClass(verb, data), data, CliFields(verb, data))

(* An ERR whose text says that the verb is not there.                      *)
IsUnsupported(n) == n.type = "ERR" /\ n.raw = "unknown command"

-----------------------------------------------------------------------------
(* Expectations.  `none' marks a step without one; `oneOf' holds the       *)
(* alternatives, which are expectations without alternatives of their own. *)

Unconstrained ==
    [none |-> FALSE, accept |-> FALSE, oneOf |-> {}, silence |-> FALSE,
     closed |-> FALSE, type |-> Any, class |-> Any, min |-> 0, max |-> 99,
     raw |-> Any, fields |-> NoFields]

NoExpectation == [Unconstrained EXCEPT !.none = TRUE]

FieldsMatch(n, e) ==
    \A f \in DOMAIN e.fields : f \in DOMAIN n.fields /\ n.fields[f] = e.fields[f]

PayloadMatches(n, e) ==
    /\ e.class = "empty"     => n.len = 0
    /\ e.class = "non_empty" => n.len # 0
    /\ e.class = "json"      => n.class = "json"
    /\ e.class = "text"      => n.class \in {"text", "json"}
    /\ n.len \in e.min..e.max
    /\ e.raw \in {Any, n.raw}

MatchOneAesp(n, e) ==
    IF e.accept /\ n.type = "TIMEOUT" THEN TRUE
    ELSE IF e.silence THEN n.type = "TIMEOUT"
    ELSE IF e.closed  THEN n.type = "DISCONNECT"
    ELSE e.type \in {Any, n.type} /\ PayloadMatches(n, e) /\ FieldsMatch(n, e)

MatchOneCli(n, e) ==
    /\ e.type  \in {Any, n.type}
    /\ e.class \in {Any, n.class}
    /\ e.raw   \in {Any, n.raw}
    /\ FieldsMatch(n, e)

MatchOne(protocol, n, e) ==
    IF protocol = "aesp" THEN MatchOneAesp(n, e) ELSE MatchOneCli(n, e)

Matches(protocol, n, e) ==
    \/ e.none
    \/ protocol = "aesp" /\ e.accept /\ n.type = "TIMEOUT"
    \/ IF e.oneOf # {} THEN \E alt \in e.oneOf : MatchOne(protocol, n, alt)
                       ELSE MatchOne(protocol, n, e)

-----------------------------------------------------------------------------
(* Classification.  per[i] = [pass, unsupported, norm] for each            *)
(* implementation that was run; `required' and `accepted' are sets of      *)
(* implementations (an implementation the case does not name is required). *)

FailingRequired(required, accepted, per) ==
    {i \in DOMAIN per :
        /\ i \in required /\ ~per[i].pass
        /\ ~(i \in accepted /\ per[i].unsupported)}

(* An implementation signalled a gap: a required one that did not pass and *)
(* whose policy permits it, or an optional one.                            *)
Gaps(required, accepted, per) ==
    {i \in DOMAIN per :
        /\ per[i].unsupported
        /\ \/ i \notin required
           \/ ~per[i].pass /\ i \in accepted}

ComparedFields == {"state", "config"}

(* The views of the first two implementations, in the order they were run. *)
Agree(protocol, exact, a, b) ==
    /\ a.type = b.type
    /\ protocol = "cli" => a.class = b.class
    /\ IF exact THEN a.raw = b.raw
       ELSE protocol = "aesp" =>
              \A f \in DOMAIN a.fields \cap DOMAIN b.fields \cap ComparedFields :
                  a.fields[f] = b.fields[f]

SemanticMatch(order, protocol, exact, per) ==
    Len(order) < 2 \/ Agree(protocol, exact, per[order[1]].norm, per[order[2]].norm)

(* A failing implementation is named by its own class; two are both.       *)
(* Mutant: the first of several failing implementations is named.          *)
FailureOfOne(impls) == CHOOSE i \in impls : TRUE

Failure(impls) ==
    IF Cardinality(impls) = 1 THEN CHOOSE i \in impls : TRUE ELSE "both_failure"

Classify(order, c, per) ==
    LET failing == FailingRequired(c.required, c.accepted, per)
    IN IF failing # {} THEN Failure(failing)
       ELSE IF Gaps(c.required, c.accepted, per) # {} THEN "unsupported"
       ELSE IF SemanticMatch(order, c.protocol, c.exact, per) THEN "pass"
       ELSE "accepted_difference"
=============================================================================
