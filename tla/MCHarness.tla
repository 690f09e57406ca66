----------------------------- MODULE MCHarness -----------------------------
(* Small case lists for Harness, in the shapes of cases/*.json.            *)
EXTENDS Harness

MCOrder == <<"attic", "atari">>

Msg(type, len, body) == [type |-> type, len |-> len, body |-> body]

MCAnswers ==
    [aesp |-> {Msg("PONG", 0, ""), Msg("STATUS", 1, "running"),
               Msg("MALFORMED", 0, "")},
     cli  |-> {Msg("OK", 0, "running"), Msg("OK", 0, "pong"),
               Msg("ERR", 0, "unknown command")}]

Case(protocol, steps, final) ==
    [valid |-> TRUE, protocol |-> protocol, steps |-> steps, final |-> final,
     continue |-> FALSE, exact |-> FALSE, required |-> Impls, accepted |-> {}]

Step(verb, e) == [verb |-> verb, expect |-> e]
OfType(t)     == [Unconstrained EXCEPT !.type = t]
Running       == [OfType("STATUS") EXCEPT !.fields = [state |-> "running"], !.min = 1]
QuietOr(t)    == [OfType(t) EXCEPT !.accept = TRUE]
Refusing      == [Unconstrained EXCEPT !.oneOf =
                    {OfType("ERROR"), [Unconstrained EXCEPT !.closed = TRUE],
                     [Unconstrained EXCEPT !.silence = TRUE]}]

Ping     == Case("aesp", <<Step("", OfType("PONG"))>>, OfType("PONG"))
Garbage  == Case("aesp", <<Step("", Refusing)>>, Refusing)
Polite   == Case("aesp", <<Step("", QuietOr("PONG")), Step("", Running)>>, NoExpectation)
CliTwo   == Case("cli", <<Step("ping", OfType("OK")),
                          Step("status", OfType("OK"))>>,
                 [OfType("OK") EXCEPT !.fields = [state |-> "running"]])
CliAny   == [Case("cli", <<Step("ping", OfType("OK")), Step("status", NoExpectation)>>,
                  NoExpectation) EXCEPT !.continue = TRUE]
Optional == [Case("cli", <<Step("boot", OfType("OK"))>>, OfType("OK"))
                EXCEPT !.required = {"attic"}, !.accepted = {"atari"}]
Broken   == [Ping EXCEPT !.valid = FALSE]

MCSuites == {<<Ping, Broken>>, <<Polite>>, <<CliTwo>>, <<CliAny>>,
             <<Optional>>, <<Garbage>>}
=============================================================================
