------------------------------- MODULE MCUsage -------------------------------
(* Two batches around the turn of year 0 (November 20-21, December 22-23,       *)
(* January 24-25): one holding records of every kind or an undecodable body,   *)
(* the other a whole batch: good, with a bad event, or too large for one       *)
(* statement.                                                                  *)
EXTENDS Usage

CONSTANTS one, many

Text(v) == [t |-> "text", v |-> v]
Num(v) == [t |-> "number", v |-> v]
Of(a) == [t |-> a, v |-> 0]

Rec(kind, resource, point, times, value, count) ==
    [kind |-> kind, resource |-> resource, metadata |-> <<>>, point |-> point, name |-> Null,
     times |-> times, value |-> value, count |-> count]

InA == "lb.account_id" :> Text("a")
Costs(n) == "cost" :> Num(n)

\* Overriding and empty attributes, key priority, token sums up to the overflow,
\* every kind of metric point, missing times.
Tokens(c) ==
    Rec("log", InA, Costs(3) @@ ("prompt_tokens" :> Num(4)) @@ ("completion_tokens" :> c),
        <<0, 23>>, Null, 0)
Span(attributes) ==
    Rec("span", InA @@ ("api_key_id" :> Text("k")), attributes, <<24, 22>>, Null, 0)
Point(kind, t, v) ==
    Rec(kind, InA, Costs(1) @@ ("gen_ai.usage.input_tokens" :> [t |-> "digits", v |-> 1]),
        <<t, 0>>, v, 9)

Firsts ==
    {<<Tokens(Num(2)), Span("account_id" :> Text("b"))>>,
     <<Tokens(Num(5)), Span(("account_id" :> Of("empty")) @@ Costs(-3))>>,
     <<Tokens(Of("other")),
       Span(Costs(2) @@ ("total_tokens" :> Num(1)) @@ ("prompt_tokens" :> Num(2)))>>,
     <<Point("sum", 0, Null), Point("histogram", 23, 5)>>,
     <<Point("sum", 23, 5), Point("histogram", 0, Null)>>,
     <<Rec("exponential", InA, Costs(4), <<24, 0>>, Null, 0),
       Rec("summary", InA, Costs(4), <<22, 0>>, 2, 3)>>,
     <<Rec("gauge", InA, <<>>, <<22, 0>>, NaN, 0)>>,
     <<Rec("log", InA, "cost" :> Of("nan"), <<22, 0>>, Null, 0)>>}

Good == Rec("log", InA, Costs(3), <<23, 0>>, Null, 0)
Untimed == Rec("log", InA, "api_key_id" :> Text("k"), <<0, 0>>, Null, 0)
Bad == Rec("log", InA, "prompt_tokens" :> Num(-1), <<24, 0>>, Null, 0)

Body(signal, encoding, records) == [signal |-> signal, encoding |-> encoding, records |-> records]

MCPayloads ==
    {(one :> Body("logs", "plain", rs)) @@ (many :> Body("logs", "plain", <<Untimed>>)) :
        rs \in Firsts} \cup
    {(one :> Body(s, "gzip", <<Good>>)) @@ (many :> Body("logs", e, batch)) :
        <<s, e>> \in {<<"logs", "plain">>, <<"traces", "plain">>, <<"traces", "garbage">>},
        batch \in {<<Good, Bad>>, <<Good, Untimed>>, <<Good, Good, Untimed>>, <<>>}}
MCBatches == {one, many}
MCAccounts == {"a"}
MCPeriods == {[y |-> 0, m |-> 12], [y |-> 1, m |-> 1]}
FirstMonth == {[y |-> 0, m |-> 1]}
=============================================================================
