-------------------------------- MODULE Usage --------------------------------
(***************************************************************************)
(* The usage service and the budget domain's reading of it: what an        *)
(* exported log record, span or metric point becomes as a usage event, the *)
(* batch that is stored whole or not at all, the dashboard query, the      *)
(* spend query, and the two spend facts a refill decision is based on.     *)
(*                                                                         *)
(* Money is counted in half micro-dollars and time in instants, so that    *)
(* both the rounding to micro-dollars and the last instant of a month      *)
(* exist.  The dimensions project, user, user name and model go through    *)
(* the same code as api_key_id and are left out.                           *)
(***************************************************************************)
EXTENDS Integers, Sequences, FiniteSets, FiniteSetsExt, TLC

CONSTANTS
    Batches,           \* the identities of the exported batches
    Payloads,          \* what the batches may hold, each a function of the batch
    Accounts,          \* the accounts whose spend is read
    Periods,           \* the periods a refill may name
    InstantsPerMonth,
    Now0, MaxNow,      \* the clock starts and stops here
    MaxSends,          \* exports of one batch explored
    BindLimit,         \* rows of one INSERT (65535 parameters / 16 columns)
    I64Max,            \* i64::MAX, scaled down
    Null, NaN          \* an absent value; a number that is not finite

ASSUME UsageAssumption ==
    /\ InstantsPerMonth \in Nat \ {0} /\ MaxSends \in Nat \ {0}
    /\ BindLimit \in Nat \ {0} /\ I64Max \in Nat \ {0}

VARIABLES
    payload,    \* the batch under each identity
    sends,      \* how often it has been exported
    answer,     \* the answer that reached the exporter: Null, "accepted", "refused", "failed"
    rows,       \* the table usage_events
    now,
    facts       \* the spend facts of one refill request

usageVars == <<payload, sends, answer, rows, now, facts>>

-----------------------------------------------------------------------------
(* From telemetry to events *)

\* The first and the last name of each list of attribute keys, in priority order.
ACCOUNT_KEYS == <<"account_id", "lb.account_id">>
API_KEY_KEYS == <<"api_key_id", "lb.api_key_id">>
PROMPT_TOKENS_KEYS == <<"prompt_tokens", "gen_ai.usage.input_tokens">>
COMPLETION_TOKENS_KEYS == <<"completion_tokens", "gen_ai.usage.output_tokens">>
TOTAL_TOKENS_KEYS == <<"total_tokens", "gen_ai.usage.total_tokens">>
USAGE_VALUE_KEYS == <<"usage_value", "gen_ai.usage.total_tokens">>
COST_KEYS == <<"cost", "gen_ai.usage.custom_total_cost">>

\* An attribute value as JSON: "text" (v a non-numeric string), "digits" (a
\* string of digits), "number", "nan" (the string NaN), "empty" or "other".
AsString(a) ==
    CASE a.t = "text" -> a.v
      [] a.t \in {"digits", "number"} -> ToString(a.v)
      [] a.t = "nan" -> "NaN"
      [] OTHER -> Null

AsI64(a) == IF a.t \in {"digits", "number"} THEN a.v ELSE Null

AsF64(a) == IF a.t \in {"digits", "number"} THEN a.v ELSE IF a.t = "nan" THEN NaN ELSE Null

\* `find_map` over the keys: the first that is present with a usable value.
extract(attrs, keys, Convert(_)) ==
    LET usable == {i \in DOMAIN keys : keys[i] \in DOMAIN attrs /\ Convert(attrs[keys[i]]) # Null}
    IN  IF usable = {} THEN Null ELSE Convert(attrs[keys[Min(usable)]])

extract_string(attrs, keys) == extract(attrs, keys, AsString)
extract_i64(attrs, keys) == extract(attrs, keys, AsI64)
extract_f64(attrs, keys) == extract(attrs, keys, AsF64)

\* The attributes closest to the record win, key by key.
merge_attr_maps(base, additional) == additional @@ base

combine_token_total(prompt, completion) ==
    IF prompt = Null THEN completion
    ELSE IF completion = Null THEN prompt
    ELSE IF prompt + completion > I64Max THEN Null ELSE prompt + completion

request_count_from_metric_value(value) ==
    IF value # NaN /\ value >= 1 THEN Min({value, I64Max}) ELSE 1

u64_to_i64(value) == Min({value, I64Max})

nanos_to_datetime(nanos, clock) == IF nanos = 0 THEN clock ELSE nanos

\* The fields every kind of record fills from its attributes.
Attributed(attrs, signal, name, at) ==
    [at |-> at, account_id |-> extract_string(attrs, ACCOUNT_KEYS),
     api_key_id |-> extract_string(attrs, API_KEY_KEYS), signal_type |-> signal,
     metric_name |-> name, cost |-> extract_f64(attrs, COST_KEYS),
     prompt |-> extract_i64(attrs, PROMPT_TOKENS_KEYS),
     completion |-> extract_i64(attrs, COMPLETION_TOKENS_KEYS)]

TotalOrSum(attrs, base) ==
    LET total == extract_i64(attrs, TOTAL_TOKENS_KEYS)
    IN  IF total # Null THEN total ELSE combine_token_total(base.prompt, base.completion)

Measured(base, total, usage, count) ==
    base @@ [total |-> total, usage |-> usage, count |-> count]

\* A log record or a span: one request, its tokens as usage unless it says
\* otherwise.
Occurrence(attrs, base) ==
    LET total == TotalOrSum(attrs, base)
        usage == extract_f64(attrs, USAGE_VALUE_KEYS)
    IN  Measured(base, total, IF usage # Null THEN usage ELSE IF total # Null THEN total ELSE 1, 1)

\* r.times: a log's (time, observed_time), a span's (end, start).
extract_log_events(r, clock) ==
    LET attrs == merge_attr_maps(r.resource, r.point)
        nanos == IF r.times[1] > 0 THEN r.times[1] ELSE r.times[2]
    IN  Occurrence(attrs, Attributed(attrs, "log", r.name, nanos_to_datetime(nanos, clock)))

extract_trace_events(r, clock) ==
    LET attrs == merge_attr_maps(r.resource, r.point)
        nanos == IF r.times[1] > 0 THEN r.times[1] ELSE r.times[2]
    IN  Occurrence(attrs, Attributed(attrs, "trace", r.name, nanos_to_datetime(nanos, clock)))

PointAttributes(r) == merge_attr_maps(merge_attr_maps(r.resource, r.metadata), r.point)

PointBase(r, clock) ==
    Attributed(PointAttributes(r), "metric", r.name, nanos_to_datetime(r.times[1], clock))

number_data_point_to_event(r, clock) ==
    LET value == IF r.value = Null THEN 0 ELSE r.value
        base == PointBase(r, clock)
    IN  Measured(base, TotalOrSum(PointAttributes(r), base), value,
                 request_count_from_metric_value(value))

\* Histograms and summaries report a total only if an attribute states it.
StatedTotal(r) == extract_i64(PointAttributes(r), TOTAL_TOKENS_KEYS)

histogram_data_point_to_event(r, clock) ==
    LET count == u64_to_i64(r.count)
    IN  Measured(PointBase(r, clock), StatedTotal(r),
                 IF r.value = Null THEN count ELSE r.value, Max({count, 1}))

exponential_histogram_data_point_to_event(r, clock) ==
    LET count == u64_to_i64(r.count)
    IN  Measured(PointBase(r, clock), StatedTotal(r),
                 IF r.value = Null THEN count ELSE r.value, Max({count, 1}))

summary_data_point_to_event(r, clock) ==
    Measured(PointBase(r, clock), StatedTotal(r), r.value, Max({u64_to_i64(r.count), 1}))

extract_metric_events(r, clock) ==
    CASE r.kind \in {"gauge", "sum"} -> number_data_point_to_event(r, clock)
      [] r.kind = "histogram" -> histogram_data_point_to_event(r, clock)
      [] r.kind = "exponential" -> exponential_histogram_data_point_to_event(r, clock)
      [] r.kind = "summary" -> summary_data_point_to_event(r, clock)

Event(r, clock) ==
    CASE r.kind = "log" -> extract_log_events(r, clock)
      [] r.kind = "span" -> extract_trace_events(r, clock)
      [] OTHER -> extract_metric_events(r, clock)

-----------------------------------------------------------------------------
(* Ingestion *)

\* Only the logs endpoint undoes gzip; a body neither form explains is refused.
Decodes(p) ==
    \/ p.encoding = "plain"
    \/ p.encoding = "gzip" /\ p.signal = "logs"

ValidEvent(e) ==
    /\ e.usage # NaN /\ e.cost # NaN /\ e.count >= 0
    /\ \A tokens \in {e.prompt, e.completion, e.total} : tokens # Null => tokens >= 0

validate_events(events) == \A i \in DOMAIN events : ValidEvent(events[i])

\* A row of usage_events.  `of` (which record of which batch) and `copy` (the
\* export that stored it) only tell rows apart: the table has no key.
StoredRow(e, b, i) ==
    [e EXCEPT !.cost = IF e.cost = Null THEN 0 ELSE e.cost] @@ [of |-> <<b, i>>, copy |-> sends[b]]

\* One INSERT: every row or, when the database fails or the statement has too
\* many parameters, none.
insert_usage_events(events, b, fails) ==
    {StoredRow(events[i], b, i) :
        i \in IF fails \/ Len(events) > BindLimit THEN {} ELSE DOMAIN events}

\* Fault: the valid events of a batch are stored although one is refused.
PersistsTheValid(events, b, fails) ==
    IF validate_events(events)
    THEN [verdict |-> IF fails \/ Len(events) > BindLimit THEN "failed" ELSE "accepted",
          stored |-> insert_usage_events(events, b, fails)]
    ELSE [verdict |-> "refused",
          stored |-> {StoredRow(events[i], b, i) : i \in {j \in DOMAIN events : ValidEvent(events[j])}}]

persist_events(events, b, fails) ==
    IF validate_events(events)
    THEN [verdict |-> IF fails \/ Len(events) > BindLimit THEN "failed" ELSE "accepted",
          stored |-> insert_usage_events(events, b, fails)]
    ELSE [verdict |-> "refused", stored |-> {}]

\* One export of a batch: `fails`, the database refuses the insert; `lost`, the
\* exporter does not get the answer.  An exporter repeats what was not answered
\* or answered with a server error.
Ingest(b, fails, lost) ==
    LET p == payload[b]
        events == [i \in DOMAIN p.records |-> Event(p.records[i], now)]
        outcome == IF Decodes(p) THEN persist_events(events, b, fails)
                   ELSE [verdict |-> "refused", stored |-> {}]
    IN  /\ sends[b] < MaxSends /\ answer[b] \notin {"accepted", "refused"}
        /\ sends' = [sends EXCEPT ![b] = @ + 1]
        /\ rows' = rows \cup outcome.stored
        /\ answer' = [answer EXCEPT ![b] = IF lost THEN @ ELSE outcome.verdict]
        /\ UNCHANGED <<payload, now, facts>>

-----------------------------------------------------------------------------
(* Queries *)

SumOf(f, S) == MapThenSumSet(LAMBDA r : IF r[f] = Null THEN 0 ELSE r[f], S)

\* Fault: no row reads as nothing spent.
NoRowsIsZero(account, start, end) ==
    SumOf("cost", {r \in rows : r.account_id = account /\ r.at >= start /\ r.at < end})

\* SUM over no row is NULL.
spend_for_account(account, start, end) ==
    LET counted == {r \in rows : r.account_id = account /\ r.at >= start /\ r.at < end}
    IN  IF counted = {} THEN Null ELSE SumOf("cost", counted)

query_spend(account, start, end) ==
    IF account = "" \/ start >= end THEN [ok |-> FALSE, total |-> Null]
    ELSE [ok |-> TRUE, total |-> spend_for_account(account, start, end)]

Dimensions == {"account_id", "api_key_id", "metric_name", "signal_type"}

\* The selected dimensions of a row, NULL for the others.
append_dimension(r, group_by) == [d \in Dimensions |-> IF d \in group_by THEN r[d] ELSE Null]

\* Fault: rows without a value in a grouped dimension are dropped.
DropsNullGroups(q) ==
    LET selected == {r \in rows : /\ r.at >= q.start /\ r.at < q.end
                                  /\ r[q.scope] = q.scope_id
                                  /\ \A d \in q.group_by : r[d] # Null}
        Group(r) == [bucket |-> r.at - (r.at % q.bucket), dim |-> append_dimension(r, q.group_by)]
    IN  {[group |-> g, cost |-> SumOf("cost", {r \in selected : Group(r) = g}),
          requests |-> SumOf("count", {r \in selected : Group(r) = g})] :
            g \in {Group(r) : r \in selected}}

\* The points of a dashboard query before LIMIT: one per bucket and group.
AllPoints(q) ==
    LET selected == {r \in rows : /\ r.at >= q.start /\ r.at < q.end
                                  /\ r[q.scope] = q.scope_id
                                  /\ \A d \in DOMAIN q.filters : r[d] = q.filters[d]}
        Group(r) == [bucket |-> r.at - (r.at % q.bucket), dim |-> append_dimension(r, q.group_by)]
    IN  {[group |-> g, cost |-> SumOf("cost", {r \in selected : Group(r) = g}),
          requests |-> SumOf("count", {r \in selected : Group(r) = g})] :
            g \in {Group(r) : r \in selected}}

\* LIMIT keeps the earliest buckets, any of those that tie.
Limited(q, points) ==
    LET all == AllPoints(q)
    IN  /\ points \subseteq all /\ Cardinality(points) = Min({Cardinality(all), q.limit})
        /\ \A p \in points, other \in all \ points : p.group.bucket <= other.group.bucket

query_usage(q, points) ==
    /\ q.start < q.end /\ q.scope_id # "" /\ q.limit > 0
    /\ Limited(q, points)

-----------------------------------------------------------------------------
(* Spend facts *)

FirstInstant(y, m) == (y * 12 + (m - 1)) * InstantsPerMonth

period_bounds_utc(p) ==
    [start |-> FirstInstant(p.y, p.m),
     end |-> IF p.m = 12 THEN FirstInstant(p.y + 1, 1) ELSE FirstInstant(p.y, p.m + 1)]

IsPeriod(p) == p.y \in 0 .. 9999 /\ p.m \in 1 .. 12

\* The month before.  The year is a u32: 0 - 1 wraps to 4294967295 (with overflow
\* checks it stops there and then), and "4294967295-12" reads back, by the
\* slices [0..4] and [5..7], as month 67 of 4294.
previous(p) ==
    IF p.m # 1 THEN [p EXCEPT !.m = @ - 1]
    ELSE IF p.y = 0 THEN [y |-> 4294, m |-> 67]
    ELSE [y |-> p.y - 1, m |-> 12]

SpendUnavailable == [known |-> FALSE, micros |-> 0]

\* Rounded half up; negative and oversized sums are unusable.
cost_to_micros(cost) ==
    IF cost < 0 \/ (cost + 1) \div 2 > I64Max THEN SpendUnavailable
    ELSE [known |-> TRUE, micros |-> (cost + 1) \div 2]

\* `fails`: no connection, a timeout, an error status or an unreadable body.
UsageServiceSpendReader(account, p, fails) ==
    LET bounds == period_bounds_utc(p)
        response == query_spend(account, bounds.start, bounds.end)
    IN  IF fails \/ ~response.ok \/ response.total = Null THEN SpendUnavailable
        ELSE cost_to_micros(response.total)

\* The rows of answered batches, which a later read has to count.
Answered == {r \in rows : answer[r.of[1]] = "accepted"}

\* `load_facts`: two calls, one after the other; rows may arrive in between.
ReadThisPeriod(account, p, fails) ==
    /\ facts.phase = "start"
    /\ facts' = [facts EXCEPT !.phase = "half", !.account = account, !.period = p,
                              !.this = UsageServiceSpendReader(account, p, fails),
                              !.owed = [@ EXCEPT ![1] = Answered]]
    /\ UNCHANGED <<payload, sends, answer, rows, now>>

ReadLastPeriod(fails) ==
    LET p == previous(facts.period)
    IN  /\ facts.phase = "half"
        /\ facts' = IF IsPeriod(p)
                    THEN [facts EXCEPT !.phase = "loaded",
                                       !.last = UsageServiceSpendReader(facts.account, p, fails),
                                       !.owed = [@ EXCEPT ![2] = Answered]]
                    ELSE [facts EXCEPT !.phase = "panicked"]
        /\ UNCHANGED <<payload, sends, answer, rows, now>>

UsageTick ==
    /\ now < MaxNow /\ now' = now + 1
    /\ UNCHANGED <<payload, sends, answer, rows, facts>>

UsageInit ==
    /\ payload \in Payloads
    /\ sends = [b \in Batches |-> 0] /\ answer = [b \in Batches |-> Null]
    /\ rows = {} /\ now = Now0
    /\ facts = [phase |-> "start", account |-> Null, period |-> Null,
                this |-> SpendUnavailable, last |-> SpendUnavailable, owed |-> <<{}, {}>>]

UsageNext ==
    \/ \E b \in Batches, fails, lost \in BOOLEAN : Ingest(b, fails, lost)
    \/ \E a \in Accounts, p \in Periods, fails \in BOOLEAN : ReadThisPeriod(a, p, fails)
    \/ \E fails \in BOOLEAN : ReadLastPeriod(fails)
    \/ UsageTick

UsageSpec == UsageInit /\ [][UsageNext]_usageVars

-----------------------------------------------------------------------------
(* Properties *)

\* Every batch is stored whole: however often it is repeated, refused or cut
\* short by a failing database, each of its records has as many rows as any
\* other (`persist_events` validates all events before its single INSERT), and
\* a batch answered as accepted has at least one row per record, a refused one
\* none.  A row's token total that no attribute stated is the exact sum of the
\* counts that were given, or absent: counts that overflow are not under-reported
\* (`combine_token_total`).
BatchesStoredWhole ==
    /\ \A b \in Batches :
         LET Copies(i) == Cardinality({r \in rows : r.of = <<b, i>>})
             n == Len(payload[b].records)
         IN  /\ \A i, j \in 1 .. n : Copies(i) = Copies(j)
             /\ answer[b] = "accepted" => \A i \in 1 .. n : Copies(i) > 0
             /\ answer[b] = "refused" => \A i \in 1 .. n : Copies(i) = 0
    /\ \A r \in rows :
         LET given == {r.prompt, r.completion} \ {Null}
             attributes == PointAttributes(payload[r.of[1]].records[r.of[2]])
             stated == \E k \in DOMAIN TOTAL_TOKENS_KEYS : TOTAL_TOKENS_KEYS[k] \in DOMAIN attributes
         IN  /\ \A tokens \in given : tokens >= 0
             /\ r.total # Null /\ given # {} /\ ~stated =>
                  r.total = (IF r.prompt = Null THEN 0 ELSE r.prompt) +
                            (IF r.completion = Null THEN 0 ELSE r.completion)

MonthOf(t) == t \div InstantsPerMonth

\* A spend fact that is known is the real total of one account's month: the sum
\* over stored rows of exactly that account and that calendar month, at least
\* one row, and all those whose batch was acknowledged before the read.  No row
\* outside the month, no answer made up from a missing or failed reading
\* (`UsageServiceSpendReader`, `period_bounds_utc`, `spend_for_account`).
KnownSpendIsReal ==
    \A k \in {1, 2} :
        LET fact == IF k = 1 THEN facts.this ELSE facts.last
            month == IF k = 1 THEN facts.period.y * 12 + facts.period.m - 1
                     ELSE facts.period.y * 12 + facts.period.m - 2
            OfMonth(S) == {r \in S : r.account_id = facts.account /\ MonthOf(r.at) = month}
            due == OfMonth(facts.owed[k])
        IN  fact.known =>
                \E S \in SUBSET (OfMonth(rows) \ due) :
                    /\ S \cup due # {}
                    /\ fact.micros = (SumOf("cost", S \cup due) + 1) \div 2

\* A dashboard that is not cut off by its limit and the spend query tell the
\* same story: whatever the grouping and the bucket, the points of an account's
\* month add up to its spend, and there are none exactly when the spend is NULL.
DashboardAgreesWithSpend ==
    \A a \in Accounts, p \in Periods, group_by \in SUBSET {"api_key_id"},
       bucket \in 1 .. InstantsPerMonth :
        LET bounds == period_bounds_utc(p)
            q == [scope |-> "account_id", scope_id |-> a, start |-> bounds.start,
                  end |-> bounds.end, bucket |-> bucket, group_by |-> group_by,
                  filters |-> <<>>, limit |-> Cardinality(rows) + 1]
            spent == spend_for_account(a, bounds.start, bounds.end)
            points == AllPoints(q)
        IN  /\ query_usage(q, points)
            /\ SumOf("cost", points) = IF spent = Null THEN 0 ELSE spent
            /\ (points = {}) = (spent = Null)

\* Stepping back from any period a refill may name gives a period again
\* (`Period::previous`).
PreviousIsAPeriod == facts.phase # "panicked"
=============================================================================
