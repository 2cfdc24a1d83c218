---------------------------- MODULE Metrics ----------------------------
(***************************************************************************)
(* The sharded metrics registry (rust/metrics/registry.rs) and the calls   *)
(* that reach it through napi and the C ABI.  Several threads share one    *)
(* registry.  A record reads the family under the families lock, releases  *)
(* it, and updates the series under the lock of its shard; a render locks  *)
(* the shards one after the other and the families last.  Each of these    *)
(* critical sections is one step.                                          *)
(* Names and label values are byte sequences; amounts are integers.        *)
(***************************************************************************)
EXTENDS Integers, Sequences, FiniteSets, SequencesExt

CONSTANTS Threads, Declarations, RecordBatches, ShardOf(_), METRICS_SHARDS,
          METRICS_MAX_FAMILIES, METRICS_MAX_LABELS, METRICS_MAX_BUCKETS,
          METRICS_DEFAULT_BUCKETS, Infinite, MaxMetricCalls

VARIABLES families,   \* the declared families, in order
          series,     \* the shards' maps: <<family, packed values>> -> value
          recorder,   \* what each thread is doing
          updates,    \* history: the updates of each series, in order
          outcome,    \* history: how each thread's last batch ended
          scrape,     \* the last finished render, or <<>>
          metricCalls \* calls made so far

metricsVars ==
    <<families, series, recorder, updates, outcome, scrape, metricCalls>>

METRICS_VALUE_SEP == 31
AtRest == [at |-> "rest"]

MetricsInit ==
    /\ families = <<>>
    /\ series = <<>>
    /\ recorder = [t \in Threads |-> AtRest]
    /\ updates = <<>>
    /\ outcome = [t \in Threads |-> <<>>]
    /\ scrape = <<>>
    /\ metricCalls = 0

---------------------------------------------------------------------------
(* Declaring a family.                                                     *)

AlphaByte(c) == c \in 97..122 \cup 65..90 \cup {95, 58}

valid_metric_ident(bytes) ==
    /\ Len(bytes) \in 1..256
    /\ AlphaByte(bytes[1])
    /\ \A i \in 2..Len(bytes) : AlphaByte(bytes[i]) \/ bytes[i] \in 48..57

finite(v) == v # Infinite

\* The bounds of a histogram as they are kept: sorted, without duplicates.
sorted_buckets(d) ==
    IF d.kind # "histogram" THEN d.buckets
    ELSE SetToSortSeq(ToSet(IF d.buckets = <<>> THEN METRICS_DEFAULT_BUCKETS
                            ELSE d.buckets), <)

Declarable(d) ==
    /\ valid_metric_ident(d.name)
    /\ Len(d.labels) <= METRICS_MAX_LABELS
    /\ \A i \in DOMAIN d.labels : valid_metric_ident(d.labels[i])
    /\ d.kind = "histogram" =>
         /\ Len(d.buckets) <= METRICS_MAX_BUCKETS
         /\ \A i \in DOMAIN d.buckets : finite(d.buckets[i]) /\ d.buckets[i] > 0

\* A name already declared keeps its id; a new one takes the next while the
\* registry has room.
declare(t, d) ==
    /\ recorder[t] = AtRest
    /\ metricCalls < MaxMetricCalls
    /\ metricCalls' = metricCalls + 1
    /\ families' = IF /\ Declarable(d)
                      /\ \A i \in DOMAIN families : families[i].name # d.name
                      /\ Len(families) < METRICS_MAX_FAMILIES
                   THEN Append(families, [d EXCEPT !.buckets = sorted_buckets(d)])
                   ELSE families
    /\ UNCHANGED <<series, recorder, updates, outcome, scrape>>

---------------------------------------------------------------------------
(* Recording.                                                              *)

\* The packed label values of an entry: joined by the separator.
pack(values) ==
    FoldLeft(LAMBDA acc, i : acc \o (IF i > 1 THEN <<METRICS_VALUE_SEP>> ELSE <<>>)
                                 \o values[i],
             <<>>, [i \in DOMAIN values |-> i])

ArityOf(packed) ==
    (IF packed = <<>> THEN 0 ELSE 1)
      + Len(SelectSeq(packed, LAMBDA b : b = METRICS_VALUE_SEP))

validate_values(packed, n) ==
    0 \notin ToSet(packed) /\ ArityOf(packed) = n

\* Mutant of bucket_index: a value on a bound falls in the next bucket.
PastTheBound(buckets, v) ==
    1 + Cardinality({i \in DOMAIN buckets : buckets[i] <= v})

\* The first bucket whose bound is at least v; one past the last for none.
bucket_index(buckets, v) ==
    1 + Cardinality({i \in DOMAIN buckets : buckets[i] < v})

new_for(fam) ==
    IF fam.kind = "histogram"
    THEN [counts |-> [i \in DOMAIN fam.buckets |-> 0], sum |-> 0, count |-> 0]
    ELSE [scalar |-> 0]

\* What one accepted update does to a value.
Updated(fam, value, entry) ==
    CASE entry.set -> [scalar |-> entry.amount]
      [] ~entry.set /\ fam.kind # "histogram" ->
           [scalar |-> value.scalar + entry.amount]
      [] OTHER ->
           LET i == bucket_index(fam.buckets, entry.amount) IN
           [counts |-> [j \in DOMAIN value.counts |->
                          value.counts[j] + (IF i = j THEN 1 ELSE 0)],
            sum |-> value.sum + entry.amount, count |-> value.count + 1]

\* record, gauge_set and record_batch: a call brings a sequence of entries,
\* applied one by one until one is refused.
StartRecord(t, entries) ==
    /\ recorder[t] = AtRest
    /\ metricCalls < MaxMetricCalls
    /\ metricCalls' = metricCalls + 1
    /\ recorder' = [recorder EXCEPT ![t] =
                      [at |-> "family", entries |-> entries, done |-> 0]]
    /\ UNCHANGED <<families, series, updates, outcome, scrape>>

Finish(t, ok) ==
    /\ recorder' = [recorder EXCEPT ![t] = AtRest]
    /\ outcome' = [outcome EXCEPT ![t] =
                     <<[ok |-> ok, entries |-> recorder[t].entries,
                        done |-> recorder[t].done]>>]

\* Under the families lock: the entry is checked against its family.
family(t) ==
    LET job == recorder[t]
        e == job.entries[job.done + 1] IN
    /\ job.at = "family"
    /\ IF /\ finite(e.amount)
          /\ e.series \in DOMAIN families
          /\ e.set => families[e.series].kind = "gauge"
          /\ validate_values(pack(e.values), Len(families[e.series].labels))
       THEN /\ recorder' = [recorder EXCEPT ![t].at = "shard"]
            /\ UNCHANGED outcome
       ELSE Finish(t, FALSE)
    /\ UNCHANGED <<families, series, updates, scrape, metricCalls>>

AtKey(f, key, default) == IF key \in DOMAIN f THEN f[key] ELSE default
Stored(f, key, v) == [k \in DOMAIN f \cup {key} |-> IF k = key THEN v ELSE f[k]]

\* Under the lock of the shard: the series is created when it is new, even
\* when a negative observation is then refused.
add(t) ==
    LET job == recorder[t]
        e == job.entries[job.done + 1]
        fam == families[e.series]
        key == <<e.series, pack(e.values)>>
        old == AtKey(series, key, new_for(fam))
        after == [job EXCEPT !.at = "family", !.done = @ + 1] IN
    /\ job.at = "shard"
    /\ IF fam.kind = "histogram" /\ e.amount < 0
       THEN /\ series' = Stored(series, key, old)
            /\ Finish(t, FALSE)
            /\ UNCHANGED updates
       ELSE /\ series' = Stored(series, key, Updated(fam, old, e))
            /\ updates' = Stored(updates, key, Append(AtKey(updates, key, <<>>), e))
            /\ IF after.done < Len(after.entries)
               THEN recorder' = [recorder EXCEPT ![t] = after] /\ UNCHANGED outcome
               ELSE /\ recorder' = [recorder EXCEPT ![t] = AtRest]
                    /\ outcome' = [outcome EXCEPT ![t] =
                         <<[ok |-> TRUE, entries |-> after.entries,
                            done |-> after.done]>>]
    /\ UNCHANGED <<families, scrape, metricCalls>>

---------------------------------------------------------------------------
(* Rendering.                                                              *)

Escaped(value) ==
    FlattenSeq([i \in DOMAIN value |->
        CASE value[i] = 92 -> <<92, 92>>
          [] value[i] = 34 -> <<92, 34>>
          [] value[i] = 10 -> <<92, 110>>
          [] OTHER -> <<value[i]>>])

\* The label pairs of a row: an empty value at the end is not written.
write_labels(keys, packed) ==
    LET seps == SelectSeq([i \in DOMAIN packed |-> i],
                          LAMBDA i : packed[i] = METRICS_VALUE_SEP)
        starts == <<1>> \o [j \in DOMAIN seps |-> seps[j] + 1]
        ends == [j \in DOMAIN seps |-> seps[j] - 1] \o <<Len(packed)>>
        shown == SelectSeq([j \in DOMAIN starts |-> j],
                           LAMBDA j : starts[j] <= Len(packed)) IN
    [j \in DOMAIN shown |-> <<keys[j], Escaped(SubSeq(packed, starts[j], ends[j]))>>]

SumOf(seq) == FoldLeft(LAMBDA a, b : a + b, 0, seq)

\* The lines of one series.
RowOf(fam, value) ==
    IF fam.kind = "histogram"
    THEN [le |-> [i \in DOMAIN fam.buckets |-> SumOf(SubSeq(value.counts, 1, i))],
          sum |-> value.sum, count |-> value.count]
    ELSE value

StartRender(t) ==
    /\ recorder[t] = AtRest
    /\ metricCalls < MaxMetricCalls
    /\ metricCalls' = metricCalls + 1
    /\ recorder' = [recorder EXCEPT ![t] =
                      [at |-> "render", shard |-> 1, rows |-> <<>>, before |-> updates]]
    /\ UNCHANGED <<families, series, updates, outcome, scrape>>

\* Under the lock of one shard: its series are copied out.
render_shard(t) ==
    LET job == recorder[t] IN
    /\ job.at = "render"
    /\ job.shard <= METRICS_SHARDS
    /\ recorder' = [recorder EXCEPT ![t].shard = @ + 1,
                     ![t].rows = [k \in DOMAIN @ \cup {k \in DOMAIN series :
                                                        ShardOf(k) = job.shard} |->
                                    IF k \in DOMAIN @ THEN @[k] ELSE series[k]]]
    /\ UNCHANGED <<families, series, updates, outcome, scrape, metricCalls>>

\* Under the families lock: each family with its rows.
render_into(t) ==
    LET job == recorder[t]
        mine(i) == {k \in DOMAIN job.rows : k[1] = i} IN
    /\ job.at = "render"
    /\ job.shard > METRICS_SHARDS
    /\ scrape' = <<[shown |-> [i \in DOMAIN families |->
                                 {<<k, write_labels(families[i].labels, k[2]),
                                    RowOf(families[i], job.rows[k])>> : k \in mine(i)}],
                    rows |-> job.rows, before |-> job.before, after |-> updates]>>
    /\ recorder' = [recorder EXCEPT ![t] = AtRest]
    /\ UNCHANGED <<families, series, updates, outcome, metricCalls>>

MetricsNext ==
    \E t \in Threads :
      \/ \E i \in DOMAIN Declarations : declare(t, Declarations[i])
      \/ \E i \in DOMAIN RecordBatches : StartRecord(t, RecordBatches[i])
      \/ family(t)
      \/ add(t)
      \/ StartRender(t)
      \/ render_shard(t)
      \/ render_into(t)

---------------------------------------------------------------------------
(* What the registry promises.                                             *)

\* What a row must say after the given updates, from the updates alone.
RowAfter(fam, ups) ==
    LET amounts == [i \in DOMAIN ups |-> ups[i].amount]
        sets == {i \in DOMAIN ups : ups[i].set}
        from == CHOOSE i \in sets \cup {0} : \A j \in sets : j <= i IN
    IF fam.kind = "histogram"
    THEN [le |-> [b \in DOMAIN fam.buckets |->
                    Cardinality({i \in DOMAIN ups : amounts[i] <= fam.buckets[b]})],
          sum |-> SumOf(amounts), count |-> Len(ups)]
    ELSE [scalar |-> SumOf(SubSeq(amounts, IF from = 0 THEN 1 ELSE from, Len(ups)))]

\* A finished render shows every series that existed when it started, and each
\* row at a moment between its start and its end.
Scraped(s) ==
    /\ DOMAIN s.before \subseteq DOMAIN s.rows
    /\ \A k \in DOMAIN s.rows :
         /\ k[1] \in DOMAIN s.shown
         /\ \E row \in s.shown[k[1]] :
              /\ row[1] = k
              /\ \E n \in Len(AtKey(s.before, k, <<>>)) .. Len(AtKey(s.after, k, <<>>)) :
                   row[3] = RowAfter(families[k[1]],
                                     SubSeq(AtKey(s.after, k, <<>>), 1, n))

\* No two series of a family are rendered under the same labels.
LabelsTellApart(s) ==
    \A i \in DOMAIN s.shown : \A r1, r2 \in s.shown[i] :
        r1[2] = r2[2] => r1[1] = r2[1]

\* A call that succeeded applied every entry, each with one value per label
\* unless a value holds the separator.
CallsApplied ==
    \A t \in Threads : \A i \in DOMAIN outcome[t] :
        LET o == outcome[t][i] IN
        /\ o.ok <=> o.done = Len(o.entries)
        /\ \A j \in 1..o.done :
             LET e == o.entries[j] IN
             /\ \E u \in DOMAIN AtKey(updates, <<e.series, pack(e.values)>>, <<>>) :
                  updates[<<e.series, pack(e.values)>>][u] = e
             /\ (\A v \in DOMAIN e.values : METRICS_VALUE_SEP \notin ToSet(e.values[v])) =>
                  Len(e.values) = Len(families[e.series].labels)

\* However threads interleave, the registry holds exactly the updates it
\* accepted: no update is lost or applied twice, a refused observation counts
\* nowhere, every bucket counts the observations up to its bound, and a render
\* that runs while others record shows each series as it was at some moment of
\* the render, under labels of its own (add, set, record_batch, render_into).
MetricsHonest ==
    /\ \A k \in DOMAIN series :
         RowOf(families[k[1]], series[k])
           = RowAfter(families[k[1]], AtKey(updates, k, <<>>))
    /\ DOMAIN updates \subseteq DOMAIN series
    /\ CallsApplied
    /\ \A i \in DOMAIN scrape : Scraped(scrape[i]) /\ LabelsTellApart(scrape[i])

MetricsSpec == MetricsInit /\ [][MetricsNext]_metricsVars
=============================================================================
