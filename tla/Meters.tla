---------------------------- MODULE Meters ----------------------------
(***************************************************************************)
(* The metrics registry of the TypeScript side (shared/metrics.ts):        *)
(* createMetrics, the meters it hands out, its cardinality cap and reset.  *)
(* A meter keeps the entry it was created with, registered or not.  Maps   *)
(* keep the order of insertion, which is the order of eviction.            *)
(***************************************************************************)
EXTENDS Integers, Sequences, FiniteSets, SequencesExt

CONSTANTS MeterNames, SERIES_DROPPED_METRIC, LabelNames, LabelSets, MeterKinds,
          UpperBounds, MeterAmounts, MAX_SERIES_PER_METRIC, MaxMeterCalls

VARIABLES entries,       \* every entry ever created
          registered,    \* the maps of the registry: <<kind, name>> -> entry
          seriesDropped,
          recorded,      \* history: per entry, the updates of each live series
          created,       \* history: series created, less those gone by reset
          meterCalls

metersVars == <<entries, registered, seriesDropped, recorded, created, meterCalls>>

MetersInit ==
    /\ entries = <<>>
    /\ registered = <<>>
    /\ seriesDropped = 0
    /\ recorded = <<>>
    /\ created = 0
    /\ meterCalls = 0

MeterCall == meterCalls < MaxMeterCalls /\ meterCalls' = meterCalls + 1

\* counter, gauge, histogram: the first creation of a name wins.
Meter(kind, name, names) ==
    LET id == <<kind, name>> IN
    /\ MeterCall
    /\ IF id \in DOMAIN registered
       THEN UNCHANGED <<entries, registered, recorded>>
       ELSE /\ entries' = Append(entries, [kind |-> kind, name |-> name,
                                           labelNames |-> names,
                                           values |-> <<>>, sums |-> <<>>])
            /\ registered' = [k \in DOMAIN registered \cup {id} |->
                                IF k = id THEN Len(entries) + 1 ELSE registered[k]]
            /\ recorded' = Append(recorded, <<>>)
    /\ UNCHANGED <<seriesDropped, created>>

---------------------------------------------------------------------------
(* Updating a series.                                                      *)

\* The key of a label set: every name of the entry, a missing one empty.
labelKey(names, labels) ==
    [n \in names |-> IF n \in DOMAIN labels THEN labels[n] ELSE ""]

KeyIndexes(values, key) == {i \in DOMAIN values : values[i][1] = key}

\* How many of the oldest series go before a new one is added.
evictOldestHalf(values) ==
    IF Len(values) < MAX_SERIES_PER_METRIC THEN 0 ELSE (Len(values) + 1) \div 2

\* The cumulative count of an observation per upper bound, +Inf last.
Observe(counts, v) ==
    [i \in DOMAIN counts |->
       counts[i] + (IF i > Len(UpperBounds) THEN 1
                    ELSE IF v <= UpperBounds[i] THEN 1 ELSE 0)]

Fresh_(entry) ==
    IF entry.kind = "histogram" THEN [i \in 1..(Len(UpperBounds) + 1) |-> 0] ELSE 0

Updated_(entry, op, old, v) ==
    CASE entry.kind = "histogram" -> Observe(old, v)
      [] op = "set" -> v
      [] op = "dec" -> old - v
      [] OTHER -> old + v

\* Mutant of SumsAfter: the sums of the evicted series stay behind.
SumsKept(entry, gone, key, v) ==
    [k \in DOMAIN entry.sums \cup {key} |->
       (IF k \in DOMAIN entry.sums THEN entry.sums[k] ELSE 0)
         + (IF k = key THEN v ELSE 0)]

\* The sums of a histogram once the evicted series are deleted and the
\* observation is added.
SumsAfter(entry, gone, key, v) ==
    LET kept == DOMAIN entry.sums \ gone IN
    [k \in kept \cup {key} |->
       (IF k \in kept THEN entry.sums[k] ELSE 0) + (IF k = key THEN v ELSE 0)]

\* inc, dec, set and observe of a meter the caller holds.
Update(e, op, labels, v) ==
    LET entry == entries[e]
        key == labelKey(entry.labelNames, labels)
        new == KeyIndexes(entry.values, key) = {}
        drop == IF new THEN evictOldestHalf(entry.values) ELSE 0
        gone == {entry.values[i][1] : i \in 1..drop}
        kept == SubSeq(entry.values, drop + 1, Len(entry.values))
        rows == IF new THEN Append(kept, <<key, Fresh_(entry)>>) ELSE kept
        live == DOMAIN recorded[e] \ gone IN
    /\ MeterCall
    /\ op \in IF entry.kind = "gauge" THEN {"inc", "dec", "set"} ELSE {"inc"}
    /\ seriesDropped' = seriesDropped + drop
    /\ created' = created + (IF new THEN 1 ELSE 0)
    /\ entries' = [entries EXCEPT
         ![e].values = [i \in DOMAIN rows |->
                          IF rows[i][1] = key
                          THEN <<key, Updated_(entry, op, rows[i][2], v)>>
                          ELSE rows[i]],
         ![e].sums = IF entry.kind = "histogram"
                     THEN SumsAfter(entry, gone, key, v) ELSE @]
    /\ recorded' = [recorded EXCEPT ![e] =
         [k \in live \cup {key} |->
            IF k = key
            THEN Append(IF k \in live THEN @[k] ELSE <<>>, [op |-> op, v |-> v])
            ELSE @[k]]]
    /\ UNCHANGED registered

\* reset: the registry forgets its entries; the meters keep theirs.
Reset ==
    /\ MeterCall
    /\ registered' = <<>>
    /\ seriesDropped' = 0
    /\ created' = Len(FlattenSeq([e \in DOMAIN entries |-> entries[e].values]))
    /\ UNCHANGED <<entries, recorded>>

\* render: the families and whether the synthetic counter is written.
render ==
    [families |-> DOMAIN registered,
     synthetic |-> /\ seriesDropped > 0
                   /\ \A kind \in MeterKinds :
                        <<kind, SERIES_DROPPED_METRIC>> \notin DOMAIN registered]

MetersNext ==
    \/ \E kind \in MeterKinds, name \in MeterNames, names \in LabelNames :
         Meter(kind, name, names)
    \/ \E e \in DOMAIN entries, op \in {"inc", "dec", "set"},
          i \in DOMAIN LabelSets, v \in MeterAmounts :
         Update(e, op, LabelSets[i], v)
    \/ Reset

---------------------------------------------------------------------------
\* What a series must hold after its updates, from the updates alone.
HeldAfter(entry, ups) ==
    LET sets == {i \in DOMAIN ups : ups[i].op = "set"}
        last == CHOOSE i \in sets \cup {0} : \A j \in sets : j <= i
        delta(i) == IF ups[i].op = "dec" THEN 0 - ups[i].v ELSE ups[i].v
        from == IF last = 0 THEN 1 ELSE last IN
    IF entry.kind = "histogram"
    THEN [b \in 1..(Len(UpperBounds) + 1) |->
            Cardinality({i \in DOMAIN ups :
                           b > Len(UpperBounds) \/ ups[i].v <= UpperBounds[b]})]
    ELSE FoldLeft(LAMBDA a, i : a + delta(i), 0,
                  [i \in 1..(Len(ups) + 1 - from) |-> i + from - 1])

\* However series come, go and come back under the cap: every live series holds
\* what was recorded since it was last created and nothing from before, the
\* counts and the sums of a histogram cover the same series, no family passes
\* the cap, every series ever created is live or counted as dropped, and the
\* count of drops is rendered unless a registered family has its name
\* (createMetrics, evictOldestHalf, reset).
MetersHonest ==
    /\ \A e \in DOMAIN entries :
         LET entry == entries[e]
             keys == {entry.values[i][1] : i \in DOMAIN entry.values} IN
         /\ Len(entry.values) <= MAX_SERIES_PER_METRIC
         /\ Cardinality(keys) = Len(entry.values)
         /\ keys = DOMAIN recorded[e]
         /\ \A i \in DOMAIN entry.values :
              entry.values[i][2] = HeldAfter(entry, recorded[e][entry.values[i][1]])
         /\ entry.kind = "histogram" =>
              /\ DOMAIN entry.sums = keys
              /\ \A k \in keys :
                   entry.sums[k] = FoldLeft(LAMBDA a, u : a + u.v, 0, recorded[e][k])
    /\ seriesDropped + Len(FlattenSeq([e \in DOMAIN entries |-> entries[e].values]))
         = created
    /\ render.synthetic =>
         /\ seriesDropped > 0
         /\ \A id \in render.families : id[2] # SERIES_DROPPED_METRIC
=============================================================================
