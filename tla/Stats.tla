-------------------------------- MODULE Stats --------------------------------
(* The numbers of the agent's tools (agent/tools.py, summary/metrics.py):  *)
(* query_stats takes the stored row of a day that is over, or aggregates   *)
(* the records as they are; active_seconds is always the union of the      *)
(* records' intervals, which SQLite computes with window functions.  The   *)
(* rollup that writes the row (Summaries) is one step here, at any time.   *)
EXTENDS Integers, FiniteSets, FiniteSetsExt, SequencesExt

CONSTANTS
    Profiles,   \* what a record is of: [app, dev]
    NoApp,      \* app_name = ''
    Labels,     \* categories
    Unclassified, \* '_unclassified': no category_final
    AnyMachine, \* no device scope
    DeviceNames, \* what an admin may call a device, unique or not
    Plausible,  \* _MAX_PLAUSIBLE_RECORD_MS
    DayEnd,     \* the stored window is 0 .. DayEnd
    Periods,    \* what may be asked for: [from, to]
    LastInstant, \* bound of the clock
    MaxEntries, \* bound: records
    MaxUpdates  \* bound: changes of records and names, and rollups

ASSUME StatsAssumption ==
    /\ Unclassified \notin Labels
    /\ Plausible \in Nat /\ DayEnd \in Nat \ {0}
    /\ LastInstant \in Nat /\ MaxEntries \in Nat /\ MaxUpdates \in Nat
    /\ Periods \subseteq [from : 0 .. LastInstant, to : 1 .. LastInstant + 1]
    /\ \A p \in Periods : p.from < p.to

VARIABLES
    clock,
    record,     \* the records with their categories, numbered as they arrived
    digest,     \* the metrics of the day's summaries row, by name
    deviceName, \* device -> its label
    stale,      \* history: a record arrived or changed since it was built
    updates

statsVars == <<clock, record, digest, deviceName, stale, updates>>

Registered == {p.dev : p \in Profiles}
Metrics == {"seconds_by_category", "seconds_by_app", "seconds_by_device"}

(* Rows of builds before device_ms existed lack the devices.               *)
NoDigest == <<>>
DigestBeforeDevices == [metric \in Metrics \ {"seconds_by_device"} |-> <<>>]

StatsInit ==
    /\ clock \in 0 .. LastInstant /\ record = <<>> /\ stale = FALSE /\ updates = 0
    /\ digest \in {NoDigest, DigestBeforeDevices}
    /\ deviceName \in [Registered -> DeviceNames]

-----------------------------------------------------------------------------
(* _clamped_dur_sql                                                        *)
Span(r) == IF r.end - r.start > Plausible \/ r.end < r.start THEN 0 ELSE r.end - r.start
Until(r) == r.start + Span(r)
TimeOf(S) == SumFunction([r \in S |-> Span(r)])

OnMachine(S, dev) == {r \in S : dev \in {AnyMachine, r.of.dev}}

(* aggregate_frame_metrics: milliseconds by key, '' being no app.          *)
KeyOf(metric, r) ==
    CASE metric = "seconds_by_category" -> r.cat
      [] metric = "seconds_by_app"      -> r.of.app
      [] metric = "seconds_by_device"   -> r.of.dev

ByKey(metric, S) ==
    LET keys == {KeyOf(metric, r) : r \in S} \ (IF metric = "seconds_by_app" THEN {NoApp} ELSE {})
    IN  [k \in keys |-> TimeOf({r \in S : KeyOf(metric, r) = k})]

Total(ms) == SumFunction(ms)

-----------------------------------------------------------------------------
(* The store's writers: records arrive, late ones too, are closed (legacy  *)
(* ones before their start) and labelled.                                  *)
Arrives(start, p) ==
    /\ Len(record) < MaxEntries /\ start <= clock
    /\ record' = Append(record, [id |-> Len(record) + 1, start |-> start, end |-> start,
                                 of |-> p, cat |-> Unclassified])
    /\ stale' = TRUE /\ UNCHANGED <<clock, digest, deviceName, updates>>

Changed(i, r) ==
    /\ r # record[i] /\ record' = [record EXCEPT ![i] = r]
    /\ updates < MaxUpdates /\ updates' = updates + 1
    /\ stale' = TRUE /\ UNCHANGED <<clock, digest, deviceName>>

Closes(i, end) == end \in record[i].start - 1 .. clock /\ Changed(i, [record[i] EXCEPT !.end = end])

Labelled(i, cat) == Changed(i, [record[i] EXCEPT !.cat = cat])

Passes == /\ clock < LastInstant /\ clock' = clock + 1
          /\ UNCHANGED <<record, digest, deviceName, stale, updates>>

StartedIn(from, to) == {r \in ToSet(record) : from <= r.start /\ r.start < to}

Rollup ==
    /\ updates < MaxUpdates /\ updates' = updates + 1
    /\ digest' = [metric \in Metrics |-> ByKey(metric, StartedIn(0, DayEnd))]
    /\ stale' = FALSE /\ UNCHANGED <<clock, record, deviceName>>

(* update_device: nothing keeps two devices from having one name.          *)
Renamed(dev, name) ==
    /\ updates < MaxUpdates /\ updates' = updates + 1
    /\ deviceName' = [deviceName EXCEPT ![dev] = name] /\ UNCHANGED <<clock, record, digest, stale>>

StatsNext ==
    \/ \E start \in 0 .. LastInstant, p \in Profiles : Arrives(start, p)
    \/ \E i \in DOMAIN record : \/ \E end \in -1 .. LastInstant : Closes(i, end)
                                \/ \E cat \in Labels : Labelled(i, cat)
    \/ \E dev \in Registered, name \in DeviceNames : Renamed(dev, name)
    \/ Passes \/ Rollup

StatsSpec == StatsInit /\ [][StatsNext]_statsVars

-----------------------------------------------------------------------------
(* active_wall_ms: the intervals by their starts, equal ones in any order; *)
(* one that starts after all before it have ended begins a segment, equal  *)
(* starts being of one segment (the RANGE frame of SUM ... OVER).          *)
ByStart(S) == {seq \in SetToSeqs(S) : \A i, j \in DOMAIN seq : i < j => seq[i].start <= seq[j].start}

(* A mistake the property below must notice: looking at the last one only. *)
BeginsAfterLast(seq, i) == i > 1 => Until(seq[i - 1]) < seq[i].start

Begins(seq, i) == \A j \in 1 .. i - 1 : Until(seq[j]) < seq[i].start

(* To which segment each belongs, and how long a segment is.               *)
Segments(seq) ==
    LET first == {i \in DOMAIN seq : Begins(seq, i)}
    IN  [i \in DOMAIN seq |-> Cardinality({j \in first : seq[j].start <= seq[i].start})]
Length(S) == Max({Until(r) : r \in S}) - Min({r.start : r \in S})

WallTime(seq) ==
    LET segment == Segments(seq)
        members(n) == {seq[i] : i \in {j \in DOMAIN seq : segment[j] = n}}
    IN  SumFunction([n \in Range(segment) |-> Length(members(n))])

-----------------------------------------------------------------------------
(* A question: a metric, a period and a device, or all of them.            *)
DeviceScopes == Registered \cup {AnyMachine}
Matching(p, dev) == OnMachine(StartedIn(p.from, p.to), dev)

(* _try_cascade_metrics: the window is exactly the day, and it is over.    *)
FromDigest(metric, p, dev) ==
    dev = AnyMachine /\ p.from = 0 /\ p.to = DayEnd /\ p.to <= clock /\ metric \in DOMAIN digest

(* The dict by labels that query_stats makes of one by devices keeps, of   *)
(* several with one label, the last; SQLite groups them in any order.      *)
ByLabel(ms) ==
    LET labels == {deviceName[d] : d \in DOMAIN ms}
    IN  {[n \in labels |-> ms[last[n]]] :
            last \in {f \in [labels -> DOMAIN ms] : \A n \in labels : deviceName[f[n]] = n}}

(* query_stats: what may be answered by key; the total is of all keys.     *)
QueryStats(metric, p, dev) ==
    LET ms == IF FromDigest(metric, p, dev) THEN digest[metric] ELSE ByKey(metric, Matching(p, dev))
    IN  IF metric = "seconds_by_device" THEN ByLabel(ms) ELSE {ms}

(* get_app_breakdown and get_category_stats: always live, and BETWEEN; all *)
(* keys are here, of which the first top_n are returned.                   *)
Inclusive(p) == [p EXCEPT !.to = @ + 1]
AppBreakdown(p, dev) == ByKey("seconds_by_app", Matching(Inclusive(p), dev))
CategoryStats(p, dev) == ByKey("seconds_by_category", Matching(Inclusive(p), dev))

-----------------------------------------------------------------------------
StatsTypeOK ==
    /\ clock \in 0 .. LastInstant /\ Len(record) <= MaxEntries
    /\ \A i \in DOMAIN record : /\ record[i].id = i /\ record[i].start \in 0 .. clock
                                /\ record[i].end \in record[i].start - 1 .. clock
                                /\ record[i].of \in Profiles
                                /\ record[i].cat \in Labels \cup {Unclassified}
    /\ DOMAIN digest \subseteq Metrics /\ deviceName \in [Registered -> DeviceNames]
    /\ stale \in BOOLEAN /\ updates \in 0 .. MaxUpdates

(* The instants (an instant stands for the time up to the next one) that   *)
(* some record covers.                                                     *)
Active(S) == {t \in 0 .. LastInstant + Plausible : \E r \in S : r.start <= t /\ t < Until(r)}
Disjoint(S) == \A r, q \in S : r # q => Until(r) <= q.start \/ Until(q) <= r.start

(* The active time is what the records cover, overlaps counted once: at    *)
(* most their sum (metrics.py: "active_wall_ms <= active_ms always holds"),*)
(* and for a device whose records do not overlap what seconds_by_device    *)
(* says of it.                                                             *)
ActiveIsUnion(p, dev) ==
    LET S == Matching(p, dev)
        walls == {WallTime(seq) : seq \in ByStart(S)}
    IN  /\ walls = {Cardinality(Active(S))} /\ \A wall \in walls : wall <= TimeOf(S)
        /\ Disjoint(S) /\ S # {} /\ dev # AnyMachine =>
               walls = {answer[deviceName[dev]] : answer \in QueryStats("seconds_by_device", p, dev)}

Namesakes(S) == \E r, q \in S : r.of.dev # q.of.dev /\ deviceName[r.of.dev] = deviceName[q.of.dev]

(* Time by category and by device adds up to all the time there is (by app *)
(* to that of records with an app), live or from the digest, of which only *)
(* what changed after the rollup can be missing, unless devices share a    *)
(* name; the breakdown of the same period has no less time for any key.    *)
NoneMissing(metric, p, dev) ==
    LET counted == {r \in Matching(p, dev) : metric = "seconds_by_app" => r.of.app # NoApp}
        listed == IF metric = "seconds_by_app" THEN AppBreakdown(p, dev) ELSE CategoryStats(p, dev)
        live == ByKey(metric, counted)
    IN  /\ \/ \A answer \in QueryStats(metric, p, dev) : Total(answer) = TimeOf(counted)
           \/ stale /\ FromDigest(metric, p, dev)
           \/ metric = "seconds_by_device" /\ Namesakes(counted)
        /\ metric # "seconds_by_device" => \A k \in DOMAIN live : listed[k] >= live[k]

(* Whatever the agent asks of a time with records, it is told the time     *)
(* they cover.                                                             *)
StatsExact ==
    record # <<>> =>
        \A p \in Periods, dev \in DeviceScopes :
            ActiveIsUnion(p, dev) /\ \A metric \in Metrics : NoneMissing(metric, p, dev)

-----------------------------------------------------------------------------
(* tools.py:550, "Only closed windows qualify; an open window's row is     *)
(* partial and would undercount": a closed window's row is partial as well *)
(* until the rollup runs again.                                            *)
DigestComplete ==
    \A metric \in Metrics, p \in Periods :
        FromDigest(metric, p, AnyMachine) =>
            Total(digest[metric]) >= Total(ByKey(metric, Matching(p, AnyMachine)))

(* tools.py:723, the total is "over ALL keys": but for devices of one name *)
(* it is over the last of them.                                            *)
AllDevicesCounted ==
    \A p \in Periods, dev \in DeviceScopes : \A answer \in QueryStats("seconds_by_device", p, dev) :
        FromDigest("seconds_by_device", p, dev) \/ Total(answer) = TimeOf(Matching(p, dev))
=============================================================================
