------------------------------- MODULE Overview -------------------------------
(* get_activity_overview for one device (activity_overview of              *)
(* agent/activity_context.py): the captured timestamps are read first,     *)
(* then the summary windows, one grain at a time and coarse first, while   *)
(* rollup and narrator go on building, re-queueing and narrating them; the *)
(* answer is put together from what was read.  Windows of one grain may    *)
(* overlap: stored ones keep the time zone and cut hour of their time.     *)
EXTENDS Integers, FiniteSets, SequencesExt

CONSTANTS
    MaxTime,    \* time is 0 .. MaxTime
    Windows,    \* the windows a summary row may stand for: [grain, s, e]
    Coarse,     \* the coarsest grain; grains run from 1, the finest
    MaxReturned, \* windows returned at most
    Clocks,     \* what the clock may show when the request comes
    MaxChanges  \* bound on the rows that change while they are read

ASSUME OverviewAssumption ==
    /\ MaxTime \in Nat /\ Clocks \subseteq 0 .. MaxTime /\ Coarse \in Nat \ {0} /\ MaxReturned \in Nat \ {0}
    /\ MaxChanges \in Nat /\ IsFiniteSet(Windows)
    /\ \A w \in Windows : w.grain \in 1 .. Coarse /\ w.s \in 0 .. MaxTime /\ w.e \in w.s + 1 .. MaxTime

VARIABLES
    frames,     \* ts_start of the device's records
    status,     \* the device summaries: none, pending or ready
    query       \* the request: what it asked and what it has read

overviewVars == <<frames, status, query>>

Instants == 0 .. MaxTime - 1
NoQuery == [pc |-> "none"]

OverviewInit ==
    /\ frames = {} /\ status = [w \in Windows |-> "none"] /\ query = NoQuery

(* The store's writers; ready means narrated with a description.           *)
MayChange ==
    \/ query.pc = "none" /\ UNCHANGED query
    \/ query.pc = "reading" /\ query.changes < MaxChanges
       /\ query' = [query EXCEPT !.changes = @ + 1]

Captured(t) ==
    /\ t \notin frames /\ frames' = frames \cup {t}
    /\ MayChange /\ UNCHANGED status

Queue(w) ==
    /\ status[w] # "pending" /\ status' = [status EXCEPT ![w] = "pending"]
    /\ MayChange /\ UNCHANGED frames

Narrate(w) ==
    /\ status[w] = "pending" /\ status' = [status EXCEPT ![w] = "ready"]
    /\ MayChange /\ UNCHANGED frames

(* The one read of the captured timestamps.                                *)
AskOverview(start, end, now, grain) ==
    /\ query = NoQuery /\ start < end
    /\ query' = [pc |-> "reading", start |-> start, end |-> end, now |-> now,
                 grain |-> grain, read |-> <<>>, changes |-> 0,
                 times |-> {t \in frames : start <= t /\ t < end}]
    /\ UNCHANGED <<frames, status>>

(* get_device_summaries with overlap, one grain under the lock at a time;  *)
(* windows that start together come in any order.                          *)
OfGrain(q) ==
    LET rows == {[s |-> w.s, e |-> w.e, ready |-> status[w] = "ready"] :
                    w \in {v \in Windows : /\ v.grain = q.grain /\ status[v] # "none"
                                           /\ v.s < q.end /\ v.e > q.start}}
    IN  {seq \in SetToSeqs(rows) : \A i, j \in DOMAIN seq : i < j => seq[i].s <= seq[j].s}

ReadGrain ==
    /\ query.pc = "reading"
    /\ \E rows \in OfGrain(query) :
          query' = [query EXCEPT !.read = @ \o rows,
                                 !.grain = @ - 1,
                                 !.pc = IF query.grain = 1 THEN "answered" ELSE "reading"]
    /\ UNCHANGED <<frames, status>>

OverviewNext ==
    \/ \E t \in Instants : Captured(t)
    \/ \E w \in Windows : Queue(w) \/ Narrate(w)
    \/ \E start, end \in 0 .. MaxTime, now \in Clocks, grain \in 1 .. Coarse :
          AskOverview(start, end, now, grain)
    \/ ReadGrain

OverviewSpec == OverviewInit /\ [][OverviewNext]_overviewVars

-----------------------------------------------------------------------------
(* The answer.  bisect_left: how many of a sorted sequence lie before x.   *)
Bisect(seq, x) == Cardinality({i \in DOMAIN seq : seq[i] < x})

Lesser(a, b) == IF a < b THEN a ELSE b

Usable(q, row) == row.ready /\ q.start <= row.s /\ row.e <= Lesser(q.end, q.now)

Starts(seq) == [k \in DOMAIN seq |-> seq[k].s]
Finishes(seq) == [k \in DOMAIN seq |-> seq[k].e]

ClearAfterOnly(selected, row) ==
    LET i == Bisect(Starts(selected), row.s)
    IN  i < Len(selected) => selected[i + 1].s >= row.e

(* Neither neighbour in the sorted list of the selected reaches into it.   *)
Clear(selected, row) ==
    LET i == Bisect(Starts(selected), row.s)
    IN  /\ i > 0 => selected[i].e <= row.s
        /\ i < Len(selected) => selected[i + 1].s >= row.e

Inserted(selected, row) == InsertAt(selected, Bisect(Starts(selected), row.s) + 1, row)

Available(q) ==
    LET selected[n \in 0 .. Len(q.read)] ==
            IF n = 0 THEN <<>>
            ELSE IF Usable(q, q.read[n]) /\ Clear(selected[n - 1], q.read[n])
                 THEN Inserted(selected[n - 1], q.read[n])
                 ELSE selected[n - 1]
    IN  selected[Len(q.read)]

Returned(q) == LET all == Available(q) IN SubSeq(all, 1, Lesser(MaxReturned, Len(all)))

(* The uncovered ranges: what lies before each returned window, and after  *)
(* the last one.                                                           *)
Between(q, windows, n) ==
    [s |-> IF n = 1 THEN q.start ELSE windows[n - 1].e,
     e |-> IF n <= Len(windows) THEN windows[n].s ELSE q.end]

Gaps(q) ==
    LET windows == Returned(q)
        gaps[n \in 0 .. Len(windows) + 1] ==
            IF n = 0 THEN <<>>
            ELSE LET range == Between(q, windows, n)
                 IN  IF range.s < range.e THEN Append(gaps[n - 1], range) ELSE gaps[n - 1]
    IN  gaps[Len(windows) + 1]

(* The rows read that reach into one.                                      *)
InGap(gaps, row) ==
    LET i == Bisect(Finishes(gaps), row.s + 1) + 1
    IN  i <= Len(gaps) /\ gaps[i].s < row.e

Covered(q) ==
    LET windows == Returned(q)
    IN  Cardinality({t \in q.times : \E i \in DOMAIN windows :
                                         windows[i].s <= t /\ t < windows[i].e})

SummaryState(q) ==
    IF q.times = {} THEN "no_captured_records"
    ELSE IF Returned(q) = <<>> THEN "unavailable"
    ELSE IF Covered(q) < Cardinality(q.times) \/ Len(Available(q)) > MaxReturned THEN "partial"
    ELSE "covered"

-----------------------------------------------------------------------------
OverviewTypeOK ==
    /\ frames \subseteq Instants /\ status \in [Windows -> {"none", "pending", "ready"}]
    /\ query # NoQuery => /\ query.pc \in {"reading", "answered"} /\ query.grain \in 0 .. Coarse
                          /\ query.times \subseteq Instants /\ query.changes \in 0 .. MaxChanges

Within(t, piece) == piece.s <= t /\ t < piece.e
Overlap(a, b) == a.s < b.e /\ b.s < a.e
Pieces(q) == Returned(q) \o Gaps(q)

(* The returned windows and the uncovered ranges cut the requested period  *)
(* into disjoint pieces that leave nothing out: no narrative is given for  *)
(* a time outside the period or twice.                                     *)
Tiled(q) ==
    LET pieces == Pieces(q)
    IN  /\ \A t \in 0 .. MaxTime :
              LET here == {i \in DOMAIN pieces : Within(t, pieces[i])}
              IN  Cardinality(here) = IF q.start <= t /\ t < q.end THEN 1 ELSE 0
        /\ \A i \in DOMAIN pieces : pieces[i].s < pieces[i].e

(* A ready window of the period is left out only for one that it overlaps, *)
(* or, beyond the limit, for being newer than all of those returned.       *)
NoneLeftOut(q) ==
    LET windows == Returned(q)
    IN  \A i \in DOMAIN q.read :
            LET row == q.read[i]
            IN  Usable(q, row) =>
                   \/ \E j \in DOMAIN windows : Overlap(row, windows[j])
                   \/ Len(Available(q)) > MaxReturned /\ row.e > Last(windows).e

(* The windows still to come that are counted for the uncovered ranges are *)
(* those that overlap one.                                                 *)
GapRowsFound(q) ==
    LET gaps == Gaps(q)
    IN  \A i \in DOMAIN q.read :
            InGap(gaps, q.read[i]) <=> \E j \in DOMAIN gaps : Overlap(q.read[i], gaps[j])

(* The overview tells the agent the truth about what it leaves out,        *)
(* however rows changed between the reads of two grains.                   *)
OverviewHonest ==
    query.pc = "answered" =>
        /\ Tiled(query) /\ NoneLeftOut(query) /\ GapRowsFound(query)
        /\ SummaryState(query) = "covered" =>
              LET gaps == Gaps(query)
              IN  \A t \in query.times, j \in DOMAIN gaps : ~Within(t, gaps[j])
=============================================================================
