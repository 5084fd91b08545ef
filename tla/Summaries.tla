------------------------------ MODULE Summaries ------------------------------
(***************************************************************************)
(* The summary pyramid: the rollup loop writes metrics and a hash of their *)
(* inputs into rows of summaries and device_summaries, one row per device  *)
(* scope, grain and window; the narrate loop has an LLM describe the rows  *)
(* whose window has closed.  Frames (records and their analysis) arrive    *)
(* late and change while both loops work.  Every step is one section under *)
(* Database._lock; what a loop read in one it uses in the next.            *)
(*                                                                         *)
(* Time counts leaf windows (5 min).  A hash is represented by what is     *)
(* hashed and metrics by what they sum: the version of each frame, 0 for a *)
(* frame that is not in.  The narrative of a row likewise, as `told`.      *)
(***************************************************************************)
EXTENDS Integers, FiniteSets

CONSTANTS Frames,          \* rows of records
          LeafOf,          \* the leaf window of a frame's ts_start
          Devices,
          DeviceOf,        \* a frame's device, or UNKNOWN_DEVICE
          Global,          \* the scope of table summaries
          NoRow,           \* no row in hand
          Size,            \* leaf windows per window of grain 0, 1, ...
          Top,             \* the coarsest grain
          Lookback,        \* RollupConfig.loop_lookback_h
          NarrateLookback, \* NarrativeConfig.loop_lookback_h
          Limit,           \* NarrativeConfig.per_grain_limit
          Overfetch,       \* device rows fetched for each that is picked (8)
          MaxTime,         \* bound: the clock
          Changes,         \* bound: how often each frame changes
          MaxFaults        \* bound: failed ticks and LLM calls

Grains == 0..Top
Scopes == Devices \cup {Global}

(* window_bounds: the start of the window of grain g around a leaf window. *)
StartOf(leaf, g) == leaf - (leaf % Size[g])

ASSUME SummariesAssumption ==
    /\ IsFiniteSet(Frames) /\ LeafOf \in [Frames -> Nat]
    /\ DeviceOf \in [Frames -> Devices] /\ Global \notin Devices
    /\ Top \in Nat /\ Size \in [Grains -> Nat \ {0}] /\ Size[0] = 1
    /\ \A g \in 1..Top, f \in Frames :  \* windows consist of windows
          /\ StartOf(StartOf(LeafOf[f], g - 1), g) = StartOf(LeafOf[f], g)
          /\ StartOf(LeafOf[f], g - 1) + Size[g - 1] <= StartOf(LeafOf[f], g) + Size[g]
    /\ Lookback \in Nat /\ NarrateLookback \in Nat /\ Limit \in Nat \ {0}
    /\ Overfetch \in Nat \ {0}
    /\ MaxTime \in Nat /\ Changes \in [Frames -> Nat] /\ MaxFaults \in Nat

VARIABLES now,      \* the open leaf window
          version,  \* of each frame; 0 until it is delivered
          rows,     \* summaries and device_summaries
          builder,  \* the rollup loop
          narrator, \* the narrate loop
          pyramid,  \* RollupConfig.device_pyramid
          suspect,  \* history: rows whose narrative was saved across a rebuild,
                    \* or put together from rows that were suspect or outdated
          faults

summariesVars == <<now, version, rows, builder, narrator, pyramid, suspect, faults>>

-----------------------------------------------------------------------------
(* (grain, scope_key), and device_scope in device_summaries. *)
Row(s, g, leaf) == [scope |-> s, grain |-> g, start |-> StartOf(leaf, g)]
Keys == {Row(x[1], x[2], LeafOf[x[3]]) : x \in Scopes \X Grains \X Frames}
End(k) == k.start + Size[k.grain]

InScope(f, s) == s = Global \/ DeviceOf[f] = s
Covers(k, f) == InScope(f, k.scope) /\ StartOf(LeafOf[f], k.grain) = k.start

Nothing == [f \in Frames |-> 0]
AtLeast(a, b) == \A f \in Frames : a[f] >= b[f]

Stored(k) == rows[k].status # "absent"
Described(k) == rows[k].told # Nothing
Children(k) == {c \in Keys : /\ c.scope = k.scope /\ c.grain = k.grain - 1
                             /\ StartOf(c.start, k.grain) = k.start /\ Stored(c)}
DeviceRows(k) == {c \in Keys : /\ c.scope # Global /\ c.grain = k.grain
                               /\ c.start = k.start /\ Stored(c)}

(* Mistakes the properties below must notice (each stands in for the       *)
(* definition it is named after).                                          *)
FromChildrenInRange(k, field) ==
    [f \in Frames |->
        IF Covers(k, f) /\ LeafOf[f] \in builder.from..(builder.to - 1)
        THEN rows[Row(k.scope, k.grain - 1, LeafOf[f])][field][f] ELSE 0]
UpsertedQuietly(k, metrics, hash) ==
    [rows EXCEPT ![k].metrics = metrics, ![k].hash = hash,
                 ![k].status = IF @ = "absent" THEN "pending_summary" ELSE @]
UpsertedIfChanged(k, metrics, hash) ==
    IF rows[k].hash = hash THEN rows
    ELSE [rows EXCEPT ![k].metrics = metrics, ![k].hash = hash,
                      ![k].status = "pending_summary"]
PendingEarlier(scopes, g, upto) ==
    {k \in Keys : /\ k.scope \in scopes /\ k.grain = g
                  /\ rows[k].status = "pending_summary"
                  /\ upto - NarrateLookback <= k.start /\ End(k) < upto}

(* What the frames of a window are now; what the rows it is built from say. *)
Contents(k) == [f \in Frames |-> IF Covers(k, f) THEN version[f] ELSE 0]
FromChildren(k, field) ==
    [f \in Frames |->
        IF Covers(k, f) THEN rows[Row(k.scope, k.grain - 1, LeafOf[f])][field][f] ELSE 0]
FromDevices(k) ==
    [f \in Frames |->
        IF Covers(k, f) THEN rows[Row(DeviceOf[f], k.grain, LeafOf[f])].told[f] ELSE 0]

(* Rows a stage of the builder goes through: the leaf windows that hold a  *)
(* frame, or the parents of the stored rows one grain below.               *)
Touched(scopes, g, from, to) ==
    IF g = 0
    THEN {Row(x[1], 0, LeafOf[x[2]]) : x \in
            {y \in scopes \X Frames : /\ InScope(y[2], y[1]) /\ version[y[2]] > 0
                                      /\ LeafOf[y[2]] \in from..(to - 1)}}
    ELSE {Row(c.scope, g, c.start) : c \in
            {x \in Keys : /\ x.scope \in scopes /\ x.grain = g - 1 /\ Stored(x)
                          /\ x.start \in from..(to - 1)}}

First(keys) == {k \in keys : \A x \in keys : k.start <= x.start}

IdleBuilder == [pc |-> "idle", grain |-> 0, scopes |-> {Global}, from |-> 0, to |-> 0,
                todo |-> {}, row |-> NoRow, metrics |-> Nothing, hash |-> Nothing]
IdleNarrator == [pc |-> "idle", grain |-> 0, stage |-> "global", now |-> 0,
                 todo |-> {}, row |-> NoRow, told |-> Nothing, stale |-> FALSE]

SummariesInit ==
    /\ now = 0 /\ version = Nothing
    /\ rows = [k \in Keys |-> [metrics |-> Nothing, hash |-> Nothing,
                               told |-> Nothing, status |-> "absent"]]
    /\ builder = IdleBuilder /\ narrator = IdleNarrator
    /\ pyramid \in BOOLEAN
    /\ suspect = {} /\ faults = 0

-----------------------------------------------------------------------------
(* The rest of the system: time, deliveries (late ones too), and what      *)
(* closes, classifies or relabels a frame.                                 *)
Tick == /\ now < MaxTime /\ now' = now + 1
        /\ UNCHANGED <<version, rows, builder, narrator, pyramid, suspect, faults>>

FrameChanges(f) ==
    /\ LeafOf[f] <= now /\ version[f] < Changes[f]
    /\ version' = [version EXCEPT ![f] = @ + 1]
    /\ UNCHANGED <<now, rows, builder, narrator, pyramid, suspect, faults>>

-----------------------------------------------------------------------------
(* MetricsCascadeBuilder.build_recent: grain by grain, the global rows and *)
(* then those of the devices.                                              *)
Stage(scopes, g, from, to) ==
    builder' = [IdleBuilder EXCEPT !.pc = "row", !.scopes = scopes, !.grain = g,
                   !.from = from, !.to = to, !.todo = Touched(scopes, g, from, to)]

StartTick ==
    /\ builder.pc = "idle"
    /\ Stage({Global}, 0, now - Lookback, now)
    /\ UNCHANGED <<now, version, rows, narrator, pyramid, suspect, faults>>

NextStage ==
    /\ builder.pc = "row" /\ builder.todo = {}
    /\ IF builder.grain < Top
       THEN Stage(builder.scopes, builder.grain + 1, builder.from, builder.to)
       ELSE IF pyramid /\ builder.scopes = {Global}
       THEN Stage(Devices, 0, builder.from, builder.to)
       ELSE builder' = IdleBuilder
    /\ UNCHANGED <<now, version, rows, narrator, pyramid, suspect, faults>>

(* _build_leaf: metrics and hash are two queries with an await between. *)
AggregateLeaf(k) ==
    /\ builder.pc = "row" /\ builder.grain = 0 /\ k \in First(builder.todo)
    /\ builder' = [builder EXCEPT !.pc = "hash", !.row = k, !.metrics = Contents(k)]
    /\ UNCHANGED <<now, version, rows, narrator, pyramid, suspect, faults>>

HashLeaf ==
    /\ builder.pc = "hash"
    /\ builder' = [builder EXCEPT !.pc = "upsert", !.hash = Contents(builder.row)]
    /\ UNCHANGED <<now, version, rows, narrator, pyramid, suspect, faults>>

(* _build_rollup: all children of the window, also those out of range. *)
MergeChildren(k) ==
    /\ builder.pc = "row" /\ builder.grain > 0 /\ k \in First(builder.todo)
    /\ builder' = [builder EXCEPT !.pc = "upsert", !.row = k,
                      !.metrics = FromChildren(k, "metrics"),
                      !.hash = FromChildren(k, "hash")]
    /\ UNCHANGED <<now, version, rows, narrator, pyramid, suspect, faults>>

(* upsert_summary: a changed hash puts the row back in the LLM's queue. *)
Upserted(k, metrics, hash) ==
    [rows EXCEPT ![k].metrics = metrics, ![k].hash = hash,
                 ![k].status = IF rows[k].hash # hash THEN "pending_summary" ELSE @]

UpsertSummary ==
    LET k == builder.row IN
    /\ builder.pc = "upsert"
    /\ rows' = Upserted(k, builder.metrics, builder.hash)
    /\ builder' = [builder EXCEPT !.pc = "row", !.row = NoRow, !.todo = @ \ {k},
                                  !.metrics = Nothing, !.hash = Nothing]
    /\ narrator' = [narrator EXCEPT
           !.stale = @ \/ (k = narrator.row /\ rows[k].hash # builder.hash)]
    /\ UNCHANGED <<now, version, pyramid, suspect, faults>>

RollupFails ==
    /\ builder.pc # "idle" /\ faults < MaxFaults
    /\ builder' = IdleBuilder /\ faults' = faults + 1
    /\ UNCHANGED <<now, version, rows, narrator, pyramid, suspect>>

-----------------------------------------------------------------------------
(* narrate_range: grain by grain, pending rows of closed windows.  A query *)
(* has the n oldest, in either order when windows start together.          *)
Oldest(keys, n) ==
    {picked \in SUBSET keys :
        /\ Cardinality(picked) = IF Cardinality(keys) < n THEN Cardinality(keys) ELSE n
        /\ \A k \in picked, x \in keys \ picked : k.start <= x.start}

(* The first Limit of the fetched rows, taken in turn over the devices.    *)
Rank(k, keys) == Cardinality({x \in keys : x.scope = k.scope /\ x.start < k.start})
RoundRobin(keys) ==
    {picked \in SUBSET keys :
        /\ Cardinality(picked) = IF Cardinality(keys) < Limit THEN Cardinality(keys) ELSE Limit
        /\ \A k \in picked, x \in keys \ picked : Rank(k, keys) <= Rank(x, keys)}

Pending(scopes, g, upto) ==
    {k \in Keys : /\ k.scope \in scopes /\ k.grain = g
                  /\ rows[k].status = "pending_summary"
                  /\ upto - NarrateLookback <= k.start /\ End(k) <= upto}

Picks(stage, g, t) ==
    IF stage = "devices"
    THEN UNION {RoundRobin(fetched) :
                   fetched \in Oldest(Pending(Devices, g, t), Overfetch * Limit)}
    ELSE Oldest(Pending({Global}, g, t), Limit)

(* Device rows first; the global rows are then put together from them.     *)
NarrateStage(stage, g, t) ==
    \E picked \in Picks(stage, g, t) :
        narrator' = [IdleNarrator EXCEPT !.pc = "row", !.stage = stage, !.grain = g,
                                         !.now = t, !.todo = picked]

StartNarration ==
    /\ narrator.pc = "idle"
    /\ NarrateStage(IF pyramid THEN "devices" ELSE "global", 0, now)
    /\ UNCHANGED <<now, version, rows, builder, pyramid, suspect, faults>>

NextNarration ==
    /\ narrator.pc = "row" /\ narrator.todo = {}
    /\ \/ /\ narrator.stage = "devices"
          /\ NarrateStage("global", narrator.grain, narrator.now)
       \/ /\ narrator.stage = "global" /\ narrator.grain < Top
          /\ NarrateStage(IF pyramid THEN "devices" ELSE "global",
                          narrator.grain + 1, narrator.now)
       \/ /\ narrator.stage = "global" /\ narrator.grain = Top
          /\ narrator' = IdleNarrator
    /\ UNCHANGED <<now, version, rows, builder, pyramid, suspect, faults>>

NextRow(k) == narrator' = [narrator EXCEPT !.pc = "row", !.row = NoRow, !.todo = @ \ {k},
                                           !.told = Nothing, !.stale = FALSE]

(* A device row is not what the global row stands for: it is still to be   *)
(* rebuilt (the global rows are built first), waits for a new narrative    *)
(* with the old one in place, or is suspect itself.                        *)
Outdated(k) ==
    \/ \E f \in Frames :
          Covers(k, f) /\ rows[k].hash[f] > rows[Row(DeviceOf[f], k.grain, LeafOf[f])].hash[f]
    \/ \E c \in DeviceRows(k) : rows[c].status # "narrated" \/ c \in suspect

(* _fill_global: with device rows, wait for every description and compose. *)
ReadDevices(k) ==
    /\ narrator.pc = "row" /\ narrator.stage = "global" /\ pyramid
    /\ k \in First(narrator.todo)
    /\ IF DeviceRows(k) = {}
       THEN narrator' = [narrator EXCEPT !.pc = "children", !.row = k]
       ELSE IF \A c \in DeviceRows(k) : Described(c)
       THEN narrator' = [narrator EXCEPT !.pc = "save", !.row = k,
                                         !.stale = Outdated(k), !.told = FromDevices(k)]
       ELSE NextRow(k)
    /\ UNCHANGED <<now, version, rows, builder, pyramid, suspect, faults>>

(* _has_pending_children: a parent waits for its children. *)
CheckChildren(k) ==
    /\ \/ narrator.pc = "children" /\ narrator.row = k
       \/ /\ narrator.pc = "row" /\ k \in First(narrator.todo)
          /\ narrator.stage = "devices" \/ ~pyramid
    /\ IF \E c \in Children(k) : /\ rows[c].status = "pending_summary"
                                 /\ End(c) <= narrator.now
       THEN NextRow(k)
       ELSE narrator' = [narrator EXCEPT !.pc = "context", !.row = k]
    /\ UNCHANGED <<now, version, rows, builder, pyramid, suspect, faults>>

(* build_one up to the LLM call: the frames, or the children's narratives. *)
ReadContext ==
    LET k == narrator.row IN
    /\ narrator.pc = "context"
    /\ narrator' = [narrator EXCEPT !.pc = "save",
           !.told = IF k.grain = 0 THEN Contents(k) ELSE FromChildren(k, "told"),
           !.stale = IF k.grain = 0 THEN FALSE
                     ELSE @ \/ Children(k) \cap suspect # {}]
    /\ UNCHANGED <<now, version, rows, builder, pyramid, suspect, faults>>

(* The answer, saved by save_summary_narrative whatever became of the row. *)
SaveNarrative ==
    LET k == narrator.row IN
    /\ narrator.pc = "save"
    /\ rows' = [rows EXCEPT ![k].told = narrator.told, ![k].status = "narrated"]
    /\ suspect' = IF narrator.stale THEN suspect \cup {k} ELSE suspect \ {k}
    /\ NextRow(k)
    /\ UNCHANGED <<now, version, builder, pyramid, faults>>

(* An LLM error or an empty answer: the row stays pending. *)
NarrativeFails ==
    /\ narrator.pc = "save" /\ faults < MaxFaults
    /\ NextRow(narrator.row) /\ faults' = faults + 1
    /\ UNCHANGED <<now, version, rows, builder, pyramid, suspect>>

NarrationFails ==
    /\ narrator.pc # "idle" /\ faults < MaxFaults
    /\ narrator' = IdleNarrator /\ faults' = faults + 1
    /\ UNCHANGED <<now, version, rows, builder, pyramid, suspect>>

-----------------------------------------------------------------------------
RollupStep == \/ StartTick \/ NextStage \/ HashLeaf \/ UpsertSummary
              \/ \E k \in Keys : AggregateLeaf(k) \/ MergeChildren(k)
NarrateStep == \/ StartNarration \/ NextNarration \/ ReadContext \/ SaveNarrative
               \/ \E k \in Keys : ReadDevices(k) \/ CheckChildren(k)

SummariesNext ==
    \/ Tick \/ \E f \in Frames : FrameChanges(f)
    \/ RollupStep \/ RollupFails
    \/ NarrateStep \/ NarrativeFails \/ NarrationFails

SummariesSpec == SummariesInit /\ [][SummariesNext]_summariesVars
SummariesFairSpec ==
    SummariesSpec /\ WF_summariesVars(RollupStep) /\ WF_summariesVars(NarrateStep)

-----------------------------------------------------------------------------
Contained == [Frames -> Nat]
BuilderState ==
    [pc : {"idle", "row", "hash", "upsert"}, grain : Grains, scopes : SUBSET Scopes,
     from : Int, to : Int, todo : SUBSET Keys, row : Keys \cup {NoRow},
     metrics : Contained, hash : Contained]
NarratorState ==
    [pc : {"idle", "row", "children", "context", "save"}, grain : Grains,
     stage : {"global", "devices"}, now : 0..MaxTime, todo : SUBSET Keys,
     row : Keys \cup {NoRow}, told : Contained, stale : BOOLEAN]

SummariesTypeOK ==
    /\ now \in 0..MaxTime /\ version \in Contained
    /\ rows \in [Keys -> [metrics : Contained, hash : Contained, told : Contained,
                          status : {"absent", "pending_summary", "narrated"}]]
    /\ builder \in BuilderState /\ narrator \in NarratorState
    /\ suspect \subseteq Keys /\ faults \in 0..MaxFaults /\ pyramid \in BOOLEAN

(* A row marked as narrated has a narrative of everything its hash stands  *)
(* for, through all grains, unless a rebuild changed the row while it was  *)
(* being described, or it was composed from outdated device rows (see      *)
(* Outdated), or one it is made of was.                                    *)
NarrativeCoversInputs ==
    \A k \in Keys \ suspect :
        rows[k].status = "narrated" => AtLeast(rows[k].told, rows[k].hash)

(* A rebuild never takes back what a row already counts, even when part of *)
(* its window has left the lookback.                                       *)
NeverDowngraded ==
    [][\A k \in Keys : /\ AtLeast(rows'[k].metrics, rows[k].metrics)
                       /\ AtLeast(rows'[k].hash, rows[k].hash)]_summariesVars

(* Each frame of the lookback is counted in the end, as it is then, once   *)
(* in a window of every grain, globally and for its device.                *)
MetricsSettle ==
    <>[](\A f \in Frames : LeafOf[f] \in (now - Lookback)..(now - 1) =>
            \A k \in Keys : Covers(k, f) /\ (k.scope = Global \/ pyramid) =>
                rows[k].metrics[f] = version[f] /\ rows[k].hash[f] = version[f])

(* Every row whose window has closed is narrated in the end. *)
NarratedEventually ==
    <>[](\A k \in Keys :
            Stored(k) /\ now - NarrateLookback <= k.start /\ End(k) <= now
                => rows[k].status = "narrated")

(* narrative.py: "compose each pending global row from its device rows     *)
(* once they are all narrated".                                            *)
ComposedOnceNarrated ==
    [][\A k \in Keys : narrator'.pc = "save" /\ narrator'.row = k /\ narrator.row # k =>
          \A c \in DeviceRows(k) : rows[c].status = "narrated"]_summariesVars

(* narrative.py: a re-emission "resets a row back to pending, so it gets   *)
(* re-narrated next run".                                                  *)
RequeuedIsRenarrated ==
    \A k \in Keys : rows[k].status = "narrated" => AtLeast(rows[k].told, rows[k].hash)
=============================================================================
