------------------------------ MODULE Delivery ------------------------------
(***************************************************************************)
(* From the client's outbox to the server's timeline: OutboxBackend        *)
(* appends record, screenshot and close entries, OutboxSender drains them  *)
(* through a sliding window with a per-record barrier and in-order acks,   *)
(* requests time out and are retried while the first one may still be      *)
(* executed, and the server ingests, heals, expires and closes records.    *)
(* The outbox is the reliable queue of AtLeastOnceQueue, the activity of   *)
(* one device; the ingest of a request is one step here (its inner steps   *)
(* are in AnalysisPipeline).                                               *)
(***************************************************************************)
EXTENDS Integers, Sequences

CONSTANTS Records,     \* 1 .. N: records in the order they are captured
          Window,      \* OutboxSender concurrency
          Oversize,    \* records whose screenshot exceeds max_image_bytes
          Bridge,      \* _MAX_ORPHAN_BRIDGE_MS
          MaxTime,     \* bound: the clock
          MaxFaults,   \* bound: timeouts and client restarts
          Null         \* no value

ASSUME DeliveryAssumption ==
    /\ Records \subseteq Nat \ {0} /\ Oversize \subseteq Records
    /\ Window \in Nat \ {0}
    /\ Bridge \in Nat /\ MaxTime \in Nat /\ MaxFaults \in Nat
    /\ Null \notin Nat

VARIABLES now,       \* the clock (milliseconds everywhere in the code)
          open,      \* the record the capture service has open, or Null
          begun,     \* ts_start the client gave each record, or Null
          ended,     \* ts_end the client closed each record with, or Null
          pending,   \* the outbox: unacked entries, oldest first
          window,    \* the window being drained: its entries and their state
          late,      \* requests the client gave up that may yet be executed
          start,     \* server: records.ts_start, Null when there is no row
          end,       \* server: records.ts_end
          shot,      \* server: records with a screenshot
          acked,     \* history: entries acked
          overtaken, \* history: a record was ingested after a later one
          faults     \* timeouts and restarts so far

capture == <<open, begun, ended>>
sender == <<pending, window, late, acked>>
server == <<start, end, shot, overtaken>>
vars == <<now, capture, sender, server, faults>>

Entry(kind, r, ts) == [kind |-> kind, rec |-> r, ts |-> ts]
Contents(s) == {s[i] : i \in DOMAIN s}
Least(S) == CHOOSE x \in S : \A y \in S : x <= y

-----------------------------------------------------------------------------
(* _bounded_record_end *)
Plausible(s, e) == 0 <= e - s /\ e - s <= Bridge

(* Mistakes: BoundaryInvented, ReadyAtOnce, DropOversizeStalls and         *)
(* AckHeadAttempted each stand in for the definition that follows; a       *)
(* property below must notice the difference.                              *)
BoundedEnd(s, requested, existing) ==
    IF Plausible(s, requested) THEN requested
    ELSE IF existing # Null /\ Plausible(s, existing) THEN existing
    ELSE s

(* _close_open_records_before: the next start within Bridge, else the tail *)
(* within Bridge, else a point.                                            *)
BoundaryInvented(r, tail) == start[r] + Bridge

Boundary(r, tail) ==
    LET nexts == {start[n] : n \in {m \in Records : start[m] # Null /\ start[m] > start[r]
                                                    /\ start[m] - start[r] <= Bridge}}
    IN  IF nexts # {} THEN Least(nexts)
        ELSE IF tail # Null /\ tail - start[r] <= Bridge THEN tail
        ELSE start[r]

OpenBefore(cutoff) == {r \in Records : start[r] # Null /\ end[r] = Null /\ start[r] < cutoff}

Healed(cutoff, tail) ==
    [r \in Records |-> IF r \in OpenBefore(cutoff) THEN Boundary(r, tail) ELSE end[r]]

(* ingest_device_or_get_record: the row a first request inserts starts at  *)
(* the ts_start of that request, and heals the open rows before it.        *)
IngestRecord(r, ts) ==
    IF start[r] # Null THEN UNCHANGED <<start, end, overtaken>>
    ELSE /\ end' = Healed(ts, ts)
         /\ start' = [start EXCEPT ![r] = ts]
         /\ overtaken' = (overtaken \/ \E n \in Records : start[n] # Null /\ start[n] > ts)

(* The effect of one request, and whether its reply is a success. *)
Apply(e) ==
    \/ /\ e.kind = "record" /\ IngestRecord(e.rec, e.ts) /\ UNCHANGED shot
    \/ /\ e.kind = "shot" /\ IngestRecord(e.rec, e.ts) /\ shot' = shot \cup {e.rec}
    \/ /\ e.kind = "close" /\ start[e.rec] # Null
       /\ end' = [end EXCEPT ![e.rec] = BoundedEnd(start[e.rec], e.ts, end[e.rec])]
       /\ UNCHANGED <<start, shot, overtaken>>
    \/ /\ e.kind = "close" /\ start[e.rec] = Null
       /\ UNCHANGED server

Succeeds(e) == e.kind = "close" => start[e.rec] # Null

-----------------------------------------------------------------------------
Init == /\ now = 0 /\ open = Null
        /\ begun = [r \in Records |-> Null] /\ ended = [r \in Records |-> Null]
        /\ pending = <<>> /\ window = <<>> /\ late = {} /\ acked = {}
        /\ start = [r \in Records |-> Null] /\ end = [r \in Records |-> Null]
        /\ shot = {} /\ overtaken = FALSE /\ faults = 0

Tick == /\ now < MaxTime /\ now' = now + 1
        /\ UNCHANGED <<capture, sender, server, faults>>

(* OutboxBackend: what the capture service submits, in this order per      *)
(* record; one record at a time, each starting after the one before.       *)
SubmitRecord(r) ==
    /\ open = Null /\ begun[r] = Null
    /\ \A m \in Records : m < r => begun[m] # Null /\ begun[m] < now
    /\ open' = r /\ begun' = [begun EXCEPT ![r] = now]
    /\ pending' = Append(pending, Entry("record", r, now))
    /\ UNCHANGED <<now, ended, window, late, acked, server, faults>>

SubmitScreenshot(r) ==
    /\ open = r
    /\ \A e \in Contents(pending) \cup acked : e.kind = "shot" => e.rec # r
    /\ pending' = Append(pending, Entry("shot", r, now))
    /\ UNCHANGED <<now, capture, window, late, acked, server, faults>>

CloseRecord(r) ==
    /\ open = r
    /\ open' = Null /\ ended' = [ended EXCEPT ![r] = now]
    /\ pending' = Append(pending, Entry("close", r, now))
    /\ UNCHANGED <<now, begun, window, late, acked, server, faults>>

-----------------------------------------------------------------------------
(* _drain_window_concurrent: with Window = 1 this is _drain_pending. *)
StartWindow ==
    /\ window = <<>> /\ pending # <<>>
    /\ \E n \in 1 .. Len(pending) :
          /\ n = IF Len(pending) < Window THEN Len(pending) ELSE Window
          /\ window' = [i \in 1 .. n |-> [entry |-> pending[i], state |-> "wait"]]
    /\ UNCHANGED <<now, capture, pending, late, acked, server, faults>>

SetState(i, s) == window' = [window EXCEPT ![i].state = s]

ReadyAtOnce(i) == TRUE

(* The barrier: earlier entries of the same record are done. *)
Ready(i) == \A j \in 1 .. i - 1 : window[j].entry.rec = window[i].entry.rec
                                     => window[j].state = "done"

Dropped(e) == e.kind = "shot" /\ e.rec \in Oversize

DropOversizeStalls(i) ==
    /\ i \in DOMAIN window /\ window[i].state = "wait" /\ Ready(i)
    /\ Dropped(window[i].entry)
    /\ SetState(i, "skipped")
    /\ UNCHANGED <<now, capture, pending, late, acked, server, faults>>

AckHeadAttempted ==
    /\ window # <<>> /\ window[1].state \in {"done", "sending"}
    /\ acked' = acked \cup {window[1].entry}
    /\ pending' = Tail(pending) /\ window' = Tail(window)
    /\ UNCHANGED <<now, capture, late, server, faults>>

DropOversize(i) ==
    /\ i \in DOMAIN window /\ window[i].state = "wait" /\ Ready(i)
    /\ Dropped(window[i].entry)
    /\ SetState(i, "done")
    /\ UNCHANGED <<now, capture, pending, late, acked, server, faults>>

Send(i) ==
    /\ i \in DOMAIN window /\ window[i].state = "wait" /\ Ready(i)
    /\ ~Dropped(window[i].entry)
    /\ SetState(i, "sending")
    /\ UNCHANGED <<now, capture, pending, late, acked, server, faults>>

(* The server executes the request and the reply arrives: done, or an      *)
(* error (404) that is retried after the backoff.                          *)
Reply(i) ==
    /\ i \in DOMAIN window /\ window[i].state = "sending"
    /\ Apply(window[i].entry)
    /\ SetState(i, IF Succeeds(window[i].entry) THEN "done" ELSE "wait")
    /\ UNCHANGED <<now, capture, pending, late, acked, faults>>

(* No reply in time: _send_with_backoff retries; the request may have been *)
(* executed, be executed later, or never.                                  *)
Timeout(i) ==
    /\ i \in DOMAIN window /\ window[i].state = "sending"
    /\ faults < MaxFaults /\ faults' = faults + 1
    /\ SetState(i, "wait")
    /\ late' \in {late, late \cup {window[i].entry}}
    /\ UNCHANGED <<now, capture, pending, acked, server>>

ExecuteLate(e) ==
    /\ e \in late
    /\ Apply(e)
    /\ late' = late \ {e}
    /\ UNCHANGED <<now, capture, pending, window, acked, faults>>

(* In-order ack: only the head of the window. *)
AckHead ==
    /\ window # <<>> /\ window[1].state = "done"
    /\ acked' = acked \cup {window[1].entry}
    /\ pending' = Tail(pending) /\ window' = Tail(window)
    /\ UNCHANGED <<now, capture, late, server, faults>>

(* The client process dies or quits: the outbox stays, the open record     *)
(* never gets its close, requests on their way may still be executed.      *)
ClientRestart ==
    /\ faults < MaxFaults /\ faults' = faults + 1
    /\ open' = Null /\ window' = <<>>
    /\ late' \in {late \cup {w.entry : w \in S} :
                     S \in SUBSET {w \in Contents(window) : w.state = "sending"}}
    /\ UNCHANGED <<now, begun, ended, pending, acked, server>>

(* expire_stale_open_records, every reclaim interval. *)
ExpireStale ==
    /\ OpenBefore(now - Bridge) # {}
    /\ end' = Healed(now - Bridge, Null)
    /\ UNCHANGED <<now, capture, sender, start, shot, overtaken, faults>>

SenderStep == \/ StartWindow \/ AckHead
              \/ \E i \in 1 .. Window : DropOversize(i) \/ Send(i)

Next == \/ Tick \/ SenderStep \/ ClientRestart \/ ExpireStale
        \/ \E r \in Records : SubmitRecord(r) \/ SubmitScreenshot(r) \/ CloseRecord(r)
        \/ \E i \in 1 .. Window : Reply(i) \/ Timeout(i)
        \/ \E e \in late : ExecuteLate(e)

(* The drain loop never sleeps forever, and a request that is retried      *)
(* again and again is answered some day.                                   *)
Fairness == /\ WF_vars(SenderStep)
            /\ \A i \in 1 .. Window : SF_vars(Reply(i))

Spec == Init /\ [][Next]_vars
FairSpec == Spec /\ Fairness

-----------------------------------------------------------------------------
Times == 0 .. MaxTime
Entries == [kind : {"record", "shot", "close"}, rec : Records, ts : Times]

TypeOK ==
    /\ now \in Times /\ open \in Records \cup {Null}
    /\ begun \in [Records -> Times \cup {Null}] /\ ended \in [Records -> Times \cup {Null}]
    /\ pending \in Seq(Entries) /\ late \subseteq Entries /\ acked \subseteq Entries
    /\ window \in Seq([entry : Entries, state : {"wait", "sending", "done"}])
    /\ Len(window) <= Window
    /\ start \in [Records -> Times \cup {Null}] /\ end \in [Records -> Times \cup {Null}]
    /\ shot \subseteq Records /\ overtaken \in BOOLEAN
    /\ faults \in 0 .. MaxFaults

(* The timeline shows a record from the moment the client captured it: no  *)
(* replay, late request, restart or overtaking inside the window lets a    *)
(* screenshot, stamped with its upload time, create the row.               *)
StartsAsCaptured == \A r \in Records : start[r] \in {Null, begun[r]}

(* No bar of the timeline is negative or crosses an unobserved gap.        *)
SpansBounded ==
    \A r \in Records : end[r] # Null => start[r] # Null /\ Plausible(start[r], end[r])

(* Whatever the outbox forgot has reached the server and is still true     *)
(* there: the row, the screenshot (unless dropped for its size), and the   *)
(* client's own end, which neither healing nor expiry nor a late request   *)
(* may override when it is plausible.                                      *)
AckedIsApplied ==
    \A e \in acked :
        /\ e.kind = "record" => start[e.rec] = e.ts
        /\ e.kind = "shot" => e.rec \in shot \cup Oversize
        /\ e.kind = "close" =>
              IF Plausible(begun[e.rec], e.ts) THEN end[e.rec] = e.ts ELSE end[e.rec] # Null

(* The device's bars do not overlap, healed orphans included, as long as   *)
(* the records reached the server in the order they were captured.         *)
Disjoint(r, n) ==
    start[r] # Null /\ start[n] # Null /\ end[r] # Null /\ start[r] < start[n]
        => end[r] <= start[n]

NoOverlapInOrder == ~overtaken => \A r, n \in Records : Disjoint(r, n)

(* The outbox always drains in the end: no barrier, drop, retry or restart *)
(* leaves the sender stuck.                                                *)
Drained == []<>(pending = <<>>)

-----------------------------------------------------------------------------
(* infra/PLAN-MULTIPATH-CLIENT.md on the sliding window: neither order nor *)
(* ack durability is broken and the server needs no change.  The server    *)
(* heals an orphan up to the next start it knows; once everything has been *)
(* delivered no bar reaches into a later one.                              *)
NoOverlap == pending = <<>> => \A r, n \in Records : Disjoint(r, n)
=============================================================================
