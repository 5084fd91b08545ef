-------------------------------- MODULE Paging --------------------------------
(* Reading the timeline page by page while records keep arriving:          *)
(* activity_page of the agent (agent/activity_context.py), the audit feed  *)
(* and the timeline of the browser (query_audit_records, query_records of  *)
(* db/sqlite.py with their routes).  A record's id is random: nothing      *)
(* relates it to the order of insertion.                                   *)
EXTENDS Naturals, FiniteSets, SequencesExt

CONSTANTS
    Ids,        \* record ids, an initial segment of the naturals in id order
    LastTime,   \* bound on ts_start
    Devices,    \* device_id of a record
    PageLimit,  \* page size
    AnyDevice   \* no device filter

ASSUME PagingAssumption ==
    /\ Ids \subseteq Nat /\ IsFiniteSet(Ids) /\ LastTime \in Nat
    /\ PageLimit \in Nat \ {0} /\ AnyDevice \notin Devices

VARIABLES
    rows,       \* the records table in rowid order
    reader      \* the reader: what it asked, its cursor, what it was given

pagingVars == <<rows, reader>>

Kinds == {"activity", "audit", "timeline"}
Row == [id : Ids, ts : 0 .. LastTime, dev : Devices]
NoReader == [pc |-> "none"]
Start == [ts |-> 0, id |-> 0, none |-> TRUE]
At(r) == [ts |-> r.ts, id |-> r.id, none |-> FALSE]

PagingInit == rows = <<>> /\ reader = NoReader

(* A record arrives: late ones with an old ts_start, any of them with a    *)
(* ts_start that is there already.  What arrives after the reader is done  *)
(* is left out.                                                            *)
Arrive(r) ==
    /\ reader.pc # "done"
    /\ \A i \in DOMAIN rows : rows[i].id # r.id
    /\ rows' = Append(rows, r)
    /\ UNCHANGED reader

InWindow(q, r) == q.from <= r.ts /\ r.ts <= q.to /\ q.dev \in {AnyDevice, r.dev}

(* The two keyset orders: (ts_start, id) ascending or descending ...       *)
Before(a, b) == a.ts < b.ts \/ (a.ts = b.ts /\ a.id < b.id)
Ahead(order, a, b) == IF order = "asc" THEN Before(a, b) ELSE Before(b, a)
Sorted(order, S) == CHOOSE seq \in SetToSeqs(S) :
                        \A i, j \in DOMAIN seq : i < j => Ahead(order, seq[i], seq[j])

BeyondTime(q, r) ==
    q.cursor.none \/ IF q.order = "asc" THEN q.cursor.ts < r.ts ELSE r.ts < q.cursor.ts

Beyond(q, r) == q.cursor.none \/ Ahead(q.order, q.cursor, r)

(* ... while the timeline's cursor is the ts_start of a record alone.      *)
Past(q, r) == IF q.kind = "timeline" THEN BeyondTime(q, r) ELSE Beyond(q, r)

SeenAnything(q) == rows
(* The insertion high-water mark of the first page of activity_page.       *)
Seen(q) == IF q.kind = "activity" THEN SubSeq(rows, 1, q.snapshot) ELSE rows

Asked(q) == Sorted(q.order, {r \in ToSet(Seen(q)) : InWindow(q, r) /\ Past(q, r)})

(* activity_page asks for one row more than the page, the routes take a    *)
(* full page for a sign that there is another one.                         *)
More(q, found) == IF q.kind = "activity" THEN Len(found) > PageLimit ELSE Len(found) >= PageLimit

Served(q) ==
    LET found == Asked(q)
        page == SubSeq(found, 1, IF Len(found) < PageLimit THEN Len(found) ELSE PageLimit)
    IN  [q EXCEPT !.given = @ \o page,
                  !.cursor = IF page = <<>> THEN @ ELSE At(Last(page)),
                  !.pc = IF More(q, found) THEN "paging" ELSE "done"]

(* The first page; activity_page still reads the record ids that were its  *)
(* cursors before, the anchor being a record of the window.                *)
FirstPage(kind, order, from, to, dev, anchor) ==
    LET q == [pc |-> "paging", kind |-> kind, order |-> order, from |-> from,
              to |-> to, dev |-> dev, cursor |-> anchor, anchor |-> anchor,
              snapshot |-> Len(rows), given |-> <<>>]
    IN  /\ reader = NoReader /\ from <= to
        /\ kind = "audit" => order = "desc" /\ dev = AnyDevice
        /\ kind = "timeline" => order = "asc"
        /\ anchor.none \/ (kind = "activity" /\ \E r \in ToSet(rows) : InWindow(q, r)
                                                                  /\ anchor = At(r))
        /\ reader' = Served(q)
        /\ UNCHANGED rows

NextPage ==
    /\ reader.pc = "paging"
    /\ reader' = Served(reader)
    /\ UNCHANGED rows

PagingNext ==
    \/ \E r \in Row : Arrive(r)
    \/ \E kind \in Kinds, order \in {"asc", "desc"}, from, to \in 0 .. LastTime,
          dev \in Devices \cup {AnyDevice}, anchor \in {Start} \cup {At(r) : r \in ToSet(rows)} :
          FirstPage(kind, order, from, to, dev, anchor)
    \/ NextPage

PagingSpec == PagingInit /\ [][PagingNext]_pagingVars

-----------------------------------------------------------------------------
PagingTypeOK ==
    /\ rows \in Seq(Row)
    /\ reader # NoReader =>
           /\ reader.pc \in {"paging", "done"} /\ reader.kind \in Kinds
           /\ reader.given \in Seq(Row) /\ reader.snapshot \in 0 .. Len(rows)

Reading(kind) == reader # NoReader /\ reader.kind = kind
Wanted(seen) ==
    Sorted(reader.order,
           {r \in ToSet(seen) : InWindow(reader, r) /\ Beyond([reader EXCEPT !.cursor = reader.anchor], r)})

(* The pages of get_recent_activity put together are the window as it was  *)
(* when the first one was read, in order, each record once: neither equal  *)
(* timestamps nor records arriving between two pages (anywhere in the      *)
(* window) repeat, skip or add one.                                        *)
ActivityExact ==
    Reading("activity") =>
        LET wanted == Wanted(SubSeq(rows, 1, reader.snapshot))
        IN  IF reader.pc = "done" THEN reader.given = wanted
                                  ELSE IsPrefix(reader.given, wanted)

(* Paging the audit feed to its end shows no record twice and every record *)
(* that was there when it began, newest first.                             *)
AuditComplete ==
    Reading("audit") =>
        /\ \A i, j \in DOMAIN reader.given : i < j => Before(reader.given[j], reader.given[i])
        /\ reader.pc = "done" =>
               ToSet(Wanted(SubSeq(rows, 1, reader.snapshot))) \subseteq ToSet(reader.given)

(* Whoever pages on while records arrive gets the whole window: the agent  *)
(* as it was when it began, the audit feed at least that.                  *)
PagesExact == ActivityExact /\ AuditComplete

-----------------------------------------------------------------------------
(* The same of the timeline (api/routes/records.py: "last record id for    *)
(* keyset pagination"), whose cursor skips the rest of a timestamp that a  *)
(* page ended in.                                                          *)
TimelineComplete ==
    Reading("timeline") /\ reader.pc = "done" =>
        ToSet(Wanted(SubSeq(rows, 1, reader.snapshot))) \subseteq ToSet(reader.given)
=============================================================================
