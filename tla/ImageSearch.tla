------------------------------ MODULE ImageSearch ------------------------------
(* Search by reference image (api/routes/search.py) over the pHash index   *)
(* (phash_index/): one BK-tree for each day, in memory, filled by the      *)
(* ingest handlers behind the database and rebuilt from it at start.  A    *)
(* perceptual hash is the set of its one bits.                             *)
EXTENDS Integers, FiniteSets, SequencesExt

CONSTANTS
    Bits,       \* of a hash; 64 in the code
    Shots,      \* the screenshots clients may send: [id, hash, ts, dev, app]
    Handlers,   \* uploads that the server handles at the same time
    Queries,    \* the requests: [hash, radius, from, to, dev, app]
    DayLength,  \* of a bucket, in units of ts
    MaxAnswers, \* wanted: the request's limit
    MaxFused,   \* hits that are looked at after fusion; 1000 in the code
    Fetch,      \* over-fetch of a channel: limit * 4, of a limit that is at most 2000
    MaxRebuilds,
    AllDevices, AllApps

ASSUME ImageSearchAssumption ==
    /\ \A s, t \in Shots : s.id = t.id => s = t
    /\ IsFiniteSet(Bits) /\ \A s \in Shots : s.hash \subseteq Bits /\ s.id \in Nat /\ s.ts \in Nat
    /\ \A q \in Queries : q.hash \subseteq Bits /\ q.radius \in Int
    /\ DayLength \in Nat \ {0} /\ MaxRebuilds \in Nat

ASSUME LimitsAssumption ==
    /\ Fetch \in 1 .. 8000 /\ MaxFused \in Nat \ {0} /\ MaxAnswers \in 1 .. MaxFused

VARIABLES
    screenshots, \* the table
    index,       \* day -> the nodes of its tree in insertion order
    upload,      \* handler -> the screenshot it stored and whether it was new
    search,      \* the request: its channels and its answer
    rebuilds

imageVars == <<screenshots, index, upload, search, rebuilds>>

Days == {s.ts \div DayLength : s \in Shots}
Day(s) == s.ts \div DayLength
Hamming(a, b) == Cardinality((a \ b) \cup (b \ a))
NoUpload == [pc |-> "none"]
NoSearch == [pc |-> "none"]
EmptyIndex == [d \in Days |-> <<>>]

ImageInit ==
    /\ screenshots = {} /\ index = EmptyIndex /\ upload = [h \in Handlers |-> NoUpload]
    /\ search = NoSearch /\ rebuilds = 0

(* BKTree.insert: from the root down the edges of the distance to the node *)
(* until there is no child at that distance; the child at an edge comes    *)
(* after its parent in the sequence.                                       *)
Place(nodes, hash) ==
    LET at[n \in 0 .. Len(nodes)] ==
            IF n = 0 THEN 0
            ELSE IF nodes[n].parent = at[n - 1]
                    /\ (at[n - 1] # 0 => nodes[n].edge = Hamming(hash, nodes[at[n - 1]].hash))
                 THEN n ELSE at[n - 1]
        last == at[Len(nodes)]
    IN  [parent |-> last, edge |-> IF last = 0 THEN 0 ELSE Hamming(hash, nodes[last].hash)]

Node(nodes, s) == LET p == Place(nodes, s.hash)
                  IN  [id |-> s.id, hash |-> s.hash, parent |-> p.parent, edge |-> p.edge]

Indexed(ix, s) == [ix EXCEPT ![Day(s)] = Append(@, Node(@, s))]

(* range_search: the triangle inequality prunes a child.                   *)
ExploredBelow(d, radius, edge) == d <= edge + radius /\ edge < d + radius
Explored(d, radius, edge) == d <= edge + radius /\ edge <= d + radius

RangeSearch(nodes, hash, radius) ==
    LET Pushed(n, seen) ==
            nodes[n].parent = 0
            \/ /\ nodes[n].parent \in seen
               /\ Explored(Hamming(hash, nodes[nodes[n].parent].hash), radius, nodes[n].edge)
        visited[n \in 0 .. Len(nodes)] ==
            IF n = 0 THEN {}
            ELSE IF Pushed(n, visited[n - 1]) THEN visited[n - 1] \cup {n} ELSE visited[n - 1]
    IN  {n \in visited[Len(nodes)] : Hamming(hash, nodes[n].hash) <= radius}

(* PHashIndex.search: the buckets that the range touches.                  *)
Found(q) ==
    UNION {{index[d][n] : n \in RangeSearch(index[d], q.hash, q.radius)} :
              d \in {e \in Days : q.from \div DayLength <= e /\ e <= q.to \div DayLength}}

-----------------------------------------------------------------------------
(* ingest_record from insert_screenshot on: idempotent on the image ...    *)
(* (What happens once the request is answered is left out.)                *)
StoreShot(h, s) ==
    /\ search.pc # "answered" /\ upload[h] = NoUpload
    /\ upload' = [upload EXCEPT ![h] = [pc |-> "stored", shot |-> s, new |-> s \notin screenshots]]
    /\ screenshots' = screenshots \cup {s}
    /\ UNCHANGED <<index, search, rebuilds>>

(* ... and the index follows, for a new one.                               *)
IndexShot(h) ==
    /\ upload[h].pc = "stored" /\ upload' = [upload EXCEPT ![h] = NoUpload]
    /\ index' = IF upload[h].new THEN Indexed(index, upload[h].shot) ELSE index
    /\ UNCHANGED <<screenshots, search, rebuilds>>

(* from_db: everything stored, by ts_start and id.                         *)
Earlier(s, t) == s.ts < t.ts \/ (s.ts = t.ts /\ s.id < t.id)
ByTime(S) == CHOOSE seq \in SetToSeqs(S) : \A i, j \in DOMAIN seq : i < j => Earlier(seq[i], seq[j])

Rebuilt ==
    LET seq == ByTime(screenshots)
        built[n \in 0 .. Len(seq)] == IF n = 0 THEN EmptyIndex ELSE Indexed(built[n - 1], seq[n])
    IN  built[Len(seq)]

RestartServer ==
    /\ search.pc # "answered" /\ rebuilds < MaxRebuilds /\ rebuilds' = rebuilds + 1
    /\ index' = Rebuilt /\ upload' = [h \in Handlers |-> NoUpload] /\ search' = NoSearch
    /\ UNCHANGED screenshots

-----------------------------------------------------------------------------
Top(seq, n) == SubSeq(seq, 1, IF Len(seq) < n THEN Len(seq) ELSE n)
Identified(hits) == LET best == Top(hits, Fetch) IN [i \in DOMAIN best |-> best[i].id]
BestFirst(score) ==
    {seq \in SetToSeqs(DOMAIN score) :
        \A i, j \in DOMAIN seq : i < j => score[seq[i]] >= score[seq[j]]}

(* The visual channel: nearest first, equal distances in any order; empty  *)
(* when the request does without it.                                       *)
Visual(q) ==
    /\ search = NoSearch
    /\ \E found \in {{}, Found(q)} : \E hits \in BestFirst([s \in found |-> -Hamming(q.hash, s.hash)]) :
          search' = [pc |-> "visual", q |-> q, visual |-> Identified(hits)]
    /\ UNCHANGED <<screenshots, index, upload, rebuilds>>

(* The second channel.  Semantic: what the model finds near, in its order, *)
(* among the stored ones of the period; keyword: the matches newest first. *)
InPeriod(q) == {s \in screenshots : q.from <= s.ts /\ s.ts <= q.to}

Second(hits) ==
    /\ search.pc = "visual"
    /\ search' = [pc |-> "semantic", q |-> search.q, visual |-> search.visual,
                  semantic |-> Identified(hits)]
    /\ UNCHANGED <<screenshots, index, upload, rebuilds>>

Semantic == \E near \in SUBSET InPeriod(search.q) : \E hits \in SetToSeqs(near) : Second(hits)

Keyword ==
    \E matches \in SUBSET InPeriod(search.q) :
        \E hits \in BestFirst([s \in matches |-> s.ts]) : Second(hits)

(* The loops that keep what is in S, in its order.                         *)
Keeping(seq, S) ==
    LET kept[n \in 0 .. Len(seq)] ==
            IF n = 0 THEN <<>>
            ELSE IF seq[n] \in S THEN Append(kept[n - 1], seq[n]) ELSE kept[n - 1]
    IN  kept[Len(seq)]

(* _screenshots_on_device, before fusion                                   *)
OfDevice == {s.id : s \in {t \in screenshots : search.q.dev \in {AllDevices, t.dev}}}
OfApp == {s.id : s \in {t \in screenshots : search.q.app \in {AllApps, t.app}}}
OnDevice(channel) == Keeping(channel, OfDevice)

(* Reciprocal rank fusion of two channels; the score is scaled to a whole  *)
(* number that still tells any two ranks apart.  The search by image       *)
(* counts ranks from 1 (k = 60), the one by text from 0 (k = 59).          *)
Reciprocal(k, rank) == (60 * 61 * 62 * 63 * 64) \div (k + rank)
Share(k, i, channel) == IF i \in ToSet(channel)
                        THEN Reciprocal(k, CHOOSE r \in DOMAIN channel : channel[r] = i)
                        ELSE 0
Hits(channels) == ToSet(channels[1]) \cup ToSet(channels[2])
Scores(k, channels) ==
    [i \in Hits(channels) |-> Share(k, i, channels[1]) + Share(k, i, channels[2])]

(* _rrf_merge and _enrich_and_filter; equal scores in any order.           *)
AnswerTruncatedFirst(fused) == Keeping(Top(fused, MaxAnswers), OfApp)

AnswerOf(fused) == Top(Keeping(Top(fused, MaxFused), OfApp), MaxAnswers)

Fuse ==
    LET channels == <<OnDevice(search.visual), OnDevice(search.semantic)>>
    IN  /\ search.pc = "semantic"
        /\ \E fused \in BestFirst(Scores(60, channels)) :
              search' = [pc |-> "answered", q |-> search.q, channels |-> channels,
                         items |-> AnswerOf(fused)]
        /\ UNCHANGED <<screenshots, index, upload, rebuilds>>

-----------------------------------------------------------------------------
(* Text search (retrieve_records, for the browser, the agent and MCP); a   *)
(* screenshot stands for its record here.  The scope is applied inside     *)
(* each channel; without an embedder, or when it fails, the second one is  *)
(* empty.                                                                  *)
Scoped(q) == {s \in InPeriod(q) : /\ q.dev \in {AllDevices, s.dev}
                                  /\ q.app \in {AllApps, s.app}}

TextKeyword(q) ==
    /\ search = NoSearch
    /\ \E matches \in SUBSET Scoped(q) : \E hits \in SetToSeqs(matches) :
          search' = [pc |-> "keyword", q |-> q, keyword |-> Identified(hits)]
    /\ UNCHANGED <<screenshots, index, upload, rebuilds>>

TextSemantic ==
    /\ search.pc = "keyword"
    /\ \E near \in SUBSET Scoped(search.q) : \E hits \in SetToSeqs(near) :
          LET channels == <<search.keyword, Identified(hits)>>
          IN  \E fused \in BestFirst(Scores(59, channels)) :
                 search' = [pc |-> "answered", q |-> search.q, channels |-> channels,
                            items |-> Top(Top(fused, MaxFused), MaxAnswers)]
    /\ UNCHANGED <<screenshots, index, upload, rebuilds>>

ImageNext ==
    \/ \E h \in Handlers : (\E s \in Shots : StoreShot(h, s)) \/ IndexShot(h)
    \/ RestartServer
    \/ \E q \in Queries : Visual(q) \/ TextKeyword(q)
    \/ search.pc = "visual" /\ (Semantic \/ Keyword)
    \/ Fuse
    \/ TextSemantic

ImageSpec == ImageInit /\ [][ImageNext]_imageVars

-----------------------------------------------------------------------------
ImageTypeOK ==
    /\ screenshots \subseteq Shots /\ DOMAIN index = Days /\ rebuilds \in 0 .. MaxRebuilds
    /\ \A h \in Handlers : upload[h] # NoUpload => upload[h].shot \in Shots

(* The index answers every query with exactly the stored screenshots       *)
(* within the radius in the days asked for, each once, but for those whose *)
(* handler has not come to it: whatever the order of insertion, replays    *)
(* and restarts.                                                           *)
InFlight == {s \in screenshots : \E h \in Handlers : upload[h].pc = "stored" /\ upload[h].new
                                                  /\ upload[h].shot = s}

Answers(d, hash, radius) ==
    LET nodes == index[d]
        got == RangeSearch(nodes, hash, radius)
    IN  /\ \A m, n \in got : nodes[m].id = nodes[n].id => m = n
        /\ {nodes[n].id : n \in got} =
               {s.id : s \in {t \in screenshots \ InFlight : Day(t) = d /\ Hamming(hash, t.hash) <= radius}}

IndexExact ==
    \A d \in Days, hash \in SUBSET Bits, radius \in 0 .. Cardinality(Bits) : Answers(d, hash, radius)

(* An answer holds nothing outside the device and the applications asked   *)
(* for, never puts a screenshot before one that every channel ranks at     *)
(* least as high, and leaves a hit of its channels out only when it is     *)
(* full or there were more hits than are looked at; even then not one that *)
(* every channel ranks before what is in it.                               *)
RankIn(channel, i) == IF i \in ToSet(channel) THEN CHOOSE r \in DOMAIN channel : channel[r] = i
                      ELSE Fetch + 1
Dominates(channels, i, j) ==
    i # j /\ \A c \in {1, 2} : RankIn(channels[c], i) <= RankIn(channels[c], j)

Best(items, hits, channels) ==
    /\ ToSet(items) \subseteq hits
    /\ \A a, b \in DOMAIN items : Dominates(channels, items[a], items[b]) => a < b
    /\ \A i \in hits \ ToSet(items) :
          /\ Len(items) = MaxAnswers \/ Cardinality(Hits(channels)) > MaxFused
          /\ \A a \in DOMAIN items : ~Dominates(channels, i, items[a])

InScope == {s.id : s \in {t \in screenshots : /\ search.q.dev \in {AllDevices, t.dev}
                                              /\ search.q.app \in {AllApps, t.app}}}

AnswerSound ==
    search.pc = "answered" =>
        Best(search.items, Hits(search.channels) \cap InScope, search.channels)

(* What is found, and what is answered from it.                            *)
SearchSound == IndexExact /\ AnswerSound

-----------------------------------------------------------------------------
(* The route says that "half-open time windows are honoured"; a visual hit *)
(* is only known to be of a day that the window touches.                   *)
HitsInWindow ==
    search.pc = "visual" =>
        \A i \in ToSet(search.visual) : \E s \in screenshots :
            s.id = i /\ search.q.from <= s.ts /\ s.ts <= search.q.to
=============================================================================
