------------------------- MODULE CaptureServiceProofs -------------------------
(***************************************************************************)
(* The records of a capture loop do not overlap, none is left open behind  *)
(* its back, they cover what was observed and nothing else, for any        *)
(* windows, thresholds and timings and any number of failing calls.        *)
(***************************************************************************)
EXTENDS CaptureService, SequenceTheorems, TLAPS

TypeInv ==
    /\ now \in Int /\ tick \in Int /\ tick <= now
    /\ lastTick \in Int \cup {Null}
    /\ front \in Windows \cup {NoWindow} /\ win \in Windows \cup {Null}
    /\ stage \in Stages
    /\ records \in Seq([win : Windows \cup {Null}, start : Int, end : Int \cup {Null}])
    /\ last \in 1 .. Newest \cup {Null}
    /\ unclosed \subseteq 1 .. Newest
    /\ stage \in Closing \cup {"shutdown"} => last # Null
    /\ stage = "beatImage" => Newest > 0

(* The tick of the loop is observed from Observe on.                       *)
Seen == {"idleClose", "switchClose", "switchSubmit", "beatClose", "beatSubmit", "beatImage"}
Observed ==
    /\ lastTick # Null => lastTick <= tick
    /\ stage \in Seen => lastTick = tick
    /\ Newest > 0 => lastTick # Null

(* Nothing of a record is later than the last observation, and the only    *)
(* record that may follow the last one began with that observation.        *)
InOrder ==
    /\ \A i \in 1 .. Newest :
          /\ records[i].start <= lastTick
          /\ records[i].end # Null =>
                records[i].start <= records[i].end /\ records[i].end <= lastTick
    /\ \A i, j \in 1 .. Newest :
          i < j /\ records[i].end # Null => records[i].end <= records[j].start
    /\ last # Null => \A j \in 1 .. Newest : last < j => records[j].start = lastTick
    /\ last # Null /\ last # Newest => stage \in {"beatImage", "shutdown", "stopped"}

(* Which records are still open at each stage.                             *)
Open == {i \in 1 .. Newest : records[i].end = Null /\ i \notin unclosed}
Accounted ==
    /\ stage \in {"switchSubmit", "beatSubmit", "gapReset"} => Open = {}
    /\ stage = "beatImage" => Open \subseteq {Newest}
    /\ stage \in Closing \cup {"asleep", "observe"} => Open \subseteq {last}

CaptureInv == TypeInv /\ Observed /\ InOrder /\ Accounted

-----------------------------------------------------------------------------
LEMMA NullIsNoTime == Null \notin Int /\ Null \notin Windows /\ NoWindow \notin Windows
BY CaptureAssumption DEF CaptureAssumption

LEMMA InitInv == Init => CaptureInv
<1> SUFFICES ASSUME Init PROVE CaptureInv
  OBVIOUS
<1> USE NullIsNoTime DEF Init
<1>1. /\ records \in Seq([win : Windows \cup {Null}, start : Int, end : Int \cup {Null}])
      /\ Newest = 0
  BY EmptySeq DEF Newest
<1>2. TypeInv
  BY <1>1 DEF TypeInv, Stages, Awaits, Closing
<1>3. Observed /\ InOrder /\ Accounted
  BY <1>1 DEF Observed, InOrder, Accounted, Open, Seen, Closing
<1> QED
  BY <1>2, <1>3 DEF CaptureInv

(* A record is closed at the last observation.                             *)
LEMMA ClosedKeeps ==
    ASSUME CaptureInv, stage \in Closing \cup {"shutdown"}, Closed
    PROVE  /\ records' \in Seq([win : Windows \cup {Null}, start : Int, end : Int \cup {Null}])
           /\ Len(records') = Newest /\ Newest \in Nat
           /\ last \in 1 .. Newest /\ records'[last].end = lastTick /\ lastTick \in Int
           /\ records'[last].start = records[last].start
           /\ \A i \in 1 .. Newest : i # last => records'[i] = records[i]
<1> USE NullIsNoTime DEF CaptureInv
<1>1. last \in 1 .. Newest /\ Newest \in Nat
  BY LenProperties DEF TypeInv, Newest
<1>2. lastTick \in Int /\ CloseTime = lastTick
  BY <1>1 DEF TypeInv, Observed, CloseTime, Closing, Seen
<1>3. records' = [records EXCEPT ![last].end = lastTick]
  BY <1>2 DEF Closed
<1>4. /\ records' \in Seq([win : Windows \cup {Null}, start : Int, end : Int \cup {Null}])
      /\ Len(records') = Newest
  <2> DEFINE R == [win : Windows \cup {Null}, start : Int, end : Int \cup {Null}]
             r == [records[last] EXCEPT !.end = lastTick]
  <2>1. records \in Seq(R) /\ records[last] \in R
    BY <1>1, ElementOfSeq DEF TypeInv, Newest
  <2>2. r \in R
    BY <1>2, <2>1
  <2>3. records' = [records EXCEPT ![last] = r]
    BY <1>3
  <2>4. records' \in Seq(R) /\ Len(records') = Newest
    <3> HIDE DEF R, r
    <3> QED
      BY <1>1, <2>1, <2>2, <2>3, ExceptSeq DEF Newest
  <2> QED
    BY <2>4
<1>5. \A i \in 1 .. Newest : records[i] \in [win : Windows \cup {Null}, start : Int, end : Int \cup {Null}]
  BY ElementOfSeq DEF TypeInv, Newest
<1> QED
  BY <1>1, <1>2, <1>3, <1>4, <1>5, LenProperties DEF Newest, TypeInv

(* A new record begins at the last observation.                            *)
LEMMA SubmittedKeeps ==
    ASSUME CaptureInv, stage \in {"switchSubmit", "beatSubmit"}, Submitted
    PROVE  /\ records' \in Seq([win : Windows \cup {Null}, start : Int, end : Int \cup {Null}])
           /\ Len(records') = Newest + 1 /\ Newest \in Nat
           /\ records'[Newest + 1].start = lastTick /\ lastTick \in Int
           /\ records'[Newest + 1].end = Null
           /\ \A i \in 1 .. Newest : records'[i] = records[i]
<1> USE NullIsNoTime DEF CaptureInv
<1>1. lastTick = tick /\ tick \in Int
  BY DEF TypeInv, Observed, Seen
<1>2. Record(win, tick) \in [win : Windows \cup {Null}, start : Int, end : Int \cup {Null}]
  BY <1>1 DEF TypeInv, Record
<1>3. records' = Append(records, Record(win, tick))
  BY DEF Submitted
<1> QED
  BY <1>1, <1>2, <1>3, AppendProperties, LenProperties DEF TypeInv, Newest, Record

-----------------------------------------------------------------------------
LEMMA RecordTypes ==
    ASSUME CaptureInv
    PROVE  \A i \in 1 .. Newest : records[i].start \in Int /\ records[i].end \in Int \cup {Null}
<1> SUFFICES ASSUME NEW i \in 1 .. Newest
             PROVE  records[i].start \in Int /\ records[i].end \in Int \cup {Null}
  OBVIOUS
<1>1. records[i] \in [win : Windows \cup {Null}, start : Int, end : Int \cup {Null}]
  BY ElementOfSeq DEF CaptureInv, TypeInv, Newest
<1> QED
  BY <1>1

(* What leaves the records alone keeps what holds of them.                 *)
LEMMA RecordsAlone ==
    ASSUME CaptureInv, UNCHANGED <<records, unclosed, tick, lastTick, last, stage>>
    PROVE  Observed' /\ InOrder' /\ Accounted'
BY DEF CaptureInv, Observed, InOrder, Accounted, Open, Newest

LEMMA WorldKeeps == CaptureInv /\ (Pass \/ Type \/ Look) => CaptureInv'
<1> SUFFICES ASSUME CaptureInv, Pass \/ Type \/ Look PROVE CaptureInv'
  OBVIOUS
<1> USE DEF World, loop, history
<1>1. UNCHANGED <<records, unclosed, tick, lastTick, last, stage, win>>
  BY DEF Pass, Type, Look
<1>2. now' \in Int /\ now <= now' /\ front' \in Windows \cup {NoWindow}
  BY DEF CaptureInv, TypeInv, Pass, Type, Look
<1>3. TypeInv'
  BY <1>1, <1>2 DEF CaptureInv, TypeInv, Newest
<1> QED
  BY <1>1, <1>3, RecordsAlone DEF CaptureInv

LEMMA ShotKeeps == CaptureInv /\ (TakeShot \/ SkipShot) => CaptureInv'
<1> SUFFICES ASSUME CaptureInv, TakeShot \/ SkipShot PROVE CaptureInv'
  OBVIOUS
<1>1. UNCHANGED <<records, unclosed, tick, lastTick, last, stage, win, now, front>>
  BY DEF TakeShot, SkipShot, user, loop, history
<1>2. TypeInv'
  BY <1>1 DEF CaptureInv, TypeInv, Newest
<1> QED
  BY <1>1, <1>2, RecordsAlone DEF CaptureInv

LEMMA TickKeeps == CaptureInv /\ (StartTick \/ GapReset) => CaptureInv'
<1> SUFFICES ASSUME CaptureInv, StartTick \/ GapReset PROVE CaptureInv'
  OBVIOUS
<1> USE NullIsNoTime DEF CaptureInv, user, history
<1>1. CASE StartTick
  <2>1. TypeInv'
    BY <1>1 DEF StartTick, TypeInv, Newest, Stages, Awaits, Closing
  <2>2. Observed'
    BY <1>1 DEF StartTick, TypeInv, Observed, Newest, Seen
  <2>3. InOrder'
    BY <1>1 DEF StartTick, InOrder, Newest
  <2>4. Accounted'
    BY <1>1, Z3 DEF StartTick, TypeInv, Accounted, Open, Newest, Closing
  <2> QED
    BY <2>1, <2>2, <2>3, <2>4
<1>2. CASE GapReset
  <2>1. TypeInv'
    BY <1>2 DEF GapReset, TypeInv, Newest, Stages, Awaits, Closing
  <2>2. Observed'
    BY <1>2 DEF GapReset, Observed, Newest, Seen
  <2>3. InOrder'
    BY <1>2 DEF GapReset, InOrder, Newest
  <2>4. Accounted'
    BY <1>2 DEF GapReset, Accounted, Open, Newest, Closing
  <2> QED
    BY <2>1, <2>2, <2>3, <2>4
<1> QED
  BY <1>1, <1>2

LEMMA ObserveKeeps == CaptureInv /\ Observe => CaptureInv'
<1> SUFFICES ASSUME CaptureInv, Observe PROVE CaptureInv'
  OBVIOUS
<1> USE NullIsNoTime DEF CaptureInv, user, history
<1>1. /\ UNCHANGED <<records, unclosed, last, now, front, tick>> /\ stage = "observe"
      /\ lastTick' = tick
      /\ win' \in Windows \cup {Null}
      /\ stage' \in {"asleep", "idleClose", "switchClose", "switchSubmit", "beatClose", "beatSubmit"}
      /\ last = Null => stage' \in {"asleep", "switchSubmit", "beatSubmit"}
      /\ last # Null => stage' \in {"asleep", "idleClose", "switchClose", "beatClose"}
  BY DEF Observe, TypeInv, View
<1>2. TypeInv'
  BY <1>1 DEF TypeInv, Newest, Stages, Awaits, Closing
<1>3. Observed'
  BY <1>1 DEF TypeInv, Observed, Newest, Seen
<1>4. \A i \in 1 .. Newest : records[i].start \in Int /\ records[i].end \in Int \cup {Null}
  BY RecordTypes
<1>5. InOrder'
  <2>1. \A i \in 1 .. Newest : lastTick \in Int /\ lastTick <= tick /\ tick \in Int
    BY LenProperties DEF Observed, TypeInv, Newest
  <2> QED
    BY <1>1, <1>4, <2>1 DEF InOrder, Newest
<1>6. Accounted'
  BY <1>1 DEF Accounted, TypeInv, Open, Newest, Closing
<1> QED
  BY <1>2, <1>3, <1>5, <1>6

(* Closing the last record: its close may fail, and then it is unclosed.   *)
LEMMA CloseKeepsOrder ==
    ASSUME CaptureInv, stage \in Closing \cup {"shutdown"}, Closed,
           UNCHANGED <<tick, lastTick>>, last' \in {last, Null},
           last # Newest => stage' \in {"shutdown", "stopped"}
    PROVE  InOrder' /\ Newest' = Newest
<1> USE NullIsNoTime DEF CaptureInv
<1>1. /\ Len(records') = Newest /\ Newest \in Nat
      /\ last \in 1 .. Newest /\ records'[last].end = lastTick /\ lastTick \in Int
      /\ records'[last].start = records[last].start
      /\ \A i \in 1 .. Newest : i # last => records'[i] = records[i]
  BY ClosedKeeps
<1>2. Newest' = Newest
  BY <1>1 DEF Newest
<1>3. \A i \in 1 .. Newest : records[i].start \in Int /\ records[i].end \in Int \cup {Null}
  BY RecordTypes
<1>4. \A i \in 1 .. Newest : records'[i].start = records[i].start
  BY <1>1
<1>5. ASSUME NEW i \in 1 .. Newest
      PROVE  /\ records'[i].start <= lastTick
             /\ records'[i].end # Null =>
                   records'[i].start <= records'[i].end /\ records'[i].end <= lastTick
  BY <1>1, <1>3, <1>4 DEF InOrder
<1>6. ASSUME NEW i \in 1 .. Newest, NEW j \in 1 .. Newest, i < j, records'[i].end # Null
      PROVE  records'[i].end <= records'[j].start
  <2>1. CASE i = last
    BY <1>1, <1>3, <1>4, <1>6, <2>1 DEF InOrder
  <2>2. CASE i # last
    BY <1>1, <1>3, <1>4, <1>6, <2>2 DEF InOrder
  <2> QED
    BY <2>1, <2>2
<1>7. /\ last' # Null => \A j \in 1 .. Newest : last' < j => records'[j].start = lastTick
      /\ last' # Null /\ last' # Newest => stage' \in {"beatImage", "shutdown", "stopped"}
  BY <1>1, <1>4 DEF InOrder
<1> QED
  BY <1>2, <1>5, <1>6, <1>7 DEF InOrder

LEMMA CloseLastKeeps == CaptureInv /\ CloseLast => CaptureInv'
<1> SUFFICES ASSUME CaptureInv, CloseLast PROVE CaptureInv'
  OBVIOUS
<1> USE NullIsNoTime DEF CaptureInv, user, loop
<1>1. /\ UNCHANGED <<now, front, tick, win, lastTick>>
      /\ stage \in Closing
      /\ stage' \in {"gapReset", "asleep", "switchSubmit", "beatSubmit"}
      /\ stage' = "asleep" <=> stage = "idleClose"
      /\ stage = "gapClose" <=> stage' = "gapReset"
      /\ last' = IF stage = "idleClose" THEN Null ELSE last
  BY DEF CloseLast, Closing
<1>2. last = Newest /\ last \in 1 .. Newest /\ Newest \in Nat
  BY <1>1, LenProperties DEF InOrder, TypeInv, Closing, Newest
<1>3. CASE Closed /\ UNCHANGED unclosed
  <2>1. InOrder' /\ Newest' = Newest
    BY <1>1, <1>2, <1>3, CloseKeepsOrder
  <2>2. /\ records' \in Seq([win : Windows \cup {Null}, start : Int, end : Int \cup {Null}])
        /\ records'[last].end # Null
        /\ \A i \in 1 .. Newest : i # last => records'[i] = records[i]
    BY <1>1, <1>3, ClosedKeeps
  <2>3. TypeInv'
    BY <1>1, <1>2, <1>3, <2>1, <2>2 DEF TypeInv, Stages, Awaits, Closing
  <2>4. Observed'
    BY <1>1, <2>1 DEF Observed, Seen, Closing
  <2>5. Accounted'
    BY <1>1, <1>2, <1>3, <2>1, <2>2 DEF Accounted, Open, Closing
  <2> QED
    BY <2>1, <2>3, <2>4, <2>5
<1>4. CASE unclosed' = unclosed \cup {last} /\ UNCHANGED records
  <2>1. TypeInv'
    BY <1>1, <1>2, <1>4 DEF TypeInv, Newest, Stages, Awaits, Closing
  <2>2. Observed'
    BY <1>1, <1>4 DEF Observed, Newest, Seen, Closing
  <2>3. InOrder'
    BY <1>1, <1>2, <1>4 DEF InOrder, Newest
  <2>4. Accounted'
    BY <1>1, <1>2, <1>4 DEF Accounted, Open, Newest, Closing
  <2> QED
    BY <2>1, <2>2, <2>3, <2>4
<1> QED
  BY <1>3, <1>4 DEF CloseLast, SafeClose

(* A submitted record is the newest, and the one to close next if the loop *)
(* gets that far.                                                          *)
LEMMA SubmitKeepsOrder ==
    ASSUME CaptureInv, stage \in {"switchSubmit", "beatSubmit"}, Submitted,
           UNCHANGED <<tick, lastTick>>,
           last' = Newest + 1 \/ (last' = last /\ stage' \in {"beatImage", "shutdown", "stopped"})
    PROVE  InOrder' /\ Newest' = Newest + 1
<1> USE NullIsNoTime DEF CaptureInv
<1>1. /\ Len(records') = Newest + 1 /\ Newest \in Nat
      /\ records'[Newest + 1].start = lastTick /\ lastTick \in Int
      /\ records'[Newest + 1].end = Null
      /\ \A i \in 1 .. Newest : records'[i] = records[i]
  BY SubmittedKeeps
<1>2. Newest' = Newest + 1
  BY <1>1 DEF Newest
<1>3. \A i \in 1 .. Newest : records[i].start \in Int /\ records[i].end \in Int \cup {Null}
  BY RecordTypes
<1>4. last = Null \/ last = Newest
  BY DEF InOrder
<1>5. \A i \in 1 .. Newest + 1 : i \in 1 .. Newest \/ i = Newest + 1
  BY <1>1
<1>6. ASSUME NEW i \in 1 .. Newest + 1
      PROVE  /\ records'[i].start <= lastTick
             /\ records'[i].end # Null =>
                   records'[i].start <= records'[i].end /\ records'[i].end <= lastTick
  BY <1>1, <1>3, <1>5 DEF InOrder
<1>7. ASSUME NEW i \in 1 .. Newest + 1, NEW j \in 1 .. Newest + 1, i < j, records'[i].end # Null
      PROVE  records'[i].end <= records'[j].start
  <2>1. i \in 1 .. Newest
    BY <1>1, <1>7
  <2>2. CASE j = Newest + 1
    BY <1>1, <1>3, <1>7, <2>1, <2>2 DEF InOrder
  <2>3. CASE j \in 1 .. Newest
    BY <1>1, <1>7, <2>1, <2>3 DEF InOrder
  <2> QED
    BY <1>5, <2>2, <2>3
<1>8. /\ last' # Null => \A j \in 1 .. Newest + 1 : last' < j => records'[j].start = lastTick
      /\ last' # Null /\ last' # Newest + 1 => stage' \in {"beatImage", "shutdown", "stopped"}
  BY <1>1, <1>4, <1>5
<1> QED
  BY <1>2, <1>6, <1>7, <1>8 DEF InOrder

LEMMA SubmitKeeps == CaptureInv /\ (SwitchSubmit \/ BeatSubmit) => CaptureInv'
<1> SUFFICES ASSUME CaptureInv, SwitchSubmit \/ BeatSubmit PROVE CaptureInv'
  OBVIOUS
<1> USE NullIsNoTime DEF CaptureInv, user
<1>1. /\ UNCHANGED <<now, front, tick, lastTick, unclosed>> /\ Submitted /\ win' = Null
      /\ stage \in {"switchSubmit", "beatSubmit"} /\ lastTick = tick
      /\ \/ stage' = "asleep" /\ last' = Newest + 1
         \/ stage' = "beatImage" /\ last' = last
  BY DEF SwitchSubmit, BeatSubmit, Observed, Seen
<1>2. InOrder' /\ Newest' = Newest + 1
  BY <1>1, SubmitKeepsOrder
<1>3. /\ records' \in Seq([win : Windows \cup {Null}, start : Int, end : Int \cup {Null}])
      /\ Newest \in Nat /\ lastTick \in Int
      /\ \A i \in 1 .. Newest : records'[i] = records[i]
  BY <1>1, SubmittedKeeps
<1>4. TypeInv'
  BY <1>1, <1>2, <1>3 DEF TypeInv, Stages, Awaits, Closing
<1>5. Observed'
  BY <1>1, <1>3 DEF Observed, Seen
<1>6. Accounted'
  <2>1. Open = {}
    BY <1>1 DEF Accounted
  <2>2. \A i \in 1 .. Newest + 1 : i \in 1 .. Newest \/ i = Newest + 1
    BY <1>3
  <2>3. Open' \subseteq {Newest + 1}
    BY <1>1, <1>2, <1>3, <2>1, <2>2 DEF Open
  <2> QED
    BY <1>1, <1>2, <2>3 DEF Accounted, Closing
<1> QED
  BY <1>2, <1>4, <1>5, <1>6

LEMMA BeatImageKeeps == CaptureInv /\ BeatImage => CaptureInv'
<1> SUFFICES ASSUME CaptureInv, BeatImage PROVE CaptureInv'
  OBVIOUS
<1> USE NullIsNoTime DEF CaptureInv, user, loop, history, BeatImage
<1>1. Newest \in Nat /\ Newest > 0
  BY LenProperties DEF TypeInv, Newest
<1>2. TypeInv'
  BY <1>1 DEF TypeInv, Newest, Stages, Awaits, Closing
<1>3. Observed'
  BY DEF Observed, Newest, Seen
<1>4. InOrder'
  BY <1>1 DEF InOrder, Newest
<1>5. Accounted'
  BY DEF Accounted, Open, Newest, Closing
<1> QED
  BY <1>2, <1>3, <1>4, <1>5

LEMMA EndKeeps == CaptureInv /\ (SubmitFails \/ Stop \/ Shutdown) => CaptureInv'
<1> SUFFICES ASSUME CaptureInv, SubmitFails \/ Stop \/ Shutdown PROVE CaptureInv'
  OBVIOUS
<1> USE NullIsNoTime DEF CaptureInv, user, loop
<1>1. /\ UNCHANGED <<now, front, tick, win, lastTick, last>>
      /\ stage' \in {"shutdown", "stopped"} /\ (stage' = "shutdown" => last # Null)
  BY DEF SubmitFails, Stop, Shutdown, Ended
<1>2. Accounted'
  BY <1>1 DEF Accounted, Closing
<1>3. CASE UNCHANGED records /\ unclosed' \subseteq 1 .. Newest
  <2>1. TypeInv'
    BY <1>1, <1>3 DEF TypeInv, Newest, Stages, Closing
  <2>2. Observed'
    BY <1>1, <1>3 DEF Observed, Newest, Seen
  <2>3. InOrder'
    BY <1>1, <1>3 DEF InOrder, Newest
  <2> QED
    BY <1>2, <2>1, <2>2, <2>3
<1>4. CASE stage \in Closing \cup {"shutdown"} /\ Closed /\ UNCHANGED unclosed
  <2>1. InOrder' /\ Newest' = Newest
    BY <1>1, <1>4, CloseKeepsOrder
  <2>2. /\ records' \in Seq([win : Windows \cup {Null}, start : Int, end : Int \cup {Null}])
        /\ last \in 1 .. Newest
    BY <1>4, ClosedKeeps
  <2>3. TypeInv'
    BY <1>1, <1>4, <2>1, <2>2 DEF TypeInv, Stages, Closing
  <2>4. Observed'
    BY <1>1, <2>1 DEF Observed, Seen
  <2> QED
    BY <1>2, <2>1, <2>3, <2>4
<1>5. CASE stage \in {"switchSubmit", "beatSubmit"} /\ Submitted /\ UNCHANGED unclosed
  <2>1. InOrder' /\ Newest' = Newest + 1
    BY <1>1, <1>5, SubmitKeepsOrder
  <2>2. /\ records' \in Seq([win : Windows \cup {Null}, start : Int, end : Int \cup {Null}])
        /\ Newest \in Nat /\ lastTick \in Int
    BY <1>5, SubmittedKeeps
  <2>3. TypeInv'
    BY <1>1, <1>5, <2>1, <2>2 DEF TypeInv, Stages, Closing
  <2>4. Observed'
    BY <1>1, <2>2 DEF Observed, Seen
  <2> QED
    BY <1>2, <2>1, <2>3, <2>4
<1>6. CASE SubmitFails
  BY <1>3, <1>6 DEF SubmitFails, TypeInv
<1>7. CASE Stop
  BY <1>3, <1>4, <1>5, <1>7 DEF Stop, TypeInv
<1>8. CASE Shutdown
  BY <1>3, <1>4, <1>8 DEF Shutdown, SafeClose, TypeInv
<1> QED
  BY <1>6, <1>7, <1>8

LEMMA StutterKeeps == CaptureInv /\ UNCHANGED vars => CaptureInv'
<1> SUFFICES ASSUME CaptureInv, UNCHANGED vars PROVE CaptureInv'
  OBVIOUS
<1> USE DEF vars, user, loop, history
<1>1. TypeInv'
  BY DEF CaptureInv, TypeInv, Newest
<1> QED
  BY <1>1, RecordsAlone DEF CaptureInv

LEMMA StepInv == CaptureInv /\ [Next]_vars => CaptureInv'
BY WorldKeeps, TickKeeps, ObserveKeeps, CloseLastKeeps, SubmitKeeps, BeatImageKeeps,
   ShotKeeps, EndKeeps, StutterKeeps
   DEF Next

LEMMA InvariantHolds == Spec => []CaptureInv
BY InitInv, StepInv, PTL DEF Spec

-----------------------------------------------------------------------------
(* The records of a client never overlap: what ends a record is at or      *)
(* after its own start and at or before the start of every later one.      *)
THEOREM RecordsFollowOneAnother == Spec => []OneAtATime
<1>1. CaptureInv => OneAtATime
  <2> SUFFICES ASSUME CaptureInv PROVE OneAtATime
    OBVIOUS
  <2>1. DOMAIN records = 1 .. Newest
    BY LenProperties DEF CaptureInv, TypeInv, Newest
  <2> QED
    BY <2>1 DEF CaptureInv, InOrder, OneAtATime
<1> QED
  BY <1>1, InvariantHolds, PTL

(* While the loop sleeps, the only record open is the one it will close    *)
(* next, whatever was closed, submitted or cancelled on the way, except    *)
(* those whose close failed.                                               *)
THEOREM NoneIsForgotten == Spec => []OnlyLastOpen
<1>1. CaptureInv => OnlyLastOpen
  <2> SUFFICES ASSUME CaptureInv PROVE OnlyLastOpen
    OBVIOUS
  <2>1. DOMAIN records = 1 .. Newest
    BY LenProperties DEF CaptureInv, TypeInv, Newest
  <2> QED
    BY <2>1 DEF CaptureInv, Accounted, Open, OnlyLastOpen
<1> QED
  BY <1>1, InvariantHolds, PTL
-----------------------------------------------------------------------------
(* What the loop has looked at, of all the ticks so far.                   *)
Seeing ==
    /\ now \in Times /\ isIdle \in BOOLEAN
    /\ obs = [t \in Times |-> obs[t]]
    /\ \A t \in Times : obs[t] # Null => lastTick # Null /\ t <= lastTick
    /\ lastTick # Null => lastTick \in Times /\ obs[lastTick] # Null
    /\ isIdle <=> lastTick # Null /\ obs[lastTick] = "idle"
    /\ stage \in {"observe", "gapClose", "gapReset"} =>
          tick \in Times /\ (lastTick # Null => lastTick < tick)
    /\ stage = "observe" /\ last # Null => tick - lastTick <= MaxGap

(* From one time to another the loop looked without a break, and never     *)
(* found the user idle before the end.                                     *)
Watched(seen, from, to) ==
    /\ \A t, u \in Times :
          from <= t /\ u <= to /\ u - t > MaxGap /\ seen[t] # Null /\ seen[u] # Null
          => \E v \in t + 1 .. u - 1 : seen[v] # Null
    /\ \A t \in Times : from <= t /\ t < to => seen[t] # "idle"

Held ==
    /\ \A i \in 1 .. Newest : records[i].end # Null => Watched(obs, records[i].start, records[i].end)
    /\ last # Null => Watched(obs, records[last].start, lastTick)
    /\ stage = "beatImage" => records[Newest].start = lastTick
    /\ isIdle => last = Null \/ stage \in {"idleClose", "shutdown", "stopped"}
    /\ stage = "idleClose" => isIdle

(* The record thought to be open is of the window seen last; without one   *)
(* the user was idle, or nothing is known.                                 *)
Shown ==
    /\ last # Null => records[last].win = prev
    /\ last = Null => prev = Null \/ \E t \in Times : obs[t] = "idle"
    /\ stage \in {"switchClose", "switchSubmit", "beatClose", "beatSubmit"} => win = obs[lastTick]
    /\ stage \in {"beatClose", "beatSubmit"} => win = prev
    /\ stage = "beatImage" => records[Newest].win = prev /\ obs[lastTick] = prev
    /\ lastCapture \in Int /\ lastCapture <= now
    /\ stage = "observe" /\ prev # Null => lastCapture <= tick
    /\ stage = "asleep" /\ lastTick # Null /\ obs[lastTick] \in Windows =>
          /\ obs[lastTick] = prev
          /\ last = Null => lastTick - lastCapture < MaxInterval /\ MaxInterval > 0

WatchInv == Seeing /\ Held /\ Shown

LEMMA Distinct == /\ "idle" # Null /\ "hidden" # Null /\ "idle" \notin Windows /\ "hidden" \notin Windows
               /\ Null \notin Int /\ Null \notin Windows /\ NoWindow \notin Windows
               /\ MaxTime \in Nat /\ Times = 0 .. MaxTime /\ MaxInterval \in Nat /\ MaxGap \in Nat
BY CaptureAssumption DEF CaptureAssumption, Times

LEMMA InitWatch == Init => WatchInv
<1> SUFFICES ASSUME Init PROVE WatchInv
  OBVIOUS
<1> USE Distinct DEF Init
<1>1. Newest = 0
  BY DEF Newest
<1>2. Seeing
  BY DEF Seeing
<1>3. Held
  BY <1>1 DEF Held
<1>4. Shown
  BY DEF Shown
<1> QED
  BY <1>2, <1>3, <1>4 DEF WatchInv

(* A step that touches neither the ticks nor the records.                  *)
LEMMA SeenAlone ==
    ASSUME CaptureInv, WatchInv,
           UNCHANGED <<records, obs, lastTick, last, isIdle, tick, prev, win, stage>>, now' \in Times
    PROVE  Seeing' /\ Held'
BY DEF WatchInv, Seeing, Held, Newest

LEMMA WorldWatch == CaptureInv /\ WatchInv /\ (Pass \/ Type \/ Look) => WatchInv'
<1> SUFFICES ASSUME CaptureInv, WatchInv, Pass \/ Type \/ Look PROVE WatchInv'
  OBVIOUS
<1> USE Distinct DEF World, loop, history
<1>1. /\ UNCHANGED <<records, obs, lastTick, last, isIdle, tick, prev, win, stage, lastCapture>>
      /\ now' \in Times /\ now <= now' /\ now \in Int /\ now' \in Int
  BY DEF Pass, Type, Look, WatchInv, Seeing
<1>2. Shown'
  BY <1>1 DEF WatchInv, Shown, Newest
<1> QED
  BY <1>1, <1>2, SeenAlone DEF WatchInv

LEMMA ShotWatch == CaptureInv /\ WatchInv /\ (TakeShot \/ SkipShot) => WatchInv'
<1> SUFFICES ASSUME CaptureInv, WatchInv, TakeShot \/ SkipShot PROVE WatchInv'
  OBVIOUS
<1> USE Distinct
<1>1. /\ UNCHANGED <<records, obs, lastTick, last, isIdle, tick, prev, win, stage, now>>
      /\ now \in Times /\ now \in Int
      /\ lastCapture' \in {lastCapture, now} /\ stage # "observe"
  BY DEF TakeShot, SkipShot, user, loop, history, WatchInv, Seeing, ShotDue, Awaits, Closing
<1>2. lastTick # Null => lastTick \in Int /\ lastTick <= now
  BY DEF CaptureInv, TypeInv, Observed
<1>3. Shown'
  BY <1>1, <1>2 DEF WatchInv, Shown, Newest
<1> QED
  BY <1>1, <1>3, SeenAlone DEF WatchInv

LEMMA TickWatch == CaptureInv /\ WatchInv /\ (StartTick \/ GapReset) => WatchInv'
<1> SUFFICES ASSUME CaptureInv, WatchInv, StartTick \/ GapReset PROVE WatchInv'
  OBVIOUS
<1> USE Distinct DEF user, history
<1>0. now \in Int /\ tick \in Int /\ (lastTick # Null => lastTick \in Int /\ lastTick <= tick)
  BY DEF CaptureInv, TypeInv, Observed
<1>1. CASE StartTick
  <2>1. /\ UNCHANGED <<records, obs, lastTick, last, isIdle, prev, win, now, lastCapture>>
        /\ stage = "asleep" /\ stage' \in {"observe", "gapReset", "gapClose"} /\ tick' = now /\ now > tick
        /\ stage' = "observe" /\ lastTick # Null => now - lastTick <= MaxGap
    BY <1>1 DEF StartTick
  <2>2. last # Null => lastTick # Null
    BY LenProperties DEF CaptureInv, TypeInv, Observed, Newest
  <2>3. Seeing'
    BY <1>0, <2>1, <2>2 DEF WatchInv, Seeing
  <2>4. Held'
    BY <1>0, <2>1 DEF WatchInv, Held, Newest
  <2>5. Shown'
    BY <1>0, <2>1 DEF WatchInv, Shown, Newest
  <2> QED
    BY <2>3, <2>4, <2>5 DEF WatchInv
<1>2. CASE GapReset
  <2>1. /\ UNCHANGED <<records, obs, lastTick, isIdle, win, now, tick, lastCapture>>
        /\ stage = "gapReset" /\ stage' = "observe" /\ last' = Null /\ prev' = Null
    BY <1>2 DEF GapReset
  <2>2. Seeing'
    BY <1>0, <2>1 DEF WatchInv, Seeing
  <2>3. Held'
    BY <1>0, <2>1 DEF WatchInv, Held, Newest
  <2>4. Shown'
    BY <1>0, <2>1 DEF WatchInv, Shown, Newest
  <2> QED
    BY <2>2, <2>3, <2>4 DEF WatchInv
<1> QED
  BY <1>1, <1>2

(* A look at a later time changes nothing about a time span of the past;   *)
(* one within the gap after it makes it longer.                            *)
LEMMA WatchedStill ==
    ASSUME NEW o, NEW p, NEW a \in Int, NEW b \in Int, NEW n \in Times, b < n,
           \A t \in Times : t # n => p[t] = o[t], Watched(o, a, b)
    PROVE  Watched(p, a, b)
<1> USE Distinct
<1>1. \A t \in Times : t \in Int /\ (t <= b => p[t] = o[t])
  OBVIOUS
<1>2. ASSUME NEW t \in Times, NEW u \in Times, a <= t, u <= b, u - t > MaxGap, p[t] # Null, p[u] # Null
      PROVE  \E v \in t + 1 .. u - 1 : p[v] # Null
  <2>1. t < u /\ t <= b /\ p[t] = o[t] /\ p[u] = o[u]
    BY <1>1, <1>2
  <2>2. PICK v \in t + 1 .. u - 1 : o[v] # Null
    BY <1>2, <2>1 DEF Watched
  <2>3. v \in Times /\ v <= b
    BY <1>1, <1>2
  <2> QED
    BY <1>1, <2>2, <2>3
<1>3. ASSUME NEW t \in Times, a <= t, t < b
      PROVE  p[t] # "idle"
  BY <1>1, <1>3 DEF Watched
<1> QED
  BY <1>2, <1>3 DEF Watched

LEMMA WatchedOn ==
    ASSUME NEW o, NEW p, NEW a \in Int, NEW l \in Times, NEW n \in Times, l < n, n - l <= MaxGap,
           \A t \in Times : t # n => p[t] = o[t], \A t \in Times : o[t] # Null => t <= l,
           o[l] # Null, o[l] # "idle", Watched(o, a, l)
    PROVE  Watched(p, a, n)
<1> USE Distinct
<1>1. \A t \in Times : t \in Int /\ (t < n => p[t] = o[t])
  OBVIOUS
<1>2. ASSUME NEW t \in Times, NEW u \in Times, a <= t, u <= n, u - t > MaxGap, p[t] # Null, p[u] # Null
      PROVE  \E v \in t + 1 .. u - 1 : p[v] # Null
  <2>1. t < u /\ t < n /\ t <= l /\ p[t] = o[t]
    BY <1>1, <1>2
  <2>2. CASE u = n
    <3>1. l \in t + 1 .. u - 1 /\ p[l] = o[l]
      BY <1>1, <1>2, <2>1, <2>2
    <3> QED
      BY <3>1
  <2>3. CASE u # n
    <3>1. u < n /\ p[u] = o[u] /\ u <= l
      BY <1>1, <1>2, <2>3
    <3>2. PICK v \in t + 1 .. u - 1 : o[v] # Null
      BY <1>2, <2>1, <3>1 DEF Watched
    <3>3. v \in Times /\ v < n
      BY <1>1, <3>1
    <3> QED
      BY <1>1, <3>2, <3>3
  <2> QED
    BY <2>2, <2>3
<1>3. ASSUME NEW t \in Times, a <= t, t < n
      PROVE  p[t] # "idle"
  <2>1. p[t] = o[t] /\ (o[t] # Null => t <= l)
    BY <1>1, <1>3
  <2>2. t < l => o[t] # "idle"
    BY <1>1, <1>3 DEF Watched
  <2> QED
    BY <1>1, <2>1, <2>2
<1> QED
  BY <1>2, <1>3 DEF Watched

LEMMA ObserveWatch == CaptureInv /\ WatchInv /\ Observe => WatchInv'
<1> SUFFICES ASSUME CaptureInv, WatchInv, Observe PROVE WatchInv'
  OBVIOUS
<1> USE Distinct DEF user, history
<1> DEFINE idle == now - active >= IdleAfter
<1>1. /\ UNCHANGED <<records, tick, prev, last, lastCapture, now>> /\ lastTick' = tick
      /\ stage = "observe" /\ tick \in Times /\ (lastTick # Null => lastTick < tick)
      /\ isIdle' = idle /\ idle \in BOOLEAN /\ isIdle \in BOOLEAN
      /\ obs' = [obs EXCEPT ![tick] = IF idle THEN "idle" ELSE View]
  BY DEF Observe, WatchInv, Seeing
<1>2. View \in Windows \cup {"hidden"}
  BY DEF CaptureInv, TypeInv, View
<1>3. /\ obs'[tick] = (IF idle THEN "idle" ELSE View) /\ obs'[tick] # Null
      /\ obs'[tick] = "idle" <=> idle
      /\ \A t \in Times : t # tick => obs'[t] = obs[t]
      /\ obs' = [t \in Times |-> obs'[t]]
      /\ \A t \in Times : obs'[t] # Null => t <= tick
      /\ \A t \in Times : obs[t] = "idle" => obs'[t] = "idle"
  <2>1. obs = [t \in Times |-> obs[t]] /\ \A t \in Times : obs[t] # Null => lastTick # Null /\ t <= lastTick
    BY DEF WatchInv, Seeing
  <2>2. \A t \in Times : obs[t] # Null => t < tick
    BY <1>1, <2>1 DEF CaptureInv, TypeInv
  <2> HIDE DEF idle
  <2>3. /\ obs'[tick] = (IF idle THEN "idle" ELSE View)
        /\ \A t \in Times : t # tick => obs'[t] = obs[t]
        /\ obs' = [t \in Times |-> obs'[t]]
    BY <1>1, <2>1
  <2> QED
    BY <1>1, <1>2, <2>2, <2>3
<1> HIDE DEF idle
<1>4. Seeing'
  BY <1>1, <1>3 DEF WatchInv, Seeing, Observe, Awaits, Closing
<1>5. last # Null => ~isIdle
  BY <1>1 DEF WatchInv, Held
<1>6. stage' \in {"asleep", "idleClose", "switchClose", "switchSubmit", "beatClose", "beatSubmit"}
  BY DEF Observe
<1>7. \A i \in 1 .. Newest : records[i].start \in Int /\ records[i].end \in Int \cup {Null}
  BY RecordTypes
<1>8. last # Null => last \in 1 .. Newest /\ lastTick # Null /\ Newest \in Nat
  BY LenProperties DEF CaptureInv, TypeInv, Observed, Newest
<1>9. Held'
  <2>1. \A i \in 1 .. Newest : records[i].end # Null => Watched(obs', records[i].start, records[i].end)
    <3> SUFFICES ASSUME NEW i \in 1 .. Newest, records[i].end # Null
                 PROVE  Watched(obs', records[i].start, records[i].end)
      OBVIOUS
    <3>1. records[i].end <= lastTick /\ lastTick # Null /\ lastTick \in Int
      BY LenProperties DEF CaptureInv, TypeInv, InOrder, Observed, Newest
    <3>2. /\ records[i].end < tick /\ records[i].start \in Int /\ records[i].end \in Int
          /\ tick \in Times /\ \A t \in Times : t # tick => obs'[t] = obs[t]
      BY <1>1, <1>3, <1>7, <3>1
    <3>3. Watched(obs, records[i].start, records[i].end)
      BY DEF WatchInv, Held
    <3> QED
      BY <3>2, <3>3, WatchedStill
  <2>2. ASSUME last # Null
        PROVE  Watched(obs', records[last].start, tick)
    <3>1. /\ lastTick \in Times /\ obs[lastTick] # Null /\ obs[lastTick] # "idle" /\ lastTick < tick
          /\ tick - lastTick <= MaxGap /\ \A t \in Times : obs[t] # Null => t <= lastTick
      BY <1>1, <1>5, <1>8, <2>2 DEF WatchInv, Seeing
    <3>2. Watched(obs, records[last].start, lastTick) /\ records[last].start \in Int
      BY <1>7, <1>8, <2>2 DEF WatchInv, Held
    <3> QED
      BY <1>1, <1>3, <3>1, <3>2, WatchedOn
  <2>3. /\ stage' # "beatImage" /\ (stage' = "idleClose" => idle)
        /\ idle => last = Null \/ stage' = "idleClose"
    BY <1>1, <1>5, <1>6 DEF Observe, idle
  <2> QED
    BY <1>1, <2>1, <2>2, <2>3 DEF Held, Newest
<1>10. Shown'
  <2>1. CASE stage' \in {"switchClose", "switchSubmit", "beatClose", "beatSubmit"}
    <3>1. ~idle /\ View # "hidden" /\ win' = View
      BY <2>1 DEF Observe, idle
    <3>2. stage' \in {"beatClose", "beatSubmit"} => View = prev
      BY <2>1, <3>1 DEF Observe, idle
    <3> QED
      BY <1>1, <1>3, <2>1, <3>1, <3>2 DEF WatchInv, Shown, Newest
  <2>2. CASE stage' \in {"asleep", "idleClose"}
    <3>1. ASSUME stage' = "asleep", obs'[tick] \in Windows
          PROVE  ~idle /\ View = prev /\ ~Due
      BY <1>2, <1>3, <3>1 DEF Observe, idle
    <3>2. ASSUME stage' = "asleep", obs'[tick] \in Windows
          PROVE  obs'[tick] = prev /\ tick - lastCapture < MaxInterval /\ MaxInterval > 0
      <4>1. lastCapture \in Int /\ lastCapture <= tick /\ tick \in Int
        BY <1>1, <1>3, <3>1, <3>2 DEF WatchInv, Shown
      <4> QED
        BY <1>3, <3>1, <3>2, <4>1 DEF Due
    <3> QED
      BY <1>1, <1>3, <2>2, <3>2 DEF WatchInv, Shown, Newest
  <2> QED
    BY <1>6, <2>1, <2>2
<1> QED
  BY <1>4, <1>9, <1>10 DEF WatchInv

(* Closing and submitting, as far as the records are concerned.            *)
LEMMA ClosedWatched ==
    ASSUME CaptureInv, WatchInv, stage \in Closing \cup {"shutdown"}, Closed, UNCHANGED obs
    PROVE  /\ Newest' = Newest /\ last \in 1 .. Newest
           /\ \A i \in 1 .. Newest : /\ records'[i].start = records[i].start
                                     /\ records'[i].win = records[i].win
           /\ \A i \in 1 .. Newest :
                 records'[i].end # Null => Watched(obs', records'[i].start, records'[i].end)
<1>1. /\ Len(records') = Newest /\ last \in 1 .. Newest /\ records'[last].end = lastTick
      /\ records'[last].start = records[last].start
      /\ \A i \in 1 .. Newest : i # last => records'[i] = records[i]
  BY ClosedKeeps
<1>2. last # Null
  BY DEF CaptureInv, TypeInv
<1>3. records'[last].win = records[last].win
  <2>1. records' = [records EXCEPT ![last] = [records[last] EXCEPT !.end = CloseTime]]
    BY DEF Closed
  <2>2. records'[last] = [records[last] EXCEPT !.end = CloseTime]
    BY <1>1, <2>1, LenProperties DEF CaptureInv, TypeInv, Newest
  <2>3. records[last] \in [win : Windows \cup {Null}, start : Int, end : Int \cup {Null}]
    BY <1>1, ElementOfSeq DEF CaptureInv, TypeInv, Newest
  <2> QED
    BY <2>2, <2>3
<1> QED
  BY <1>1, <1>2, <1>3 DEF WatchInv, Held, Newest

LEMMA SubmittedWatched ==
    ASSUME CaptureInv, WatchInv, stage \in {"switchSubmit", "beatSubmit"}, Submitted, UNCHANGED obs
    PROVE  /\ Newest' = Newest + 1 /\ Newest \in Nat
           /\ \A i \in 1 .. Newest : records'[i] = records[i]
           /\ records'[Newest + 1].start = lastTick /\ records'[Newest + 1].win = win
           /\ \A i \in 1 .. Newest + 1 :
                 records'[i].end # Null => Watched(obs', records'[i].start, records'[i].end)
<1>1. /\ Len(records') = Newest + 1 /\ Newest \in Nat
      /\ records'[Newest + 1].start = lastTick /\ records'[Newest + 1].end = Null
      /\ \A i \in 1 .. Newest : records'[i] = records[i]
  BY SubmittedKeeps
<1>2. records'[Newest + 1] = Record(win, tick)
  <2>1. Record(win, tick) \in [win : Windows \cup {Null}, start : Int, end : Int \cup {Null}]
    BY DEF CaptureInv, TypeInv, Record
  <2> QED
    BY <2>1, AppendProperties DEF Submitted, CaptureInv, TypeInv, Newest
<1>3. \A i \in 1 .. Newest + 1 : i \in 1 .. Newest \/ i = Newest + 1
  BY <1>1
<1> QED
  BY <1>1, <1>2, <1>3 DEF WatchInv, Held, Newest, Record

LEMMA WatchedMoment == ASSUME NEW a \in Int PROVE Watched(obs, a, a)
<1>1. \A t, u \in Times : a <= t /\ u <= a => ~(u - t > MaxGap)
  BY Distinct
<1>2. \A t \in Times : ~(a <= t /\ t < a)
  BY Distinct
<1> QED
  BY <1>1, <1>2 DEF Watched

LEMMA CloseLastWatch == CaptureInv /\ WatchInv /\ CloseLast => WatchInv'
<1> SUFFICES ASSUME CaptureInv, WatchInv, CloseLast PROVE WatchInv'
  OBVIOUS
<1> USE Distinct DEF user, loop
<1>1. /\ UNCHANGED <<now, tick, win, lastTick, isIdle, prev, obs, lastCapture>>
      /\ stage \in Closing /\ last # Null /\ last \in 1 .. Newest
      /\ stage' \in {"gapReset", "asleep", "switchSubmit", "beatSubmit"}
      /\ stage' = "gapReset" => stage = "gapClose"
      /\ stage' = "switchSubmit" => stage = "switchClose"
      /\ stage' = "beatSubmit" => stage = "beatClose"
      /\ stage' = "asleep" <=> stage = "idleClose"
      /\ last' = IF stage = "idleClose" THEN Null ELSE last
  BY DEF CloseLast, Closing, CaptureInv, TypeInv
<1>2. /\ Newest' = Newest
      /\ \A i \in 1 .. Newest : records'[i].start = records[i].start /\ records'[i].win = records[i].win
      /\ \A i \in 1 .. Newest :
            records'[i].end # Null => Watched(obs', records'[i].start, records'[i].end)
  <2>1. CASE Closed
    BY <1>1, <2>1, ClosedWatched
  <2>2. CASE UNCHANGED records
    BY <1>1, <2>2 DEF WatchInv, Held, Newest
  <2> QED
    BY <2>1, <2>2 DEF CloseLast, SafeClose
<1>3. Seeing'
  BY <1>1 DEF WatchInv, Seeing
<1>4. isIdle => stage = "idleClose"
  BY <1>1 DEF WatchInv, Held, Closing
<1>5. Held'
  BY <1>1, <1>2, <1>4 DEF WatchInv, Held
<1>6. Shown'
  <2>1. stage = "idleClose" => lastTick \in Times /\ obs[lastTick] = "idle"
    BY DEF WatchInv, Held, Seeing
  <2> QED
    BY <1>1, <1>2, <2>1 DEF WatchInv, Shown
<1> QED
  BY <1>3, <1>5, <1>6 DEF WatchInv

LEMMA SubmitWatch == CaptureInv /\ WatchInv /\ (SwitchSubmit \/ BeatSubmit) => WatchInv'
<1> SUFFICES ASSUME CaptureInv, WatchInv, SwitchSubmit \/ BeatSubmit PROVE WatchInv'
  OBVIOUS
<1> USE Distinct DEF user
<1>1. /\ UNCHANGED <<now, tick, lastTick, isIdle, obs>> /\ Submitted
      /\ stage \in {"switchSubmit", "beatSubmit"} /\ lastTick = tick
      /\ now \in Int /\ tick \in Int /\ tick <= now
      /\ \/ stage' = "asleep" /\ last' = Newest + 1 /\ prev' = win /\ lastCapture' = lastCapture
         \/ /\ stage = "beatSubmit" /\ stage' = "beatImage" /\ last' = last /\ prev' = prev
            /\ lastCapture' = tick
  BY DEF SwitchSubmit, BeatSubmit, CaptureInv, TypeInv, Observed, Seen
<1>2. /\ Newest' = Newest + 1 /\ Newest \in Nat
      /\ \A i \in 1 .. Newest : records'[i] = records[i]
      /\ records'[Newest + 1].start = lastTick /\ records'[Newest + 1].win = win
      /\ \A i \in 1 .. Newest + 1 :
            records'[i].end # Null => Watched(obs', records'[i].start, records'[i].end)
  BY <1>1, SubmittedWatched
<1>3. win = obs[lastTick] /\ obs[lastTick] # Null /\ win \in Windows /\ ~isIdle
  BY <1>1 DEF WatchInv, Seeing, Shown, CaptureInv, TypeInv
<1>4. last # Null => last \in 1 .. Newest
  BY DEF CaptureInv, TypeInv
<1>5. Seeing'
  BY <1>1 DEF WatchInv, Seeing
<1>6. Held'
  <2>1. Watched(obs, lastTick, lastTick)
    BY <1>1, WatchedMoment
  <2> QED
    BY <1>1, <1>2, <1>3, <1>4, <2>1 DEF WatchInv, Held
<1>7. Shown'
  BY <1>1, <1>2, <1>3, <1>4 DEF WatchInv, Shown
<1> QED
  BY <1>5, <1>6, <1>7 DEF WatchInv

LEMMA BeatImageWatch == CaptureInv /\ WatchInv /\ BeatImage => WatchInv'
<1> SUFFICES ASSUME CaptureInv, WatchInv, BeatImage PROVE WatchInv'
  OBVIOUS
<1> USE Distinct DEF user, loop, history
<1>1. /\ UNCHANGED <<now, tick, win, lastTick, isIdle, prev, obs, lastCapture, records>>
      /\ stage = "beatImage" /\ stage' = "asleep" /\ last' = Newest /\ Newest' = Newest
      /\ Newest \in Nat /\ Newest > 0 /\ lastTick # Null /\ lastTick \in Int
  BY LenProperties DEF BeatImage, CaptureInv, TypeInv, Observed, Newest
<1>2. /\ records[Newest].start = lastTick /\ records[Newest].win = prev /\ obs[lastTick] = prev
      /\ obs[lastTick] # Null
  BY <1>1 DEF WatchInv, Held, Shown, Seeing
<1>3. ~isIdle
  <2>1. records[Newest] \in [win : Windows \cup {Null}, start : Int, end : Int \cup {Null}]
    <3>1. Newest \in 1 .. Len(records)
      BY <1>1 DEF Newest
    <3> QED
      BY <3>1, ElementOfSeq DEF CaptureInv, TypeInv
  <2>2. prev \in Windows
    BY <1>2, <2>1
  <2> QED
    BY <1>2, <2>2 DEF WatchInv, Seeing
<1>4. Seeing'
  BY <1>1 DEF WatchInv, Seeing
<1>5. Held'
  <2>1. Watched(obs, lastTick, lastTick)
    BY <1>1, WatchedMoment
  <2> QED
    BY <1>1, <1>2, <1>3, <2>1 DEF WatchInv, Held
<1>6. Shown'
  BY <1>1, <1>2 DEF WatchInv, Shown
<1> QED
  BY <1>4, <1>5, <1>6 DEF WatchInv

LEMMA EndWatch == CaptureInv /\ WatchInv /\ (SubmitFails \/ Stop \/ Shutdown) => WatchInv'
<1> SUFFICES ASSUME CaptureInv, WatchInv, SubmitFails \/ Stop \/ Shutdown PROVE WatchInv'
  OBVIOUS
<1> USE Distinct DEF user, loop
<1>1. /\ UNCHANGED <<now, tick, win, lastTick, isIdle, prev, obs, lastCapture, last>>
      /\ stage' \in {"shutdown", "stopped"} /\ (last # Null => last \in 1 .. Newest)
  BY DEF SubmitFails, Stop, Shutdown, Ended, CaptureInv, TypeInv
<1>2. Seeing'
  BY <1>1 DEF WatchInv, Seeing
<1>3. CASE UNCHANGED records
  BY <1>1, <1>2, <1>3 DEF WatchInv, Held, Shown, Newest
<1>4. CASE stage \in Closing \cup {"shutdown"} /\ Closed
  <2>1. /\ Newest' = Newest
        /\ \A i \in 1 .. Newest : records'[i].start = records[i].start /\ records'[i].win = records[i].win
        /\ \A i \in 1 .. Newest :
              records'[i].end # Null => Watched(obs', records'[i].start, records'[i].end)
    BY <1>1, <1>4, ClosedWatched
  <2>2. Held' /\ Shown'
    BY <1>1, <2>1 DEF WatchInv, Held, Shown
  <2> QED
    BY <1>2, <2>2 DEF WatchInv
<1>5. CASE stage \in {"switchSubmit", "beatSubmit"} /\ Submitted
  <2>1. /\ Newest' = Newest + 1 /\ Newest \in Nat
        /\ \A i \in 1 .. Newest : records'[i] = records[i]
        /\ \A i \in 1 .. Newest + 1 :
              records'[i].end # Null => Watched(obs', records'[i].start, records'[i].end)
    BY <1>1, <1>5, SubmittedWatched
  <2>2. Held' /\ Shown'
    BY <1>1, <2>1 DEF WatchInv, Held, Shown
  <2> QED
    BY <1>2, <2>2 DEF WatchInv
<1> QED
  BY <1>3, <1>4, <1>5 DEF SubmitFails, Stop, Shutdown, SafeClose

LEMMA StutterWatch == CaptureInv /\ WatchInv /\ UNCHANGED vars => WatchInv'
BY DEF vars, user, loop, history, WatchInv, Seeing, Held, Shown, Newest

LEMMA WatchHolds == Spec => [](CaptureInv /\ WatchInv)
<1>1. CaptureInv /\ WatchInv /\ [Next]_vars => WatchInv'
  BY WorldWatch, TickWatch, ObserveWatch, CloseLastWatch, SubmitWatch, BeatImageWatch,
     ShotWatch, EndWatch, StutterWatch
     DEF Next
<1> QED
  BY <1>1, InitWatch, InvariantHolds, PTL DEF Spec

(* No record spans two looks further apart than the gap the loop allows    *)
(* itself, nor one that found the user idle, whatever was cancelled or     *)
(* failed between the look and the closing.                                *)
THEOREM OnlyObservedTime == Spec => []ObservedOnly
<1>1. CaptureInv /\ WatchInv => ObservedOnly
  <2> SUFFICES ASSUME CaptureInv, WatchInv, NEW i \in DOMAIN records
               PROVE  /\ \A t, u \in Times :
                            /\ Spans(records[i], t, u) /\ u - t > MaxGap
                            /\ obs[t] # Null /\ obs[u] # Null
                            => \E v \in t + 1 .. u - 1 : obs[v] # Null
                      /\ \A t \in Times : Spans(records[i], t, t) /\ obs[t] = "idle"
                                          => t = records[i].end
    BY DEF ObservedOnly
  <2>1. i \in 1 .. Newest
    BY LenProperties DEF CaptureInv, TypeInv, Newest
  <2>2. records[i].end # Null => Watched(obs, records[i].start, records[i].end) /\ records[i].end \in Int
    BY <2>1, RecordTypes DEF WatchInv, Held
  <2>3. \A t \in Times : t \in Int
    BY Distinct
  <2> QED
    BY <2>2, <2>3 DEF Spans, Watched
<1> QED
  BY <1>1, WatchHolds, PTL

(* Between two ticks the record thought open is of the window the user was *)
(* last seen in; there is none only after idling, and then the last        *)
(* screenshot is less than a heartbeat ago.                                *)
THEOREM ActivityIsCovered == Spec => []ActivityCovered
<1>1. WatchInv => ActivityCovered
  BY Distinct DEF WatchInv, Shown, ActivityCovered
<1> QED
  BY <1>1, WatchHolds, PTL
=============================================================================
