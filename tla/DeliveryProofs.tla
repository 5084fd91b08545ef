--------------------------- MODULE DeliveryProofs ---------------------------
(***************************************************************************)
(* Delivery's type invariant and its four safety invariants, for any       *)
(* number of records, any window, any bound on time and any number of      *)
(* timeouts, late requests and client restarts.                            *)
(***************************************************************************)
EXTENDS Delivery, SequenceTheorems, WellFoundedInduction, TLAPS

LEMMA LeastOfNats ==
    ASSUME NEW S \in SUBSET Nat, S # {}
    PROVE  Least(S) \in S /\ \A y \in S : Least(S) <= y
<1> DEFINE R == {ss \in Nat \X Nat : ss[1] < ss[2]}
<1>1. IsWellFoundedOn(R, Nat)
  BY NatLessThanWellFounded, Zenon DEF OpToRel
<1>2. PICK x \in S : \A y \in S : ~ (<<y, x>> \in R)
  <2> HIDE DEF R
  <2> QED
    BY <1>1, WFMin, Zenon
<1>3. \A y \in S : x <= y
  <2> SUFFICES ASSUME NEW y \in S, y < x
               PROVE  FALSE
    OBVIOUS
  <2>1. <<y, x>> \in Nat \X Nat /\ <<y, x>>[1] < <<y, x>>[2]
    OBVIOUS
  <2>2. <<y, x>> \in R
    BY <2>1, Zenon
  <2> QED
    BY <1>2, <2>2
<1> QED
  BY <1>2, <1>3, Zenon DEF Least

-----------------------------------------------------------------------------
(* What the server does to the timeline.                                   *)

LEMMA BoundedEndShape ==
    ASSUME NEW s \in Times, NEW requested \in Times, NEW existing \in Times \cup {Null}
    PROVE  /\ BoundedEnd(s, requested, existing) \in Times
           /\ Plausible(s, BoundedEnd(s, requested, existing))
           /\ Plausible(s, requested) => BoundedEnd(s, requested, existing) = requested
BY DeliveryAssumption DEF BoundedEnd, Plausible, Times

(* The end an orphan is given lies at most Bridge after its start.         *)
LEMMA BoundaryShape ==
    ASSUME TypeOK, NEW r \in Records, start[r] # Null,
           NEW tail \in Times \cup {Null}, tail # Null => start[r] < tail
    PROVE  Boundary(r, tail) \in Times /\ Plausible(start[r], Boundary(r, tail))
<1> DEFINE ns == {m \in Records : start[m] # Null /\ start[m] > start[r]
                                    /\ start[m] - start[r] <= Bridge}
           nexts == {start[n] : n \in ns}
<1>1. \A m \in Records : start[m] # Null => start[m] \in Times
  BY DEF TypeOK
<1>2. start[r] \in Times /\ Bridge \in Nat /\ MaxTime \in Nat
  BY <1>1, DeliveryAssumption
<1>3. \A t \in nexts : t \in Times /\ t > start[r] /\ t - start[r] <= Bridge
  BY <1>1
<1>4. CASE nexts # {}
  <2>1. nexts \in SUBSET Nat
    BY <1>2, <1>3 DEF Times
  <2>2. Least(nexts) \in nexts
    <3> HIDE DEF nexts
    <3> QED
      BY <1>4, <2>1, LeastOfNats
  <2>3. Boundary(r, tail) = Least(nexts)
    BY <1>4, Zenon DEF Boundary
  <2> HIDE DEF nexts
  <2> QED
    BY <1>2, <1>3, <2>2, <2>3 DEF Plausible, Times
<1>5. CASE nexts = {}
  <2>1. Boundary(r, tail) = IF tail # Null /\ tail - start[r] <= Bridge THEN tail
                            ELSE start[r]
    BY <1>5, Zenon DEF Boundary
  <2> QED
    BY <1>2, <2>1, DeliveryAssumption DEF Plausible, Times
<1> QED
  BY <1>4, <1>5

LEMMA HealedShape ==
    ASSUME TypeOK, NEW cutoff \in Int, NEW tail \in Times \cup {Null},
           tail # Null => tail = cutoff
    PROVE  /\ Healed(cutoff, tail) \in [Records -> Times \cup {Null}]
           /\ \A r \in Records :
                 \/ Healed(cutoff, tail)[r] = end[r]
                 \/ /\ end[r] = Null /\ start[r] # Null
                    /\ Healed(cutoff, tail)[r] \in Times
                    /\ Plausible(start[r], Healed(cutoff, tail)[r])
<1>1. ASSUME NEW r \in Records, r \in OpenBefore(cutoff)
      PROVE  /\ end[r] = Null /\ start[r] # Null
             /\ Boundary(r, tail) \in Times /\ Plausible(start[r], Boundary(r, tail))
  <2>1. start[r] # Null /\ end[r] = Null /\ start[r] < cutoff
    BY <1>1 DEF OpenBefore
  <2> QED
    BY <2>1, BoundaryShape
<1>2. \A r \in Records : end[r] \in Times \cup {Null}
  BY DEF TypeOK
<1> QED
  BY <1>1, <1>2, Zenon DEF Healed

(* What executing the requests E (one, or none) may do to the timeline.    *)
Effect(E) ==
    /\ shot \subseteq shot'
    /\ \A r \in Records : start[r] # Null => start'[r] = start[r]
    /\ \A r \in Records :
          start[r] = Null /\ start'[r] # Null =>
             \E e \in E : e.rec = r /\ e.kind \in {"record", "shot"} /\ start'[r] = e.ts
    /\ \A r \in Records :
          \/ end'[r] = end[r]
          \/ /\ end[r] = Null /\ start[r] # Null
             /\ end'[r] \in Times /\ Plausible(start[r], end'[r])
          \/ \E e \in E : /\ e.kind = "close" /\ e.rec = r /\ start[r] # Null
                          /\ end'[r] = BoundedEnd(start[r], e.ts, end[r])

ServerTypeOK ==
    /\ start \in [Records -> Times \cup {Null}] /\ end \in [Records -> Times \cup {Null}]
    /\ shot \subseteq Records /\ overtaken \in BOOLEAN

LEMMA IngestEffect ==
    ASSUME TypeOK, NEW e \in Entries, e.kind \in {"record", "shot"},
           IngestRecord(e.rec, e.ts), shot \subseteq shot', shot' \subseteq Records
    PROVE  ServerTypeOK' /\ Effect({e}) /\ start'[e.rec] # Null
<1>1. e.rec \in Records /\ e.ts \in Times /\ e.ts \in Int /\ e.ts # Null
  BY DeliveryAssumption DEF Entries, Times
<1>2. CASE start[e.rec] # Null
  BY <1>1, <1>2, Zenon DEF IngestRecord, ServerTypeOK, Effect, TypeOK
<1>3. CASE start[e.rec] = Null
  <2>1. /\ end' = Healed(e.ts, e.ts)
        /\ start' = [start EXCEPT ![e.rec] = e.ts]
        /\ overtaken' = (overtaken \/ \E n \in Records : start[n] # Null /\ start[n] > e.ts)
    BY <1>3 DEF IngestRecord
  <2>2. /\ end' \in [Records -> Times \cup {Null}]
        /\ \A r \in Records : \/ end'[r] = end[r]
                              \/ /\ end[r] = Null /\ start[r] # Null
                                 /\ end'[r] \in Times /\ Plausible(start[r], end'[r])
    BY <1>1, <2>1, HealedShape
  <2>3. /\ start' \in [Records -> Times \cup {Null}]
        /\ start'[e.rec] = e.ts
        /\ \A r \in Records : r # e.rec => start'[r] = start[r]
    BY <1>1, <2>1 DEF TypeOK
  <2>4. overtaken' \in BOOLEAN
    BY <2>1, Zenon
  <2>5. ServerTypeOK'
    BY <2>2, <2>3, <2>4 DEF ServerTypeOK
  <2>6. Effect({e})
    BY <1>3, <2>2, <2>3, Zenon DEF Effect
  <2> QED
    BY <1>1, <2>3, <2>5, <2>6
<1> QED
  BY <1>2, <1>3

(* A request executed at any time, and what a success promises.            *)
LEMMA ApplyEffect ==
    ASSUME TypeOK, NEW e \in Entries, Apply(e)
    PROVE  /\ ServerTypeOK' /\ Effect({e})
           /\ e.kind \in {"record", "shot"} => start'[e.rec] # Null
           /\ e.kind = "shot" => e.rec \in shot'
           /\ e.kind = "close" /\ start[e.rec] # Null =>
                 end'[e.rec] = BoundedEnd(start[e.rec], e.ts, end[e.rec])
<1>1. e.rec \in Records /\ e.ts \in Times /\ e.kind \in {"record", "shot", "close"}
  BY DEF Entries
<1>2. shot \subseteq Records
  BY DEF TypeOK
<1>3. CASE e.kind = "record" /\ IngestRecord(e.rec, e.ts) /\ UNCHANGED shot
  BY <1>2, <1>3, IngestEffect
<1>4. CASE /\ e.kind = "shot" /\ IngestRecord(e.rec, e.ts)
           /\ shot' = shot \cup {e.rec}
  BY <1>1, <1>2, <1>4, IngestEffect
<1>5. CASE /\ e.kind = "close" /\ start[e.rec] # Null
           /\ end' = [end EXCEPT ![e.rec] = BoundedEnd(start[e.rec], e.ts, end[e.rec])]
           /\ UNCHANGED <<start, shot, overtaken>>
  <2> DEFINE b == BoundedEnd(start[e.rec], e.ts, end[e.rec])
  <2>1. start[e.rec] \in Times /\ end[e.rec] \in Times \cup {Null}
    BY <1>1, <1>5 DEF TypeOK
  <2>2. b \in Times
    BY <1>1, <2>1, BoundedEndShape
  <2> HIDE DEF b
  <2>3. /\ end' \in [Records -> Times \cup {Null}]
        /\ end'[e.rec] = b
        /\ \A r \in Records : r # e.rec => end'[r] = end[r]
    <3>1. end' = [end EXCEPT ![e.rec] = b]
      BY <1>5 DEF b
    <3> QED
      BY <1>1, <2>2, <3>1 DEF TypeOK
  <2>4. ServerTypeOK'
    BY <1>5, <2>3 DEF ServerTypeOK, TypeOK
  <2>5. Effect({e})
    BY <1>5, <2>3, Zenon DEF Effect, b
  <2> QED
    BY <1>5, <2>3, <2>4, <2>5 DEF b
<1>6. CASE e.kind = "close" /\ start[e.rec] = Null /\ UNCHANGED server
  BY <1>6, Zenon DEF server, ServerTypeOK, Effect, TypeOK
<1> QED
  BY <1>3, <1>4, <1>5, <1>6, Zenon DEF Apply

LEMMA ExpireEffect ==
    ASSUME TypeOK, ExpireStale
    PROVE  ServerTypeOK' /\ Effect({})
<1>1. now - Bridge \in Int /\ Null \in Times \cup {Null}
  BY DeliveryAssumption DEF TypeOK, Times
<1>2. /\ end' = Healed(now - Bridge, Null) /\ UNCHANGED <<start, shot, overtaken>>
  BY DEF ExpireStale
<1> QED
  BY <1>1, <1>2, HealedShape, Zenon DEF ServerTypeOK, Effect, TypeOK

LEMMA IdleEffect ==
    ASSUME TypeOK, UNCHANGED server
    PROVE  ServerTypeOK' /\ Effect({})
BY Zenon DEF ServerTypeOK, Effect, TypeOK, server

-----------------------------------------------------------------------------
(* Type correctness.                                                       *)

Slots == [entry : Entries, state : {"wait", "sending", "done"}]

LEMMA SlotOf ==
    ASSUME TypeOK, NEW i \in DOMAIN window
    PROVE  /\ i \in 1 .. Len(window)
           /\ window[i] \in Slots /\ window[i].entry \in Entries
<1>1. window \in Seq(Slots)
  BY DEF TypeOK, Slots
<1>2. i \in 1 .. Len(window)
  BY <1>1, LenProperties
<1>3. window[i] \in Slots
  BY <1>1, <1>2, ElementOfSeq
<1> QED
  BY <1>2, <1>3 DEF Slots

LEMMA SetStateShape ==
    ASSUME TypeOK, NEW i \in DOMAIN window, NEW s \in {"wait", "sending", "done"},
           SetState(i, s)
    PROVE  /\ window' \in Seq(Slots) /\ Len(window') = Len(window)
           /\ \A j \in 1 .. Len(window) :
                 /\ window'[j].entry = window[j].entry
                 /\ window'[j].state = IF j = i THEN s ELSE window[j].state
<1>1. /\ window \in Seq(Slots) /\ DOMAIN window = 1 .. Len(window)
      /\ i \in 1 .. Len(window) /\ window[i] \in Slots
  BY SlotOf, LenProperties DEF TypeOK, Slots
<1>2. \A j \in 1 .. Len(window) : window[j] \in Slots
  BY <1>1, ElementOfSeq
<1> DEFINE slot == [window[i] EXCEPT !.state = s]
<1>3. slot \in Slots /\ slot.entry = window[i].entry /\ slot.state = s
  BY <1>1 DEF Slots
<1>4. window' = [window EXCEPT ![i] = slot]
  BY DEF SetState
<1> HIDE DEF slot
<1>5. /\ window' \in Seq(Slots) /\ Len(window') = Len(window)
      /\ \A j \in 1 .. Len(window) : window'[j] = IF j = i THEN slot ELSE window[j]
  BY <1>1, <1>2, <1>3, <1>4, ExceptSeq
<1> QED
  BY <1>1, <1>3, <1>5

LEMMA EntryOf ==
    ASSUME NEW k \in {"record", "shot", "close"}, NEW r \in Records, now \in Times
    PROVE  Entry(k, r, now) \in Entries
BY DEF Entry, Entries

(* The window is made of the oldest entries of the outbox, in order: only  *)
(* an ack of the head shortens both.                                       *)
Prefix ==
    /\ Len(window) <= Len(pending)
    /\ \A i \in 1 .. Len(window) : window[i].entry = pending[i]

QueueTypeOK ==
    /\ pending \in Seq(Entries) /\ window \in Seq(Slots) /\ Len(window) <= Window
    /\ Prefix

LEMMA EmptyQueue ==
    ASSUME pending \in Seq(Entries), window = <<>>
    PROVE  QueueTypeOK
<1>1. window \in Seq(Slots) /\ Len(window) = 0
  BY EmptySeq
<1>2. Len(pending) \in Nat /\ Window \in Nat
  BY LenProperties, DeliveryAssumption
<1> QED
  BY <1>1, <1>2 DEF QueueTypeOK, Prefix

LEMMA AppendQueue ==
    ASSUME QueueTypeOK, NEW e \in Entries, pending' = Append(pending, e), UNCHANGED window
    PROVE  /\ QueueTypeOK'
           /\ Len(pending') = Len(pending) + 1 /\ pending'[Len(pending) + 1] = e
           /\ \A i \in 1 .. Len(pending) : pending'[i] = pending[i]
<1>1. /\ pending \in Seq(Entries) /\ Len(pending) \in Nat /\ Len(window) \in Nat
      /\ Len(window) <= Len(pending)
  BY LenProperties DEF QueueTypeOK, Prefix
<1>2. /\ pending' \in Seq(Entries)
      /\ Len(pending') = Len(pending) + 1 /\ pending'[Len(pending) + 1] = e
      /\ \A i \in 1 .. Len(pending) : pending'[i] = pending[i]
  BY <1>1, AppendProperties
<1>3. \A i \in 1 .. Len(window) : i \in 1 .. Len(pending)
  BY <1>1
<1> QED
  BY <1>1, <1>2, <1>3 DEF QueueTypeOK, Prefix

LEMMA StateQueue ==
    ASSUME TypeOK, QueueTypeOK, NEW i \in DOMAIN window,
           NEW s \in {"wait", "sending", "done"}, SetState(i, s), UNCHANGED pending
    PROVE  QueueTypeOK'
<1>1. /\ window' \in Seq(Slots) /\ Len(window') = Len(window)
      /\ \A j \in 1 .. Len(window) : window'[j].entry = window[j].entry
  BY SetStateShape
<1> QED
  BY <1>1 DEF QueueTypeOK, Prefix

LEMMA AckQueue ==
    ASSUME QueueTypeOK, window # <<>>, pending' = Tail(pending), window' = Tail(window)
    PROVE  /\ QueueTypeOK'
           /\ pending # <<>> /\ pending[1] = window[1].entry /\ pending[1] \in Entries
           /\ Len(pending') = Len(pending) - 1 /\ Len(window') = Len(window) - 1
           /\ \A i \in 1 .. Len(pending') : pending'[i] = pending[i + 1]
           /\ \A i \in 1 .. Len(window') : window'[i] = window[i + 1]
<1>1. /\ pending \in Seq(Entries) /\ Len(pending) \in Nat
      /\ window \in Seq(Slots) /\ Len(window) \in Nat /\ Len(window) # 0
      /\ Len(window) <= Len(pending) /\ Len(window) <= Window /\ Window \in Nat
      /\ \A i \in 1 .. Len(window) : window[i].entry = pending[i]
  BY LenProperties, EmptySeq, DeliveryAssumption DEF QueueTypeOK, Prefix
<1>2. pending # <<>>
  BY <1>1, EmptySeq
<1>3. pending[1] = window[1].entry /\ pending[1] \in Entries
  BY <1>1, ElementOfSeq
<1>4. /\ pending' \in Seq(Entries) /\ Len(pending') = Len(pending) - 1
      /\ \A i \in 1 .. Len(pending') : pending'[i] = pending[i + 1]
  BY <1>1, <1>2, HeadTailProperties
<1>5. /\ window' \in Seq(Slots) /\ Len(window') = Len(window) - 1
      /\ \A i \in 1 .. Len(window') : window'[i] = window[i + 1]
  BY <1>1, HeadTailProperties
<1>6. \A i \in 1 .. Len(window') : /\ i \in 1 .. Len(pending')
                                   /\ i + 1 \in 1 .. Len(window)
  BY <1>1, <1>4, <1>5
<1>7. QueueTypeOK'
  BY <1>1, <1>4, <1>5, <1>6 DEF QueueTypeOK, Prefix
<1> QED
  BY <1>2, <1>3, <1>4, <1>5, <1>7

LEMMA StartQueue ==
    ASSUME QueueTypeOK, StartWindow
    PROVE  /\ QueueTypeOK'
           /\ \A i \in 1 .. Len(window') : window'[i].state = "wait"
<1>0. /\ pending \in Seq(Entries) /\ Len(pending) \in Nat /\ Window \in Nat
      /\ \A i \in 1 .. Len(pending) : pending[i] \in Entries
  BY LenProperties, ElementOfSeq, DeliveryAssumption DEF QueueTypeOK
<1>1. PICK n \in 1 .. Len(pending) :
        /\ n = IF Len(pending) < Window THEN Len(pending) ELSE Window
        /\ window' = [i \in 1 .. n |-> [entry |-> pending[i], state |-> "wait"]]
  BY DEF StartWindow
<1>2. n \in Nat /\ n <= Window /\ n <= Len(pending)
  BY <1>0, <1>1
<1>3. /\ \A i \in 1 .. n : window'[i] \in Slots
      /\ \A i \in 1 .. n : window'[i].entry = pending[i] /\ window'[i].state = "wait"
  BY <1>0, <1>1, <1>2 DEF Slots
<1>4. DOMAIN window' = 1 .. n
  BY <1>1
<1>5. window' \in Seq(Slots) /\ Len(window') = n
  <2>1. window' \in [1 .. n -> Slots]
    BY <1>1, <1>3, Zenon
  <2> QED
    BY <1>2, <2>1
<1>6. UNCHANGED pending
  BY DEF StartWindow
<1> QED
  BY <1>0, <1>2, <1>3, <1>5, <1>6 DEF QueueTypeOK, Prefix

LEMMA InitType == Init => TypeOK /\ QueueTypeOK
<1> SUFFICES ASSUME Init PROVE TypeOK /\ QueueTypeOK
  OBVIOUS
<1>1. now \in Times /\ faults \in 0 .. MaxFaults
  BY DeliveryAssumption DEF Init, Times
<1>2. pending \in Seq(Entries) /\ QueueTypeOK
  BY EmptySeq, EmptyQueue DEF Init
<1> QED
  BY <1>1, <1>2 DEF Init, TypeOK, QueueTypeOK, Slots

LEMMA StepType == TypeOK /\ QueueTypeOK /\ [Next]_vars => TypeOK' /\ QueueTypeOK'
<1> SUFFICES ASSUME TypeOK, QueueTypeOK, [Next]_vars PROVE TypeOK' /\ QueueTypeOK'
  OBVIOUS
<1> DEFINE Rest == /\ now \in Times /\ open \in Records \cup {Null}
                   /\ begun \in [Records -> Times \cup {Null}]
                   /\ ended \in [Records -> Times \cup {Null}]
                   /\ late \subseteq Entries /\ acked \subseteq Entries
                   /\ faults \in 0 .. MaxFaults
<1>a. TypeOK' <=> Rest' /\ ServerTypeOK' /\ (pending \in Seq(Entries) /\ window \in Seq(Slots) /\ Len(window) <= Window)'
  BY Zenon DEF TypeOK, ServerTypeOK, Slots
<1>0. Rest /\ ServerTypeOK
  BY Zenon DEF TypeOK, ServerTypeOK
<1>b. (QueueTypeOK' /\ Rest' /\ ServerTypeOK') => TypeOK'
  BY <1>a, Zenon DEF QueueTypeOK
<1> SUFFICES QueueTypeOK' /\ Rest' /\ ServerTypeOK'
  BY <1>b
<1>n. now \in 0 .. MaxTime /\ MaxTime \in Nat /\ MaxFaults \in Nat /\ Null \notin Records
  BY <1>0, DeliveryAssumption DEF Times
<1>f. ASSUME faults < MaxFaults, faults' = faults + 1
      PROVE  faults' \in 0 .. MaxFaults
  BY <1>0, <1>n, <1>f
<1>q. UNCHANGED <<pending, window>> => QueueTypeOK'
  BY Zenon DEF QueueTypeOK, Prefix
<1>s. UNCHANGED server => ServerTypeOK'
  BY <1>0, Zenon DEF ServerTypeOK, server
<1>1. CASE Tick
  <2>1. now' \in Times
    BY <1>1, <1>n DEF Tick, Times
  <2> QED
    BY <1>1, <2>1, <1>0, <1>q, <1>s, Zenon DEF Tick, capture, sender
<1>2. CASE StartWindow
  BY <1>2, <1>0, <1>s, StartQueue, Zenon DEF StartWindow, capture
<1>3. CASE AckHead
  <2>1. QueueTypeOK' /\ window[1].entry \in Entries
    BY <1>3, AckQueue DEF AckHead
  <2>2. acked' \subseteq Entries
    BY <1>0, <1>3, <2>1 DEF AckHead
  <2> QED
    BY <1>3, <1>0, <1>s, <2>1, <2>2, Zenon DEF AckHead, capture
<1>4. CASE ClientRestart
  <2>1. QueueTypeOK'
    <3>1. window' = <<>> /\ pending' \in Seq(Entries)
      BY <1>4 DEF ClientRestart, QueueTypeOK
    <3>2. window' \in Seq(Slots) /\ Len(window') = 0 /\ Len(pending') \in Nat /\ Window \in Nat
      BY <3>1, EmptySeq, LenProperties, DeliveryAssumption
    <3> QED
      BY <3>1, <3>2 DEF QueueTypeOK, Prefix
  <2>2. late' \subseteq Entries
    <3>1. \A w \in Contents(window) : w.entry \in Entries
      BY SlotOf, Zenon DEF Contents
    <3>2. PICK S \in SUBSET {w \in Contents(window) : w.state = "sending"} :
            late' = late \cup {w.entry : w \in S}
      BY <1>4, Zenon DEF ClientRestart
    <3> QED
      BY <1>0, <3>1, <3>2
  <2> QED
    BY <1>4, <1>0, <1>f, <1>s, <2>1, <2>2, Zenon DEF ClientRestart, server
<1>5. CASE ExpireStale
  <2>1. ServerTypeOK'
    BY <1>5, ExpireEffect
  <2> QED
    BY <1>5, <1>0, <1>q, <2>1, Zenon DEF ExpireStale, capture, sender
<1>6. ASSUME NEW r \in Records, SubmitRecord(r)
      PROVE  QueueTypeOK' /\ Rest' /\ ServerTypeOK'
  <2>1. QueueTypeOK'
    BY <1>6, <1>0, EntryOf, AppendQueue DEF SubmitRecord
  <2>2. begun' \in [Records -> Times \cup {Null}]
    BY <1>6, <1>0 DEF SubmitRecord
  <2> QED
    BY <1>6, <1>0, <1>s, <2>1, <2>2, Zenon DEF SubmitRecord
<1>7. ASSUME NEW r \in Records, SubmitScreenshot(r)
      PROVE  QueueTypeOK' /\ Rest' /\ ServerTypeOK'
  <2>1. QueueTypeOK'
    BY <1>7, <1>0, EntryOf, AppendQueue DEF SubmitScreenshot
  <2> QED
    BY <1>7, <1>0, <1>s, <2>1, Zenon DEF SubmitScreenshot, capture
<1>8. ASSUME NEW r \in Records, CloseRecord(r)
      PROVE  QueueTypeOK' /\ Rest' /\ ServerTypeOK'
  <2>1. QueueTypeOK'
    BY <1>8, <1>0, EntryOf, AppendQueue DEF CloseRecord
  <2>2. ended' \in [Records -> Times \cup {Null}]
    BY <1>8, <1>0 DEF CloseRecord
  <2> QED
    BY <1>8, <1>0, <1>s, <2>1, <2>2, Zenon DEF CloseRecord
<1>9. ASSUME NEW i \in 1 .. Window, DropOversize(i)
      PROVE  QueueTypeOK' /\ Rest' /\ ServerTypeOK'
  <2>1. QueueTypeOK'
    BY <1>9, StateQueue DEF DropOversize
  <2> QED
    BY <1>9, <1>0, <1>s, <2>1, Zenon DEF DropOversize, capture
<1>10. ASSUME NEW i \in 1 .. Window, Send(i)
       PROVE  QueueTypeOK' /\ Rest' /\ ServerTypeOK'
  <2>1. QueueTypeOK'
    BY <1>10, StateQueue DEF Send
  <2> QED
    BY <1>10, <1>0, <1>s, <2>1, Zenon DEF Send, capture
<1>11. ASSUME NEW i \in 1 .. Window, Reply(i)
       PROVE  QueueTypeOK' /\ Rest' /\ ServerTypeOK'
  <2>1. QueueTypeOK'
    BY <1>11, StateQueue DEF Reply
  <2>2. ServerTypeOK'
    BY <1>11, SlotOf, ApplyEffect DEF Reply
  <2> QED
    BY <1>11, <1>0, <2>1, <2>2, Zenon DEF Reply, capture
<1>12. ASSUME NEW i \in 1 .. Window, Timeout(i)
       PROVE  QueueTypeOK' /\ Rest' /\ ServerTypeOK'
  <2>1. QueueTypeOK'
    BY <1>12, StateQueue DEF Timeout
  <2>2. late' \subseteq Entries
    <3>1. window[i].entry \in Entries
      BY <1>12, SlotOf DEF Timeout
    <3> QED
      BY <1>0, <1>12, <3>1 DEF Timeout
  <2> QED
    BY <1>12, <1>0, <1>f, <1>s, <2>1, <2>2, Zenon DEF Timeout, capture
<1>13. ASSUME NEW e \in late, ExecuteLate(e)
       PROVE  QueueTypeOK' /\ Rest' /\ ServerTypeOK'
  <2>1. ServerTypeOK'
    BY <1>13, <1>0, ApplyEffect DEF ExecuteLate
  <2>2. late' \subseteq Entries
    BY <1>13, <1>0 DEF ExecuteLate
  <2> QED
    BY <1>13, <1>0, <1>q, <2>1, <2>2, Zenon DEF ExecuteLate, capture
<1>14. CASE UNCHANGED vars
  BY <1>14, <1>0, <1>q, <1>s, Zenon DEF vars, capture, sender
<1> HIDE DEF Rest
<1> QED
  BY <1>1, <1>2, <1>3, <1>4, <1>5, <1>6, <1>7, <1>8, <1>9, <1>10, <1>11, <1>12, <1>13,
     <1>14, Zenon DEF Next, SenderStep

-----------------------------------------------------------------------------
(* The inductive invariant.                                                *)

(* What an entry carries is what the capture service stamped: one start    *)
(* and at most one end per record.                                         *)
Stamped ==
    {e \in Entries : /\ begun[e.rec] # Null
                     /\ e.kind = "record" => e.ts = begun[e.rec]
                     /\ e.kind = "close" => e.ts = ended[e.rec]}

Captured ==
    /\ \A i \in 1 .. Len(pending) : pending[i] \in Stamped
    /\ late \cup acked \subseteq Stamped
    /\ \A r \in Records : begun[r] = Null => ended[r] = Null
    /\ open # Null => begun[open] # Null /\ ended[open] = Null

(* The record entry of r is on the server, or among the first n pending.   *)
Announced(r, n) ==
    \/ start[r] # Null
    \/ \E j \in 1 .. n : pending[j].kind = "record" /\ pending[j].rec = r

Announcements ==
    /\ open # Null => Announced(open, Len(pending))
    /\ \A i \in 1 .. Len(pending) :
          pending[i].kind = "shot" => Announced(pending[i].rec, i)

(* A screenshot is on its way only when the row it belongs to exists.      *)
Grounded == {e \in Entries : e.kind = "shot" => start[e.rec] # Null}

InFlight ==
    /\ late \subseteq Grounded
    /\ \A i \in 1 .. Len(window) : window[i].state = "sending" => window[i].entry \in Grounded

(* What AckedIsApplied says of one entry; it also holds of the done ones.  *)
Applied ==
    {e \in Entries :
        /\ e.kind = "record" => start[e.rec] = e.ts
        /\ e.kind = "shot" => e.rec \in shot \cup Oversize
        /\ e.kind = "close" =>
              IF Plausible(begun[e.rec], e.ts) THEN end[e.rec] = e.ts ELSE end[e.rec] # Null}

DoneApplied == \A i \in 1 .. Len(window) : window[i].state = "done" => window[i].entry \in Applied

Typed == TypeOK /\ QueueTypeOK
OnServer == StartsAsCaptured /\ SpansBounded
OnWire == InFlight /\ DoneApplied /\ acked \subseteq Applied
DeliveryInv == Typed /\ OnServer /\ Captured /\ Announcements /\ OnWire

(* Executing stamped requests keeps rows, spans and what was applied.      *)
LEMMA EffectKeeps ==
    ASSUME Typed, OnServer, ServerTypeOK', NEW E \in SUBSET (Stamped \cap Grounded), Effect(E),
           UNCHANGED <<begun, ended>>
    PROVE  /\ OnServer'
           /\ \A r \in Records : start[r] # Null => start'[r] # Null
           /\ Stamped \subseteq Stamped' /\ Grounded \subseteq Grounded'
           /\ Stamped \cap Applied \subseteq Applied'
<1>0. /\ \A r \in Records : /\ start[r] \in Times \cup {Null} /\ end[r] \in Times \cup {Null}
                            /\ start'[r] \in Times \cup {Null} /\ end'[r] \in Times \cup {Null}
                            /\ begun[r] \in Times \cup {Null} /\ ended[r] \in Times \cup {Null}
      /\ \A e \in Entries : /\ e.rec \in Records /\ e.ts \in Times
                            /\ e.kind \in {"record", "shot", "close"}
      /\ Null \notin Times
  BY DeliveryAssumption DEF Typed, TypeOK, ServerTypeOK, Entries, Times
<1>1. \A r \in Records : start[r] # Null => start'[r] = start[r] /\ start[r] = begun[r]
  BY <1>0 DEF Effect, OnServer, StartsAsCaptured
<1>2. StartsAsCaptured'
  <2> SUFFICES ASSUME NEW r \in Records, start[r] = Null, start'[r] # Null
               PROVE  start'[r] = begun[r]
    BY <1>0, <1>1, Zenon DEF StartsAsCaptured
  <2>1. PICK e \in E : e.rec = r /\ e.kind \in {"record", "shot"} /\ start'[r] = e.ts
    BY DEF Effect
  <2> QED
    BY <2>1 DEF Stamped, Grounded
<1>3. ASSUME NEW r \in Records
      PROVE  \/ end'[r] = end[r]
             \/ end[r] = Null /\ start[r] # Null /\ Plausible(start[r], end'[r])
             \/ /\ start[r] # Null /\ ended[r] \in Times /\ Plausible(start[r], end'[r])
                /\ end'[r] \in Times
                /\ Plausible(start[r], ended[r]) => end'[r] = ended[r]
  <2>1. CASE \E e \in E : /\ e.kind = "close" /\ e.rec = r /\ start[r] # Null
                          /\ end'[r] = BoundedEnd(start[r], e.ts, end[r])
    <3>1. PICK e \in E : /\ e.kind = "close" /\ e.rec = r /\ start[r] # Null
                         /\ end'[r] = BoundedEnd(start[r], e.ts, end[r])
      BY <2>1
    <3>2. e.ts = ended[r] /\ e.ts \in Times /\ start[r] \in Times
      BY <1>0, <3>1 DEF Stamped
    <3> QED
      BY <1>0, <3>1, <3>2, BoundedEndShape
  <2> QED
    BY <2>1, Zenon DEF Effect
<1>4. SpansBounded'
  <2> SUFFICES ASSUME NEW r \in Records, end'[r] # Null
               PROVE  start'[r] # Null /\ Plausible(start'[r], end'[r])
    BY Zenon DEF SpansBounded, Plausible
  <2> QED
    BY <1>1, <1>3, Zenon DEF OnServer, SpansBounded
<1>5. ASSUME NEW e \in Entries, e \in Stamped, e \in Applied
      PROVE  e \in Applied'
  <2>1. CASE e.kind = "record"
    BY <1>0, <1>1, <1>5, <2>1 DEF Applied
  <2>2. CASE e.kind = "shot"
    BY <1>5, <2>2 DEF Applied, Effect
  <2>3. CASE e.kind = "close"
    <3>1. /\ e.rec \in Records /\ e.ts = ended[e.rec] /\ end[e.rec] # Null
          /\ begun'[e.rec] = begun[e.rec]
      BY <1>0, <1>5, <2>3 DEF Applied, Stamped
    <3>2. CASE end'[e.rec] = end[e.rec]
      BY <1>5, <2>3, <3>1, <3>2 DEF Applied, Plausible
    <3>3. CASE end'[e.rec] # end[e.rec]
      <4>1. /\ start[e.rec] # Null /\ start[e.rec] = begun[e.rec]
            /\ end'[e.rec] \in Times
            /\ Plausible(start[e.rec], ended[e.rec]) => end'[e.rec] = ended[e.rec]
        BY <1>1, <1>3, <3>1, <3>3, Zenon
      <4> QED
        BY <1>0, <2>3, <3>1, <4>1 DEF Applied, Plausible
    <3> QED
      BY <3>2, <3>3
  <2> QED
    BY <1>0, <2>1, <2>2, <2>3
<1>6. Stamped \subseteq Stamped'
  BY Zenon DEF Stamped
<1>7. Grounded \subseteq Grounded'
  BY <1>0, <1>1 DEF Grounded
<1> QED
  BY <1>0, <1>1, <1>2, <1>4, <1>5, <1>6, <1>7 DEF OnServer, Stamped

(* A request that is answered with success is applied.                     *)
LEMMA SuccessApplies ==
    ASSUME Typed, OnServer, NEW e \in Stamped \cap Grounded,
           Apply(e), Succeeds(e), UNCHANGED <<begun, ended>>
    PROVE  e \in Applied'
<1>a. e.rec \in Records /\ e.ts \in Times /\ e.kind \in {"record", "shot", "close"}
  BY DEF Entries, Stamped
<1>b. start \in [Records -> Times \cup {Null}] /\ end \in [Records -> Times \cup {Null}]
  BY DEF Typed, TypeOK
<1>0. /\ e.rec \in Records /\ e.ts \in Times /\ e.kind \in {"record", "shot", "close"}
      /\ start[e.rec] \in Times \cup {Null} /\ end[e.rec] \in Times \cup {Null}
      /\ Null \notin Times
  <2>1. Null \notin Times
    BY DeliveryAssumption DEF Times
  <2> QED
    BY <1>a, <1>b, <2>1
<1>e. e \in Entries
  BY DEF Stamped
<1>1. TypeOK
  BY DEF Typed
<1>2. /\ ServerTypeOK' /\ Effect({e})
      /\ e.kind \in {"record", "shot"} => start'[e.rec] # Null
      /\ e.kind = "shot" => e.rec \in shot'
      /\ e.kind = "close" /\ start[e.rec] # Null =>
            end'[e.rec] = BoundedEnd(start[e.rec], e.ts, end[e.rec])
  BY <1>1, <1>e, ApplyEffect
<1>3. StartsAsCaptured'
  BY <1>2, EffectKeeps DEF OnServer
<1>4. CASE e.kind = "record"
  BY <1>0, <1>e, <1>2, <1>3, <1>4 DEF Applied, StartsAsCaptured, Stamped
<1>5. CASE e.kind = "shot"
  BY <1>2, <1>5, <1>e DEF Applied
<1>6. CASE e.kind = "close"
  <2>1. start[e.rec] # Null /\ start[e.rec] = begun[e.rec] /\ begun'[e.rec] = begun[e.rec]
    BY <1>0, <1>6 DEF Succeeds, OnServer, StartsAsCaptured
  <2>2. end'[e.rec] = BoundedEnd(start[e.rec], e.ts, end[e.rec])
    BY <1>2, <1>6, <2>1
  <2> QED
    BY <1>0, <1>e, <1>6, <2>1, <2>2, BoundedEndShape DEF Applied, Plausible
<1> QED
  BY <1>0, <1>4, <1>5, <1>6

(* Every entry of the outbox and of the window is a stamped one.           *)
LEMMA EntryFacts ==
    ASSUME Typed, Captured
    PROVE  /\ Len(window) \in Nat /\ Len(pending) \in Nat
           /\ \A i \in 1 .. Len(pending) : pending[i] \in Entries
           /\ \A i \in 1 .. Len(window) : /\ i \in 1 .. Len(pending)
                                          /\ window[i].entry = pending[i]
                                          /\ window[i].entry \in Stamped
                                          /\ window[i].state \in {"wait", "sending", "done"}
<1>1. /\ pending \in Seq(Entries) /\ window \in Seq(Slots)
      /\ Len(window) \in Nat /\ Len(pending) \in Nat /\ Len(window) <= Len(pending)
      /\ \A i \in 1 .. Len(window) : window[i].entry = pending[i]
  BY LenProperties DEF Typed, QueueTypeOK, Prefix
<1>2. \A i \in 1 .. Len(pending) : pending[i] \in Entries /\ pending[i] \in Stamped
  BY <1>1, ElementOfSeq DEF Captured
<1>3. \A i \in 1 .. Len(window) : i \in 1 .. Len(pending)
  BY <1>1
<1>4. \A i \in 1 .. Len(window) : window[i].state \in {"wait", "sending", "done"}
  <2>1. \A i \in 1 .. Len(window) : window[i] \in Slots
    BY <1>1, ElementOfSeq
  <2> QED
    BY <2>1 DEF Slots
<1> QED
  BY <1>1, <1>2, <1>3, <1>4

(* A step of the sender, the network or the server that executes E.        *)
LEMMA DrainKeeps ==
    ASSUME DeliveryInv, ServerTypeOK', NEW E \in SUBSET (Stamped \cap Grounded), Effect(E),
           UNCHANGED <<begun, ended>>, open' \in {open, Null},
           \A i \in 1 .. Len(pending') : \E j \in 1 .. Len(pending) : pending'[i] = pending[j],
           \A e \in late' : \/ e \in late
                            \/ \E i \in 1 .. Len(window) : /\ window[i].state = "sending"
                                                           /\ window[i].entry = e,
           \A e \in acked' : \/ e \in acked
                             \/ \E i \in 1 .. Len(window) : /\ window[i].state = "done"
                                                            /\ window[i].entry = e,
           \A i \in 1 .. Len(window') :
              \/ window'[i].state = "wait"
              \/ \E j \in 1 .. Len(window) :
                    /\ window'[i].entry = window[j].entry
                    /\ window'[i].state = "sending" =>
                          window[j].state = "sending" \/ window[j].entry \in Grounded
                    /\ window'[i].state = "done" =>
                          window[j].state = "done" \/ window[j].entry \in Applied'
    PROVE  OnServer' /\ Captured' /\ OnWire'
<1> USE DEF DeliveryInv
<1>1. /\ OnServer'
      /\ Stamped \subseteq Stamped' /\ Grounded \subseteq Grounded'
      /\ Stamped \cap Applied \subseteq Applied'
  BY EffectKeeps
<1>2. /\ \A i \in 1 .. Len(pending) : pending[i] \in Stamped
      /\ late \cup acked \subseteq Stamped
  BY Zenon DEF Captured
<1>3. \A i \in 1 .. Len(window) : window[i].entry \in Stamped
  BY EntryFacts
<1>4. /\ late \subseteq Grounded /\ acked \subseteq Applied
      /\ \A i \in 1 .. Len(window) :
            /\ window[i].state = "sending" => window[i].entry \in Grounded
            /\ window[i].state = "done" => window[i].entry \in Applied
  BY Zenon DEF OnWire, InFlight, DoneApplied
<1>5. Captured'
  <2>1. \A i \in 1 .. Len(pending') : pending'[i] \in Stamped'
    BY <1>1, <1>2
  <2>2. late' \cup acked' \subseteq Stamped'
    BY <1>1, <1>2, <1>3
  <2>3. \A r \in Records : begun'[r] = Null => ended'[r] = Null
    BY Zenon DEF Captured
  <2>4. open' # Null => begun'[open'] # Null /\ ended'[open'] = Null
    BY Zenon DEF Captured
  <2> QED
    BY <2>1, <2>2, <2>3, <2>4, Zenon DEF Captured
<1>6. late' \subseteq Grounded'
  BY <1>1, <1>4
<1>7. acked' \subseteq Applied'
  BY <1>1, <1>2, <1>3, <1>4
<1>8. ASSUME NEW i \in 1 .. Len(window')
      PROVE  /\ window'[i].state = "sending" => window'[i].entry \in Grounded'
             /\ window'[i].state = "done" => window'[i].entry \in Applied'
  <2>1. CASE window'[i].state = "wait"
    BY <2>1
  <2>2. CASE \E j \in 1 .. Len(window) :
                /\ window'[i].entry = window[j].entry
                /\ window'[i].state = "sending" =>
                      window[j].state = "sending" \/ window[j].entry \in Grounded
                /\ window'[i].state = "done" =>
                      window[j].state = "done" \/ window[j].entry \in Applied'
    BY <2>2, <1>1, <1>3, <1>4, Zenon
  <2> QED
    BY <2>1, <2>2
<1> QED
  BY <1>1, <1>5, <1>6, <1>7, <1>8, Zenon DEF OnWire, InFlight, DoneApplied

LEMMA AnnouncementsStay ==
    ASSUME DeliveryInv, UNCHANGED pending, open' \in {open, Null}, NEW E, Effect(E)
    PROVE  Announcements'
<1>1. \A r \in Records : start[r] # Null => start'[r] # Null
  BY DEF Effect
<1>2. open \in Records \cup {Null} /\ \A i \in 1 .. Len(pending) : pending[i].rec \in Records
  <2>1. \A i \in 1 .. Len(pending) : pending[i] \in Entries
    BY EntryFacts DEF DeliveryInv
  <2> QED
    BY <2>1 DEF Entries, DeliveryInv, Typed, TypeOK
<1> QED
  BY <1>1, <1>2 DEF DeliveryInv, Announcements, Announced

(* A step of the capture service that appends e.                           *)
LEMMA AppendKeeps ==
    ASSUME DeliveryInv, UNCHANGED <<server, window, late, acked>>,
           \A r \in Records : begun[r] # Null => begun'[r] = begun[r],
           Stamped \subseteq Stamped',
           NEW e \in Entries, e \in Stamped', pending' = Append(pending, e),
           \A r \in Records : begun'[r] = Null => ended'[r] = Null,
           open' # Null => begun'[open'] # Null /\ ended'[open'] = Null,
           open' # Null => open' = open \/ (e.kind = "record" /\ e.rec = open'),
           e.kind = "shot" => open # Null /\ e.rec = open
    PROVE  OnServer' /\ Captured' /\ Announcements' /\ OnWire'
<1> USE DEF DeliveryInv
<1>0. /\ Len(pending) \in Nat
      /\ Len(pending') = Len(pending) + 1 /\ pending'[Len(pending) + 1] = e
      /\ \A i \in 1 .. Len(pending) : pending'[i] = pending[i]
      /\ \A i \in 1 .. Len(pending) : pending[i] \in Entries
  BY EntryFacts, AppendQueue DEF Typed
<1>1. UNCHANGED <<start, end, shot>>
  BY DEF server
<1>2. \A r \in Records : start[r] # Null => begun[r] # Null /\ start[r] = begun[r]
  BY Zenon DEF OnServer, StartsAsCaptured
<1>3. OnServer'
  BY <1>1, <1>2, Zenon DEF OnServer, StartsAsCaptured, SpansBounded, Plausible
<1>4. Grounded' = Grounded
  BY <1>1, Zenon DEF Grounded
<1>5. Stamped \cap Applied \subseteq Applied'
  <2>1. \A d \in Stamped : d.rec \in Records /\ begun'[d.rec] = begun[d.rec]
    BY DEF Stamped, Entries
  <2> QED
    BY <1>1, <2>1 DEF Applied, Plausible
<1>6. Captured'
  <2>1. \A i \in 1 .. Len(pending') : pending'[i] \in Stamped'
    <3>1. \A i \in 1 .. Len(pending) : pending[i] \in Stamped'
      BY Zenon DEF Captured
    <3> QED
      BY <1>0, <3>1
  <2>2. late' \cup acked' \subseteq Stamped'
    BY DEF Captured
  <2> QED
    BY <2>1, <2>2, Zenon DEF Captured
<1>7. Announcements'
  <2>1. open # Null => \/ start'[open] # Null
                       \/ \E j \in 1 .. Len(pending) : /\ pending'[j].kind = "record"
                                                       /\ pending'[j].rec = open
    BY <1>0, <1>1 DEF Announcements, Announced
  <2>2. Len(pending) + 1 \in 1 .. Len(pending') /\ 1 .. Len(pending) \subseteq 1 .. Len(pending')
    BY <1>0
  <2>3. ASSUME open' # Null
        PROVE  \/ start'[open'] # Null
               \/ \E j \in 1 .. Len(pending') : /\ pending'[j].kind = "record"
                                                /\ pending'[j].rec = open'
    BY <1>0, <2>1, <2>2, <2>3
  <2>4. ASSUME NEW i \in 1 .. Len(pending'), pending'[i].kind = "shot"
        PROVE  \/ start'[pending'[i].rec] # Null
               \/ \E j \in 1 .. i : /\ pending'[j].kind = "record"
                                    /\ pending'[j].rec = pending'[i].rec
    <3>1. CASE i = Len(pending) + 1
      BY <1>0, <2>1, <2>4, <3>1
    <3>2. CASE i \in 1 .. Len(pending)
      <4>1. \/ start[pending[i].rec] # Null
            \/ \E j \in 1 .. i : pending[j].kind = "record" /\ pending[j].rec = pending[i].rec
        BY <1>0, <2>4, <3>2 DEF Announcements, Announced
      <4>2. 1 .. i \subseteq 1 .. Len(pending)
        BY <1>0, <3>2
      <4> QED
        BY <1>0, <1>1, <3>2, <4>1, <4>2
    <3> QED
      BY <1>0, <3>1, <3>2
  <2> QED
    BY <2>3, <2>4, Zenon DEF Announcements, Announced
<1>8. OnWire'
  <2>1. acked' \subseteq Applied' /\ late' \subseteq Grounded'
    BY <1>4, <1>5 DEF OnWire, InFlight, Captured
  <2>2. \A i \in 1 .. Len(window) : window[i].entry \in Stamped
    BY EntryFacts
  <2>3. /\ \A i \in 1 .. Len(window') :
              window'[i].state = "sending" => window'[i].entry \in Grounded'
        /\ \A i \in 1 .. Len(window') :
              window'[i].state = "done" => window'[i].entry \in Applied'
    BY <1>4, <1>5, <2>2, Zenon DEF OnWire, InFlight, DoneApplied
  <2> QED
    BY <2>1, <2>3, Zenon DEF OnWire, InFlight, DoneApplied
<1> QED
  BY <1>3, <1>6, <1>7, <1>8

LEMMA InitInv == Init => DeliveryInv
<1> SUFFICES ASSUME Init PROVE DeliveryInv
  OBVIOUS
<1>1. Typed
  BY InitType DEF Typed
<1>2. Len(pending) = 0 /\ Len(window) = 0
  BY EmptySeq DEF Init
<1>3. OnServer
  BY Zenon DEF Init, OnServer, StartsAsCaptured, SpansBounded
<1>4. Captured /\ Announcements /\ OnWire
  BY <1>2 DEF Init, Captured, Announcements, OnWire, InFlight, DoneApplied
<1> QED
  BY <1>1, <1>3, <1>4 DEF DeliveryInv

LEMMA StepInv == DeliveryInv /\ [Next]_vars => DeliveryInv'
<1> SUFFICES ASSUME DeliveryInv, [Next]_vars PROVE DeliveryInv'
  OBVIOUS
<1> DEFINE Goal == OnServer' /\ Captured' /\ Announcements' /\ OnWire'
<1>t. Typed'
  BY StepType DEF DeliveryInv, Typed
<1> SUFFICES Goal
  BY <1>t DEF DeliveryInv
<1>0. Typed /\ TypeOK /\ QueueTypeOK /\ Captured
  BY DEF DeliveryInv, Typed
<1>i. UNCHANGED server => ServerTypeOK' /\ Effect({})
  BY <1>0, IdleEffect
<1>w. \A i \in 1 .. Len(window) : /\ i \in 1 .. Len(pending)
                                  /\ window[i].entry = pending[i]
                                  /\ window[i].entry \in Stamped
  BY <1>0, EntryFacts
<1>l. \A i \in DOMAIN window : i \in 1 .. Len(window)
  BY <1>0, SlotOf
<1>a. late \subseteq Stamped \cap Grounded
  BY DEF DeliveryInv, OnWire, InFlight, Captured
<1>1. CASE Tick
  BY <1>1, <1>i, DrainKeeps, AnnouncementsStay DEF Tick, capture, sender
<1>2. CASE StartWindow
  <2>1. \A i \in 1 .. Len(window') : window'[i].state = "wait"
    BY <1>0, <1>2, StartQueue
  <2> QED
    BY <1>2, <1>i, <2>1, DrainKeeps, AnnouncementsStay DEF StartWindow, capture
<1>3. CASE AckHead
  <2>1. /\ pending # <<>> /\ pending[1] = window[1].entry
        /\ Len(pending') = Len(pending) - 1 /\ Len(window') = Len(window) - 1
        /\ \A i \in 1 .. Len(pending') : pending'[i] = pending[i + 1]
        /\ \A i \in 1 .. Len(window') : window'[i] = window[i + 1]
    BY <1>0, <1>3, AckQueue DEF AckHead
  <2>2. /\ Len(pending) \in Nat /\ Len(window) \in Nat /\ Len(window) # 0
        /\ 1 \in 1 .. Len(window) /\ window[1].state = "done"
        /\ \A i \in 1 .. Len(pending) : pending[i] \in Entries
    <3>1. Len(window) # 0
      BY <1>0, <1>3, EmptySeq DEF AckHead, QueueTypeOK
    <3> QED
      BY <1>0, <1>3, <3>1, EntryFacts DEF AckHead
  <2>3. /\ \A i \in 1 .. Len(pending') : i + 1 \in 1 .. Len(pending)
        /\ \A i \in 1 .. Len(window') : i + 1 \in 1 .. Len(window)
    BY <2>1, <2>2
  <2>4. /\ UNCHANGED <<begun, ended, open, late, server>>
        /\ acked' = acked \cup {window[1].entry}
    BY <1>3 DEF AckHead, capture
  <2>5. OnServer' /\ Captured' /\ OnWire'
    BY <1>i, <2>1, <2>2, <2>3, <2>4, DrainKeeps
  <2>6. UNCHANGED start
    BY <2>4 DEF server
  <2>7. pending[1].kind = "record" => start[pending[1].rec] # Null
    <3>1. pending[1] \in Applied /\ pending[1] \in Entries
      BY <1>0, <1>w, <2>1, <2>2, Zenon DEF DeliveryInv, OnWire, DoneApplied
    <3> QED
      BY <3>1, DeliveryAssumption DEF Applied, Entries, Times
  <2>8. ASSUME NEW n \in 1 .. Len(pending), NEW r \in Records, Announced(r, n)
        PROVE  \/ start'[r] # Null
               \/ \E j \in 1 .. n - 1 : pending'[j].kind = "record" /\ pending'[j].rec = r
    <3>1. CASE start[r] # Null
      BY <2>6, <3>1
    <3>2. CASE start[r] = Null
      <4>1. PICK j \in 1 .. n : pending[j].kind = "record" /\ pending[j].rec = r
        BY <2>8, <3>2 DEF Announced
      <4>2. j # 1
        BY <2>7, <3>2, <4>1
      <4>3. j - 1 \in 1 .. n - 1 /\ j - 1 \in 1 .. Len(pending') /\ (j - 1) + 1 = j
        BY <2>1, <2>2, <4>2
      <4>4. pending'[j - 1] = pending[j]
        BY <2>1, <4>3
      <4> QED
        BY <4>1, <4>3, <4>4
    <3> QED
      BY <3>1, <3>2
  <2>9. Announcements'
    <3>1. ASSUME open' # Null
          PROVE  \/ start'[open'] # Null
                 \/ \E j \in 1 .. Len(pending') : /\ pending'[j].kind = "record"
                                                  /\ pending'[j].rec = open'
      <4>1. open \in Records /\ Announced(open, Len(pending)) /\ open' = open
        BY <1>0, <2>4, <3>1 DEF DeliveryInv, Announcements, TypeOK
      <4>2. Len(pending) \in 1 .. Len(pending)
        BY <2>2, <2>3, <1>w
      <4> QED
        BY <2>1, <2>8, <4>1, <4>2
    <3>2. ASSUME NEW i \in 1 .. Len(pending'), pending'[i].kind = "shot"
          PROVE  \/ start'[pending'[i].rec] # Null
                 \/ \E j \in 1 .. i : /\ pending'[j].kind = "record"
                                      /\ pending'[j].rec = pending'[i].rec
      <4>1. pending'[i] = pending[i + 1] /\ i + 1 \in 1 .. Len(pending) /\ (i + 1) - 1 = i
        BY <2>1, <2>3
      <4>2. Announced(pending[i + 1].rec, i + 1) /\ pending[i + 1].rec \in Records
        BY <2>2, <3>2, <4>1 DEF DeliveryInv, Announcements, Entries
      <4>3. \/ start'[pending[i + 1].rec] # Null
            \/ \E j \in 1 .. (i + 1) - 1 : /\ pending'[j].kind = "record"
                                           /\ pending'[j].rec = pending[i + 1].rec
        <5> HIDE DEF Announced
        <5> QED
          BY <2>8, <4>1, <4>2, Zenon
      <4>4. 1 .. (i + 1) - 1 = 1 .. i
        BY <4>1
      <4> QED
        BY <4>1, <4>3, <4>4
    <3> QED
      BY <3>1, <3>2, Zenon DEF Announcements, Announced
  <2> QED
    BY <2>5, <2>9
<1>4. CASE ClientRestart
  <2>1. Len(window') = 0
    BY <1>4, EmptySeq DEF ClientRestart
  <2>2. ASSUME NEW e \in late', e \notin late
        PROVE  \E i \in 1 .. Len(window) : window[i].state = "sending" /\ window[i].entry = e
    <3>1. PICK S \in SUBSET {w \in Contents(window) : w.state = "sending"} :
            late' = late \cup {w.entry : w \in S}
      BY <1>4, Zenon DEF ClientRestart
    <3>2. PICK w \in Contents(window) : w.state = "sending" /\ w.entry = e
      BY <2>2, <3>1, Zenon
    <3> QED
      BY <1>l, <3>2, Zenon DEF Contents
  <2> QED
    BY <1>4, <1>i, <2>1, <2>2, DrainKeeps, AnnouncementsStay DEF ClientRestart
<1>5. CASE ExpireStale
  <2>1. ServerTypeOK' /\ Effect({})
    BY <1>0, <1>5, ExpireEffect
  <2> QED
    BY <1>5, <2>1, DrainKeeps, AnnouncementsStay DEF ExpireStale, capture, sender
<1>n. /\ now \in Times /\ now # Null /\ open \in Records \cup {Null}
      /\ begun \in [Records -> Times \cup {Null}] /\ ended \in [Records -> Times \cup {Null}]
      /\ Null \notin Times
  BY <1>0, DeliveryAssumption DEF TypeOK, Times
<1>c. /\ \A r \in Records : begun[r] = Null => ended[r] = Null
      /\ open # Null => begun[open] # Null /\ ended[open] = Null
  BY <1>0 DEF Captured
<1>6. ASSUME NEW r \in Records, SubmitRecord(r) PROVE Goal
  <2> DEFINE e == Entry("record", r, now)
  <2>1. /\ open = Null /\ begun[r] = Null /\ open' = r
        /\ begun' = [begun EXCEPT ![r] = now] /\ ended' = ended
        /\ pending' = Append(pending, e)
        /\ UNCHANGED <<server, window, late, acked>>
    BY <1>6 DEF SubmitRecord
  <2>2. begun'[r] = now /\ \A m \in Records : m # r => begun'[m] = begun[m]
    BY <1>n, <2>1
  <2>3. e \in Entries /\ e.rec = r /\ e.kind = "record" /\ e.ts = now
    BY <1>n, EntryOf DEF Entry
  <2>4. Stamped \subseteq Stamped' /\ e \in Stamped'
    BY <1>n, <2>1, <2>2, <2>3 DEF Stamped, Entries
  <2> HIDE DEF e
  <2>5. /\ \A m \in Records : begun[m] # Null => begun'[m] = begun[m]
        /\ \A m \in Records : begun'[m] = Null => ended'[m] = Null
        /\ begun'[open'] # Null /\ ended'[open'] = Null
    BY <1>n, <1>c, <2>1, <2>2
  <2> QED
    BY <2>1, <2>3, <2>4, <2>5, AppendKeeps
<1>7. ASSUME NEW r \in Records, SubmitScreenshot(r) PROVE Goal
  <2> DEFINE e == Entry("shot", r, now)
  <2>1. /\ open = r /\ UNCHANGED <<open, begun, ended>>
        /\ pending' = Append(pending, e)
        /\ UNCHANGED <<server, window, late, acked>>
    BY <1>7 DEF SubmitScreenshot, capture
  <2>2. e \in Entries /\ e.rec = r /\ e.kind = "shot"
    BY <1>n, EntryOf DEF Entry
  <2>3. r # Null
    BY DeliveryAssumption
  <2>4. Stamped' = Stamped /\ e \in Stamped
    BY <1>c, <2>1, <2>2, <2>3 DEF Stamped
  <2> HIDE DEF e
  <2> QED
    BY <1>c, <2>1, <2>2, <2>3, <2>4, AppendKeeps
<1>8. ASSUME NEW r \in Records, CloseRecord(r) PROVE Goal
  <2> DEFINE e == Entry("close", r, now)
  <2>1. /\ open = r /\ open' = Null /\ UNCHANGED begun
        /\ ended' = [ended EXCEPT ![r] = now]
        /\ pending' = Append(pending, e)
        /\ UNCHANGED <<server, window, late, acked>>
    BY <1>8 DEF CloseRecord
  <2>2. ended'[r] = now /\ \A m \in Records : m # r => ended'[m] = ended[m]
    BY <1>n, <2>1
  <2>3. e \in Entries /\ e.rec = r /\ e.kind = "close" /\ e.ts = now
    BY <1>n, EntryOf DEF Entry
  <2>4. begun[r] # Null /\ ended[r] = Null
    BY <1>c, <2>1, DeliveryAssumption
  <2>5. Stamped \subseteq Stamped' /\ e \in Stamped'
    BY <1>n, <2>1, <2>2, <2>3, <2>4 DEF Stamped, Entries
  <2> HIDE DEF e
  <2>6. \A m \in Records : begun'[m] = Null => ended'[m] = Null
    BY <1>c, <2>1, <2>2, <2>4
  <2> QED
    BY <2>1, <2>3, <2>5, <2>6, AppendKeeps
<1>s. ASSUME NEW i \in DOMAIN window, NEW s \in {"wait", "sending", "done"}, SetState(i, s)
      PROVE  /\ i \in 1 .. Len(window) /\ Len(window') = Len(window)
             /\ \A j \in 1 .. Len(window) :
                   /\ window'[j].entry = window[j].entry
                   /\ window'[j].state = IF j = i THEN s ELSE window[j].state
  BY <1>0, <1>l, <1>s, SetStateShape
<1>9. ASSUME NEW i \in 1 .. Window, DropOversize(i) PROVE Goal
  <2>1. window[i].entry \in Applied'
    BY <1>9, <1>w, <1>l DEF DropOversize, Dropped, Applied, Stamped
  <2>2. i \in DOMAIN window /\ SetState(i, "done") /\ UNCHANGED <<capture, pending, late, acked, server>>
    BY <1>9 DEF DropOversize
  <2> QED
    BY <1>i, <1>s, <2>1, <2>2, DrainKeeps, AnnouncementsStay DEF capture
<1>10. ASSUME NEW i \in 1 .. Window, Send(i) PROVE Goal
  <2>1. /\ i \in DOMAIN window /\ Ready(i) /\ SetState(i, "sending")
        /\ UNCHANGED <<capture, pending, late, acked, server>>
    BY <1>10 DEF Send
  <2>2. window[i].entry \in Grounded
    <3> SUFFICES ASSUME window[i].entry.kind = "shot", start[window[i].entry.rec] = Null
                 PROVE  FALSE
      BY <1>w, <1>l, <2>1 DEF Grounded, Stamped
    <3>1. PICK j \in 1 .. i : /\ pending[j].kind = "record"
                             /\ pending[j].rec = window[i].entry.rec
      BY <1>w, <1>l, <2>1 DEF DeliveryInv, Announcements, Announced
    <3>2. j # i /\ j \in 1 .. i - 1 /\ j \in 1 .. Len(window)
      BY <1>0, <1>w, <1>l, <2>1, <3>1, EntryFacts
    <3>3. window[j].entry = pending[j] /\ window[j].state = "done"
      BY <1>w, <2>1, <3>1, <3>2 DEF Ready
    <3>4. pending[j] \in Applied
      BY <3>2, <3>3, Zenon DEF DeliveryInv, OnWire, DoneApplied
    <3> QED
      BY <3>1, <3>4, DeliveryAssumption DEF Applied, Entries, Times
  <2> QED
    BY <1>i, <1>s, <2>1, <2>2, DrainKeeps, AnnouncementsStay DEF capture
<1>11. ASSUME NEW i \in 1 .. Window, Reply(i) PROVE Goal
  <2> DEFINE e == window[i].entry
  <2>1. /\ i \in DOMAIN window /\ window[i].state = "sending" /\ Apply(e)
        /\ SetState(i, IF Succeeds(e) THEN "done" ELSE "wait")
        /\ UNCHANGED <<begun, ended, open, pending, late, acked>>
    BY <1>11 DEF Reply, capture
  <2>2. e \in Stamped \cap Grounded /\ e \in Entries
    BY <1>w, <1>l, <2>1 DEF DeliveryInv, OnWire, InFlight, Stamped
  <2>3. ServerTypeOK' /\ Effect({e})
    BY <1>0, <2>1, <2>2, ApplyEffect
  <2>4. Succeeds(e) => e \in Applied'
    BY <1>0, <2>1, <2>2, SuccessApplies DEF DeliveryInv
  <2>5. /\ Len(window') = Len(window)
        /\ \A j \in 1 .. Len(window) :
              /\ window'[j].entry = window[j].entry
              /\ window'[j].state = IF j # i THEN window[j].state
                                    ELSE IF Succeeds(e) THEN "done" ELSE "wait"
    BY <1>s, <2>1
  <2>6. \A j \in 1 .. Len(window') :
           \/ window'[j].state = "wait"
           \/ \E k \in 1 .. Len(window) :
                 /\ window'[j].entry = window[k].entry
                 /\ window'[j].state = "sending" => window[k].state = "sending"
                 /\ window'[j].state = "done" =>
                       window[k].state = "done" \/ window[k].entry \in Applied'
    BY <2>4, <2>5
  <2> HIDE DEF e
  <2>7. OnServer' /\ Captured' /\ OnWire'
    BY <2>1, <2>2, <2>3, <2>6, DrainKeeps
  <2>8. Announcements'
    BY <2>1, <2>3, AnnouncementsStay
  <2> QED
    BY <2>7, <2>8
<1>12. ASSUME NEW i \in 1 .. Window, Timeout(i) PROVE Goal
  <2>1. /\ i \in DOMAIN window /\ window[i].state = "sending" /\ SetState(i, "wait")
        /\ late' \subseteq late \cup {window[i].entry}
        /\ UNCHANGED <<capture, pending, acked, server>>
    BY <1>12 DEF Timeout
  <2> QED
    BY <1>i, <1>l, <1>s, <2>1, DrainKeeps, AnnouncementsStay DEF capture
<1>13. ASSUME NEW e \in late, ExecuteLate(e) PROVE Goal
  <2>1. e \in Entries /\ e \in Stamped \cap Grounded
    BY <1>a DEF Stamped
  <2>2. ServerTypeOK' /\ Effect({e})
    BY <1>0, <1>13, <2>1, ApplyEffect DEF ExecuteLate
  <2>3. /\ late' \subseteq late
        /\ UNCHANGED <<capture, pending, window, acked>>
    BY <1>13 DEF ExecuteLate
  <2> QED
    BY <2>1, <2>2, <2>3, DrainKeeps, AnnouncementsStay DEF capture
<1>14. CASE UNCHANGED vars
  BY <1>14, <1>i, DrainKeeps, AnnouncementsStay DEF vars, capture, sender
<1> HIDE DEF Goal
<1> QED
  BY <1>1, <1>2, <1>3, <1>4, <1>5, <1>6, <1>7, <1>8, <1>9, <1>10, <1>11, <1>12, <1>13,
     <1>14, Zenon DEF Next, SenderStep

-----------------------------------------------------------------------------
(* Bars that do not overlap while records arrive in order.                 *)

(* The clock of the capture service: a record ends before the next begins. *)
CaptureTimes ==
    /\ \A r \in Records : begun[r] # Null => begun[r] <= now
    /\ \A r \in Records : ended[r] # Null => ended[r] <= now
    /\ open # Null => \A m \in Records : begun[m] # Null => begun[m] <= begun[open]
    /\ \A r, m \in Records :
          ended[r] # Null /\ begun[m] # Null /\ begun[r] < begun[m] => ended[r] <= begun[m]

(* An end on the server is the client's own, or some record's start.       *)
EndSource ==
    \A r \in Records : end[r] # Null => \/ end[r] = ended[r]
                                        \/ \E m \in Records : start[m] = end[r]

TimelineInv == CaptureTimes /\ EndSource /\ NoOverlapInOrder

LEMMA Values ==
    ASSUME DeliveryInv
    PROVE  /\ \A r \in Records : /\ start[r] \in Times \cup {Null} /\ end[r] \in Times \cup {Null}
                                 /\ begun[r] \in Times \cup {Null} /\ ended[r] \in Times \cup {Null}
                                 /\ start[r] # Null => start[r] = begun[r]
                                 /\ end[r] # Null => start[r] # Null
           /\ now \in Times /\ open \in Records \cup {Null}
           /\ Null \notin Times /\ Times \subseteq Nat /\ Bridge \in Nat
           /\ overtaken \in BOOLEAN
<1>1. /\ start \in [Records -> Times \cup {Null}] /\ end \in [Records -> Times \cup {Null}]
      /\ begun \in [Records -> Times \cup {Null}] /\ ended \in [Records -> Times \cup {Null}]
      /\ now \in Times /\ open \in Records \cup {Null} /\ overtaken \in BOOLEAN
  BY DEF DeliveryInv, Typed, TypeOK
<1>2. Null \notin Times /\ Times \subseteq Nat /\ Bridge \in Nat
  BY DeliveryAssumption DEF Times
<1>3. \A r \in Records : /\ start[r] # Null => start[r] = begun[r]
                         /\ end[r] # Null => start[r] # Null
  BY Zenon DEF DeliveryInv, OnServer, StartsAsCaptured, SpansBounded
<1> QED
  BY <1>1, <1>2, <1>3

(* Where an orphan's end comes from: no later start lies before it.        *)
LEMMA BoundarySource ==
    ASSUME DeliveryInv, NEW r \in Records, start[r] # Null,
           NEW tail \in Times \cup {Null}, tail # Null => start[r] < tail
    PROVE  /\ \/ Boundary(r, tail) = tail
              \/ \E m \in Records : start[m] = Boundary(r, tail)
           /\ \A m \in Records :
                 start[m] # Null /\ start[r] < start[m] /\ (tail # Null => start[m] <= tail)
                    => Boundary(r, tail) <= start[m]
<1> DEFINE ns == {m \in Records : start[m] # Null /\ start[m] > start[r]
                                    /\ start[m] - start[r] <= Bridge}
           nexts == {start[n] : n \in ns}
<1>0. /\ \A m \in Records : start[m] \in Times \cup {Null}
      /\ start[r] \in Nat /\ Null \notin Times /\ Times \subseteq Nat /\ Bridge \in Nat
  BY Values
<1>1. CASE nexts # {}
  <2>1. nexts \in SUBSET Nat
    BY <1>0
  <2>2. Least(nexts) \in nexts /\ \A y \in nexts : Least(nexts) <= y
    <3> HIDE DEF nexts
    <3> QED
      BY <1>1, <2>1, LeastOfNats
  <2>3. Boundary(r, tail) = Least(nexts)
    BY <1>1, Zenon DEF Boundary
  <2>4. PICK n \in ns : start[n] = Least(nexts)
    BY <2>2
  <2>5. n \in Records /\ start[n] \in Nat /\ start[n] - start[r] <= Bridge
    BY <1>0, <2>4
  <2>6. ASSUME NEW m \in Records, start[m] # Null, start[r] < start[m]
        PROVE  Boundary(r, tail) <= start[m]
    <3>1. start[m] \in Nat
      BY <1>0, <2>6
    <3>2. CASE start[m] - start[r] <= Bridge
      <4>1. start[m] \in nexts
        BY <1>0, <2>6, <3>1, <3>2
      <4> QED
        BY <2>2, <2>3, <4>1
    <3>3. CASE ~ (start[m] - start[r] <= Bridge)
      BY <1>0, <2>3, <2>4, <2>5, <3>1, <3>3
    <3> QED
      BY <3>2, <3>3
  <2> HIDE DEF nexts, ns
  <2> QED
    BY <2>3, <2>4, <2>5, <2>6
<1>2. CASE nexts = {}
  <2>1. Boundary(r, tail) = IF tail # Null /\ tail - start[r] <= Bridge THEN tail
                            ELSE start[r]
    BY <1>2, Zenon DEF Boundary
  <2>2. ASSUME NEW m \in Records, start[m] # Null, start[r] < start[m],
               tail # Null => start[m] <= tail
        PROVE  Boundary(r, tail) <= start[m]
    <3>1. start[m] \in Nat /\ ~ (start[m] - start[r] <= Bridge)
      <4>1. start[m] \notin nexts
        BY <1>2
      <4> QED
        BY <1>0, <2>2, <4>1
    <3> QED
      BY <1>0, <2>1, <2>2, <3>1
  <2> HIDE DEF nexts, ns
  <2> QED
    BY <2>1, <2>2
<1> HIDE DEF nexts, ns
<1> QED
  BY <1>1, <1>2

(* Healing writes no end past a later start, and no end of its own making. *)
LEMMA HealedSource ==
    ASSUME DeliveryInv, EndSource, NEW cutoff \in Int, NEW tail \in Times \cup {Null},
           tail # Null => tail = cutoff,
           NEW r \in Records, Healed(cutoff, tail)[r] # Null
    PROVE  /\ start[r] # Null
           /\ \/ Healed(cutoff, tail)[r] = tail
              \/ Healed(cutoff, tail)[r] = ended[r]
              \/ \E m \in Records : start[m] = Healed(cutoff, tail)[r]
           /\ \A m \in Records :
                 /\ start[m] # Null /\ start[r] < start[m] /\ Disjoint(r, m)
                 /\ tail # Null => start[m] <= tail
                 => Healed(cutoff, tail)[r] <= start[m]
<1>1. CASE r \in OpenBefore(cutoff)
  <2>1. start[r] # Null /\ start[r] < cutoff
    BY <1>1 DEF OpenBefore
  <2>2. Healed(cutoff, tail)[r] = Boundary(r, tail)
    BY <1>1 DEF Healed
  <2> QED
    BY <2>1, <2>2, BoundarySource, Zenon
<1>2. CASE r \notin OpenBefore(cutoff)
  <2>1. Healed(cutoff, tail)[r] = end[r] /\ end[r] # Null
    BY <1>2 DEF Healed
  <2>2. start[r] # Null
    BY <2>1, Values
  <2> QED
    BY <2>1, <2>2, Zenon DEF EndSource, Disjoint
<1> QED
  BY <1>1, <1>2

(* The clock of the capture service, step by step.                         *)
LEMMA CaptureStep ==
    ASSUME DeliveryInv, CaptureTimes, [Next]_vars
    PROVE  CaptureTimes'
<1> USE DEF CaptureTimes
<1>0. /\ \A r \in Records : begun[r] \in Times \cup {Null} /\ ended[r] \in Times \cup {Null}
      /\ now \in Times /\ open \in Records \cup {Null} /\ Null \notin Records
      /\ Null \notin Times /\ Times \subseteq Nat
      /\ begun \in [Records -> Times \cup {Null}] /\ ended \in [Records -> Times \cup {Null}]
  BY Values, DeliveryAssumption DEF DeliveryInv, Typed, TypeOK
<1>1. CASE UNCHANGED <<now, begun, ended>> /\ open' \in {open, Null}
  <2>1. now' = now /\ begun' = begun /\ ended' = ended /\ (open' # Null => open' = open)
    BY <1>1
  <2> QED
    BY <2>1, Zenon
<1>2. CASE Tick
  <2>1. now' = now + 1 /\ begun' = begun /\ ended' = ended /\ open' = open
    BY <1>2 DEF Tick, capture
  <2>2. \A r \in Records : /\ begun[r] # Null => begun[r] <= now'
                           /\ ended[r] # Null => ended[r] <= now'
    <3> SUFFICES ASSUME NEW r \in Records
                 PROVE  /\ begun[r] # Null => begun[r] <= now'
                        /\ ended[r] # Null => ended[r] <= now'
      OBVIOUS
    <3>1. begun[r] \in Nat \cup {Null} /\ ended[r] \in Nat \cup {Null} /\ now \in Nat
      BY <1>0, Zenon
    <3> QED
      BY <2>1, <3>1
  <2> QED
    BY <2>1, <2>2, Zenon
<1>3. ASSUME NEW r \in Records, SubmitRecord(r)
      PROVE  CaptureTimes'
  <2>1. /\ open = Null /\ begun[r] = Null /\ open' = r /\ now' = now /\ ended' = ended
        /\ begun'[r] = now /\ \A m \in Records : m # r => begun'[m] = begun[m]
    BY <1>0, <1>3 DEF SubmitRecord
  <2>2. ended[r] = Null
    BY <2>1 DEF DeliveryInv, Captured
  <2>3. \A m \in Records : begun'[m] # Null => begun'[m] <= now
    BY <1>0, <2>1
  <2>4. \A a, m \in Records :
           ended[a] # Null /\ begun'[m] # Null /\ begun'[a] < begun'[m] => ended[a] <= begun'[m]
    <3> SUFFICES ASSUME NEW a \in Records, NEW m \in Records,
                        ended[a] # Null, begun'[m] # Null, begun'[a] < begun'[m]
                 PROVE  ended[a] <= begun'[m]
      OBVIOUS
    <3>1. a # r /\ begun'[a] = begun[a] /\ ended[a] <= now
      BY <2>1, <2>2
    <3> QED
      BY <2>1, <3>1
  <2> QED
    BY <2>1, <2>3, <2>4
<1>4. ASSUME NEW r \in Records, CloseRecord(r)
      PROVE  CaptureTimes'
  <2>1. /\ open = r /\ open' = Null /\ now' = now /\ begun' = begun
        /\ ended'[r] = now /\ \A m \in Records : m # r => ended'[m] = ended[m]
    BY <1>0, <1>4 DEF CloseRecord
  <2>2. begun[r] # Null /\ \A m \in Records : begun[m] # Null => begun[m] <= begun[r]
    BY <1>0, <2>1 DEF DeliveryInv, Captured
  <2>3. \A m \in Records : begun[m] # Null => ~ (begun[r] < begun[m])
    <3> SUFFICES ASSUME NEW m \in Records, begun[m] # Null, begun[r] < begun[m]
                 PROVE  FALSE
      OBVIOUS
    <3>1. begun[r] \in Nat /\ begun[m] \in Nat /\ begun[m] <= begun[r]
      BY <1>0, <2>2, Zenon
    <3> QED
      BY <3>1
  <2>4. \A m \in Records : ended'[m] # Null => ended'[m] <= now
    <3>1. now <= now
      BY <1>0
    <3> QED
      BY <2>1, <3>1, Zenon
  <2>5. \A a, m \in Records :
           ended'[a] # Null /\ begun[m] # Null /\ begun[a] < begun[m] => ended'[a] <= begun[m]
    BY <2>1, <2>3, Zenon
  <2> QED
    BY <2>1, <2>4, <2>5, Zenon
<1>5. CASE SenderStep \/ ClientRestart \/ ExpireStale \/ UNCHANGED vars
  <2>1. UNCHANGED <<now, begun, ended>> /\ open' \in {open, Null}
    BY <1>5, Zenon DEF SenderStep, StartWindow, AckHead, DropOversize, Send, ClientRestart,
                       ExpireStale, vars, capture
  <2> QED
    BY <1>1, <2>1
<1>6. CASE \/ \E r \in Records : SubmitScreenshot(r)
           \/ \E i \in 1 .. Window : Reply(i) \/ Timeout(i)
           \/ \E e \in late : ExecuteLate(e)
  <2>1. UNCHANGED <<now, begun, ended>> /\ open' \in {open, Null}
    BY <1>6, Zenon DEF SubmitScreenshot, Reply, Timeout, ExecuteLate, capture
  <2> QED
    BY <1>1, <2>1
<1> QED
  BY <1>2, <1>3, <1>4, <1>5, <1>6, Zenon DEF Next

(* Executing one stamped request.                                          *)
LEMMA ApplyTimeline ==
    ASSUME DeliveryInv, TimelineInv, NEW e \in Stamped \cap Grounded, Apply(e),
           UNCHANGED <<begun, ended>>
    PROVE  EndSource' /\ NoOverlapInOrder'
<1> USE DEF TimelineInv
<1>0. /\ e \in Entries /\ e.rec \in Records /\ e.ts \in Times /\ e.ts \in Int /\ e.ts # Null
      /\ begun[e.rec] # Null
      /\ e.kind = "record" => e.ts = begun[e.rec]
      /\ e.kind = "close" => e.ts = ended[e.rec]
  BY DeliveryAssumption DEF Stamped, Entries, Times
<1>v. /\ \A r \in Records : /\ start[r] \in Times \cup {Null} /\ end[r] \in Times \cup {Null}
                            /\ begun[r] \in Times \cup {Null} /\ ended[r] \in Times \cup {Null}
                            /\ start[r] # Null => start[r] = begun[r]
                            /\ end[r] # Null => start[r] # Null
      /\ Null \notin Times /\ Times \subseteq Nat
  BY Values
<1>1. CASE UNCHANGED server
  BY <1>1, Zenon DEF server, EndSource, NoOverlapInOrder, Disjoint
<1>2. CASE IngestRecord(e.rec, e.ts) /\ e.kind \in {"record", "shot"} /\ start[e.rec] # Null
  <2>1. UNCHANGED <<start, end, overtaken>>
    BY <1>2 DEF IngestRecord
  <2> QED
    BY <2>1, Zenon DEF EndSource, NoOverlapInOrder, Disjoint
<1>3. CASE IngestRecord(e.rec, e.ts) /\ e.kind \in {"record", "shot"} /\ start[e.rec] = Null
  <2> DEFINE H == Healed(e.ts, e.ts)
  <2>1. /\ end' = H /\ start' = [start EXCEPT ![e.rec] = e.ts]
        /\ overtaken' = (overtaken \/ \E n \in Records : start[n] # Null /\ start[n] > e.ts)
    BY <1>3 DEF IngestRecord
  <2>2. e.kind = "record" /\ e.ts = begun[e.rec]
    BY <1>0, <1>3 DEF Grounded
  <2>3. /\ start'[e.rec] = e.ts /\ \A r \in Records : r # e.rec => start'[r] = start[r]
    BY <1>0, <2>1 DEF DeliveryInv, Typed, TypeOK
  <2>4. \A r \in Records : H[r] \in Times \cup {Null}
    BY <1>0, HealedShape DEF DeliveryInv, Typed
  <2>5. ASSUME NEW r \in Records, H[r] # Null
        PROVE  /\ start[r] # Null /\ r # e.rec
               /\ H[r] = e.ts \/ H[r] = ended[r] \/ \E m \in Records : start[m] = H[r]
               /\ \A m \in Records :
                     /\ start[m] # Null /\ start[r] < start[m] /\ Disjoint(r, m)
                     /\ start[m] <= e.ts
                     => H[r] <= start[m]
    BY <1>0, <1>3, <2>5, HealedSource
  <2> HIDE DEF H
  <2>6. EndSource'
    <3> SUFFICES ASSUME NEW r \in Records, H[r] # Null
                 PROVE  H[r] = ended[r] \/ \E m \in Records : start'[m] = H[r]
      BY <2>1, Zenon DEF EndSource
    <3>1. CASE \E m \in Records : start[m] = H[r]
      <4>1. PICK m \in Records : start[m] = H[r]
        BY <3>1
      <4>2. m # e.rec
        BY <1>3, <4>1
      <4> QED
        BY <2>3, <4>1, <4>2
    <3> QED
      BY <1>0, <2>3, <2>5, <3>1
  <2>7. NoOverlapInOrder'
    <3> SUFFICES ASSUME ~ overtaken', NEW r \in Records, NEW n \in Records,
                        start'[r] # Null, start'[n] # Null, H[r] # Null, start'[r] < start'[n]
                 PROVE  H[r] <= start'[n]
      BY <2>1, Zenon DEF NoOverlapInOrder, Disjoint
    <3>1. ~ overtaken /\ \A m \in Records : start[m] # Null => start[m] <= e.ts
      <4>1. ~ (overtaken \/ \E m \in Records : start[m] # Null /\ start[m] > e.ts)
        BY <2>1, Zenon
      <4>2. ~ overtaken /\ \A m \in Records : start[m] # Null => ~ (start[m] > e.ts)
        BY <4>1, Zenon
      <4>3. \A m \in Records : start[m] # Null => start[m] <= e.ts
        <5> SUFFICES ASSUME NEW m \in Records, start[m] # Null
                     PROVE  start[m] <= e.ts
          OBVIOUS
        <5>1. start[m] \in Nat /\ ~ (start[m] > e.ts)
          BY <1>v, <4>2, Zenon
        <5> QED
          BY <1>0, <5>1
      <4> QED
        BY <4>2, <4>3, Zenon
    <3>2. /\ start[r] # Null /\ start'[r] = start[r] /\ start[r] = begun[r]
      BY <1>v, <2>3, <2>5
    <3>3. CASE n # e.rec
      <4>1. start'[n] = start[n] /\ Disjoint(r, n)
        BY <2>3, <3>1, <3>3 DEF NoOverlapInOrder
      <4> QED
        BY <2>5, <3>1, <3>2, <4>1
    <3>4. CASE n = e.rec
      <4>1. start'[n] = e.ts /\ begun[r] < begun[n] /\ begun[n] = e.ts
        BY <2>2, <2>3, <3>2, <3>4
      <4>2. H[r] = ended[r] => H[r] <= e.ts
        BY <1>0, <4>1 DEF CaptureTimes
      <4>3. (\E m \in Records : start[m] = H[r]) => H[r] <= e.ts
        BY <3>1
      <4> QED
        BY <1>0, <1>v, <2>5, <4>1, <4>2, <4>3
    <3> QED
      BY <3>3, <3>4
  <2> QED
    BY <2>6, <2>7
<1>4. CASE /\ e.kind = "close" /\ start[e.rec] # Null
           /\ end' = [end EXCEPT ![e.rec] = BoundedEnd(start[e.rec], e.ts, end[e.rec])]
           /\ UNCHANGED <<start, shot, overtaken>>
  <2> DEFINE b == BoundedEnd(start[e.rec], e.ts, end[e.rec])
  <2>1. b = ended[e.rec] \/ (end[e.rec] # Null /\ b = end[e.rec]) \/ b = start[e.rec]
    BY <1>0, <1>4 DEF BoundedEnd
  <2>2. /\ end'[e.rec] = b /\ \A r \in Records : r # e.rec => end'[r] = end[r]
        /\ UNCHANGED <<start, overtaken>>
    BY <1>0, <1>4 DEF DeliveryInv, Typed, TypeOK
  <2> HIDE DEF b
  <2>3. EndSource'
    BY <1>0, <2>1, <2>2 DEF EndSource
  <2>4. NoOverlapInOrder'
    <3> SUFFICES ASSUME ~ overtaken, NEW r \in Records, NEW n \in Records, start[r] # Null,
                        start[n] # Null, end'[r] # Null, start[r] < start[n]
                 PROVE  end'[r] <= start[n]
      BY <2>2, Zenon DEF NoOverlapInOrder, Disjoint
    <3>1. Disjoint(r, n)
      BY DEF NoOverlapInOrder
    <3>2. CASE r # e.rec
      BY <2>2, <3>1, <3>2 DEF Disjoint
    <3>3. CASE r = e.rec
      <4>1. ended[r] # Null => ended[r] <= start[n]
        BY <1>v DEF CaptureTimes
      <4>2. end[r] # Null => end[r] <= start[n]
        BY <3>1 DEF Disjoint
      <4>3. end'[r] = b /\ b # Null
        BY <2>2, <3>3
      <4>4. start[r] <= start[n]
        <5>1. start[r] \in Nat /\ start[n] \in Nat
          BY <1>v, Zenon
        <5> QED
          BY <5>1
      <4> QED
        BY <2>1, <3>3, <4>1, <4>2, <4>3, <4>4
    <3> QED
      BY <3>2, <3>3
  <2> QED
    BY <2>3, <2>4
<1> QED
  BY <1>1, <1>2, <1>3, <1>4, Zenon DEF Apply

LEMMA ExpireTimeline ==
    ASSUME DeliveryInv, TimelineInv, ExpireStale
    PROVE  EndSource' /\ NoOverlapInOrder'
<1> DEFINE H == Healed(now - Bridge, Null)
<1>1. /\ end' = H /\ UNCHANGED <<start, overtaken, ended>>
  BY DEF ExpireStale, capture
<1>2. now - Bridge \in Int
  BY Values
<1>3. ASSUME NEW r \in Records, H[r] # Null
      PROVE  /\ start[r] # Null
             /\ H[r] = ended[r] \/ \E m \in Records : start[m] = H[r]
             /\ \A m \in Records :
                   start[m] # Null /\ start[r] < start[m] /\ Disjoint(r, m) => H[r] <= start[m]
  BY <1>2, <1>3, HealedSource DEF TimelineInv
<1> HIDE DEF H
<1>4. EndSource'
  BY <1>1, <1>3, Zenon DEF EndSource
<1>5. NoOverlapInOrder'
  BY <1>1, <1>3, Zenon DEF TimelineInv, NoOverlapInOrder, Disjoint
<1> QED
  BY <1>4, <1>5

LEMMA StepTimeline ==
    ASSUME DeliveryInv, TimelineInv, [Next]_vars
    PROVE  TimelineInv'
<1>1. CaptureTimes'
  BY CaptureStep DEF TimelineInv
<1> SUFFICES EndSource' /\ NoOverlapInOrder'
  BY <1>1 DEF TimelineInv
<1>2. CASE UNCHANGED <<start, end, overtaken, ended>>
  BY <1>2, Zenon DEF TimelineInv, EndSource, NoOverlapInOrder, Disjoint
<1>3. CASE ExpireStale
  BY <1>3, ExpireTimeline
<1>4. ASSUME NEW i \in 1 .. Window, Reply(i)
      PROVE  EndSource' /\ NoOverlapInOrder'
  <2>1. i \in 1 .. Len(window) /\ window[i].state = "sending" /\ Apply(window[i].entry)
    BY <1>4, SlotOf DEF Reply, DeliveryInv, Typed
  <2>2. window[i].entry \in Stamped \cap Grounded
    BY <2>1, EntryFacts DEF DeliveryInv, OnWire, InFlight
  <2> QED
    BY <1>4, <2>1, <2>2, ApplyTimeline DEF Reply, capture
<1>5. ASSUME NEW e \in late, ExecuteLate(e)
      PROVE  EndSource' /\ NoOverlapInOrder'
  <2>1. e \in Stamped \cap Grounded
    BY DEF DeliveryInv, OnWire, InFlight, Captured
  <2> QED
    BY <1>5, <2>1, ApplyTimeline DEF ExecuteLate, capture
<1>6. ASSUME NEW r \in Records, CloseRecord(r)
      PROVE  EndSource' /\ NoOverlapInOrder'
  <2>1. open = r /\ ended' = [ended EXCEPT ![r] = now] /\ UNCHANGED <<start, end, overtaken>>
    BY <1>6 DEF CloseRecord, server
  <2>2. ended[r] = Null /\ \A m \in Records : m # r => ended'[m] = ended[m]
    BY <2>1, DeliveryAssumption DEF DeliveryInv, Captured, Typed, TypeOK
  <2> QED
    BY <2>1, <2>2, Zenon DEF TimelineInv, EndSource, NoOverlapInOrder, Disjoint
<1>7. CASE \/ Tick \/ SenderStep \/ ClientRestart \/ UNCHANGED vars
           \/ \E r \in Records : SubmitRecord(r) \/ SubmitScreenshot(r)
           \/ \E i \in 1 .. Window : Timeout(i)
  <2>1. UNCHANGED <<start, end, overtaken, ended>>
    BY <1>7, Zenon DEF Tick, SenderStep, StartWindow, AckHead, DropOversize, Send, ClientRestart,
                       vars, capture, server, SubmitRecord, SubmitScreenshot, Timeout
  <2> QED
    BY <1>2, <2>1
<1> QED
  BY <1>3, <1>4, <1>5, <1>6, <1>7, Zenon DEF Next

-----------------------------------------------------------------------------
LEMMA Invariant == Spec => [](DeliveryInv /\ TimelineInv)
<1>1. Init => DeliveryInv /\ TimelineInv
  <2> SUFFICES ASSUME Init PROVE TimelineInv
    BY InitInv
  <2> QED
    BY Zenon DEF Init, TimelineInv, CaptureTimes, EndSource, NoOverlapInOrder, Disjoint
<1>2. (DeliveryInv /\ TimelineInv) /\ [Next]_vars => (DeliveryInv /\ TimelineInv)'
  BY StepInv, StepTimeline
<1> QED
  BY <1>1, <1>2, PTL DEF Spec

(* The sender's window, the client's outbox and the server's rows keep     *)
(* their types in every reachable state of Delivery.                       *)
THEOREM TypeCorrect == Spec => []TypeOK
<1>1. DeliveryInv /\ TimelineInv => TypeOK
  BY DEF DeliveryInv, Typed
<1> QED
  BY <1>1, Invariant, PTL

(* No row is ever created by a screenshot overtaking its record, whatever  *)
(* is replayed, late or restarted (the barrier of the sliding window).     *)
THEOREM StartsTrue == Spec => []StartsAsCaptured
<1>1. DeliveryInv /\ TimelineInv => StartsAsCaptured
  BY DEF DeliveryInv, OnServer
<1> QED
  BY <1>1, Invariant, PTL

(* Closing, healing and expiry never write a negative or an overlong bar.  *)
THEOREM SpansStayBounded == Spec => []SpansBounded
<1>1. DeliveryInv /\ TimelineInv => SpansBounded
  BY DEF DeliveryInv, OnServer
<1> QED
  BY <1>1, Invariant, PTL

(* What the sender acknowledged, the server has applied and keeps.         *)
THEOREM AcksAreTrue == Spec => []AckedIsApplied
<1>1. DeliveryInv /\ TimelineInv => AckedIsApplied
  BY Zenon DEF DeliveryInv, OnWire, Applied, AckedIsApplied
<1> QED
  BY <1>1, Invariant, PTL

(* Bars of one device do not overlap as long as its records arrive in the  *)
(* order of their capture, orphans healed by the server included.          *)
THEOREM BarsDisjoint == Spec => []NoOverlapInOrder
<1>1. DeliveryInv /\ TimelineInv => NoOverlapInOrder
  BY DEF TimelineInv
<1> QED
  BY <1>1, Invariant, PTL

=============================================================================
