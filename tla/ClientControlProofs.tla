-------------------------- MODULE ClientControlProofs --------------------------
(***************************************************************************)
(* The client's controls, for any number of connections and uploads: a     *)
(* client captures only when its file says so, whatever saves fail, and a  *)
(* connection that is switched off is not chosen again.                    *)
(***************************************************************************)
EXTENDS ClientControl, SequenceTheorems, WellFoundedInduction, TLAPS

TypeInv ==
    /\ file \in Files /\ paused \in BOOLEAN /\ persisted \in BOOLEAN
    /\ enabled \in Flags
    /\ op = Null \/ op \in Mutations
    /\ current \in Endpoints \cup {Null}
    /\ probing = Null \/ probing \in Selections
    /\ waiting \in Seq(Callers)
    /\ phase \in {"starting", "running", "stopping", "stopped"}

(* What the mutation that holds the lock writes.                           *)
Writes ==
    /\ op # Null /\ op.kind = "pause" => paused /\ op.write.paused
    /\ op # Null /\ op.kind = "resume" => ~op.write.paused
    /\ op # Null /\ op.kind = "endpoint" =>
          op.write.paused = paused /\ (persisted => file.paused = paused)
    /\ op # Null /\ op.kind = "select" => persisted /\ file.paused = paused

(* The file of a client that runs is as cautious as the client.            *)
Cautious ==
    /\ phase # "stopped" /\ ~paused => ~file.paused
    /\ phase # "stopped" /\ op = Null /\ persisted => file.paused = paused
    /\ phase \in {"starting", "stopped"} => op = Null
    /\ phase = "stopped" => current = Null /\ probing = Null /\ waiting = <<>>

(* The selection that a switched connection asked for waits or runs, once, *)
(* exactly while the switch holds the lock.                                *)
Selecting == op # Null /\ op.kind = "select"
ByControl == probing # Null /\ probing.who = "control"
Once ==
    /\ \A i \in 1 .. Len(waiting) : waiting[i] = "control" => Selecting /\ ~ByControl
    /\ ByControl => Selecting
    /\ \A i, j \in 1 .. Len(waiting) :
          waiting[i] = "control" /\ waiting[j] = "control" => i = j

(* Nothing is probed that was off when the selection began, and what was   *)
(* on then still is, unless a later selection will say so.                 *)
Fresh ==
    /\ probing # Null =>
          /\ probing.todo \subseteq probing.known
          /\ probing.chosen \in probing.known \cup {Null}
          /\ ByControl \/ ~Selecting => \A e \in probing.known : enabled[e]
    /\ DisabledNotActive

ControlInv == TypeInv /\ Writes /\ Cautious /\ Once /\ Fresh

-----------------------------------------------------------------------------
LEMMA Connections ==
    /\ Null \notin Endpoints /\ Null \notin Mutations /\ Null \notin Selections
    /\ "control" \notin Uploads
BY ControlAssumption DEF ControlAssumption, Endpoints

(* What is left of a sequence when one element is gone.                    *)
LEMMA Removed ==
    ASSUME NEW S, NEW s \in Seq(S), NEW i \in DOMAIN s
    PROVE  /\ RemoveAt(s, i) \in Seq(S) /\ Len(RemoveAt(s, i)) = Len(s) - 1
           /\ \A k \in 1 .. Len(s) - 1 :
                 RemoveAt(s, i)[k] = IF k < i THEN s[k] ELSE s[k + 1]
<1> DEFINE a == SubSeq(s, 1, i - 1)
           b == SubSeq(s, i + 1, Len(s))
<1>1. Len(s) \in Nat /\ i \in 1 .. Len(s) /\ \A k \in 1 .. Len(s) : s[k] \in S
  BY LenProperties
<1>2. /\ a \in Seq(S) /\ Len(a) = i - 1 /\ \A k \in 1 .. i - 1 : a[k] = s[k]
  <2>1. 1 \in Int /\ i - 1 \in Int /\ \A k \in 1 .. i - 1 : s[k] \in S
    BY <1>1
  <2>2. /\ a \in Seq(S) /\ Len(a) = IF 1 <= i - 1 THEN i - 1 - 1 + 1 ELSE 0
        /\ \A k \in 1 .. i - 1 - 1 + 1 : a[k] = s[1 + k - 1]
    BY <2>1, SubSeqProperties
  <2> QED
    BY <1>1, <2>2
<1>3. /\ b \in Seq(S) /\ Len(b) = Len(s) - i /\ \A k \in 1 .. Len(s) - i : b[k] = s[k + i]
  <2>1. i + 1 \in Int /\ Len(s) \in Int /\ \A k \in i + 1 .. Len(s) : s[k] \in S
    BY <1>1
  <2>2. /\ b \in Seq(S) /\ Len(b) = IF i + 1 <= Len(s) THEN Len(s) - (i + 1) + 1 ELSE 0
        /\ \A k \in 1 .. Len(s) - (i + 1) + 1 : b[k] = s[i + 1 + k - 1]
    BY <2>1, SubSeqProperties
  <2> QED
    BY <1>1, <2>2
<1>4. /\ a \o b \in Seq(S) /\ Len(a \o b) = Len(a) + Len(b)
      /\ \A k \in 1 .. Len(a) + Len(b) : (a \o b)[k] = IF k <= Len(a) THEN a[k] ELSE b[k - Len(a)]
  BY <1>2, <1>3, ConcatProperties
<1>5. RemoveAt(s, i) = a \o b
  BY DEF RemoveAt
<1> HIDE DEF a, b
<1>6. ASSUME NEW k \in 1 .. Len(s) - 1
      PROVE  (a \o b)[k] = IF k < i THEN s[k] ELSE s[k + 1]
  <2>1. k \in 1 .. Len(a) + Len(b)
    BY <1>1, <1>2, <1>3
  <2>2. CASE k < i
    BY <1>1, <1>2, <1>4, <2>1, <2>2
  <2>3. CASE ~(k < i)
    <3>1. (a \o b)[k] = b[k - (i - 1)]
      BY <1>1, <1>2, <1>4, <2>1, <2>3
    <3>2. k - (i - 1) \in 1 .. Len(s) - i /\ k - (i - 1) + i = k + 1
      BY <1>1, <2>3
    <3>3. b[k - (i - 1)] = s[k - (i - 1) + i]
      BY <1>3, <3>2
    <3> QED
      BY <2>3, <3>1, <3>2, <3>3
  <2> QED
    BY <2>2, <2>3
<1>7. Len(a) + Len(b) = Len(s) - 1
  BY <1>1, <1>2, <1>3
<1> QED
  BY <1>4, <1>5, <1>6, <1>7

-----------------------------------------------------------------------------
LEMMA InitInv == Init => ControlInv
<1> SUFFICES ASSUME Init PROVE ControlInv
  OBVIOUS
<1> USE Connections DEF Init
<1>1. /\ waiting \in Seq(Callers) /\ Len(waiting) = 1 /\ waiting[1] = "startup"
  BY DEF Callers
<1>2. TypeInv
  BY <1>1 DEF TypeInv, Files
<1>3. Writes /\ Cautious /\ Once /\ Fresh
  BY <1>1 DEF Writes, Cautious, Once, Fresh, DisabledNotActive, Selecting, ByControl
<1> QED
  BY <1>2, <1>3 DEF ControlInv

(* Requests and their saves.                                               *)
LEMMA RequestStep ==
    ASSUME ControlInv,
           Pause \/ Resume \/ (\E e \in Endpoints : SetEndpoint(e)) \/ SaveFails
    PROVE  ControlInv'
<1> USE Connections DEF ControlInv, selector
<1>1. CASE Pause
  <2>1. op' = [kind |-> "pause", write |-> Write(TRUE, enabled)] /\ op = Null /\ phase = "running"
    BY <1>1 DEF Pause, Request
  <2>2. op' \in Mutations
    BY <2>1 DEF TypeInv, Mutations, Write, Files
  <2>3. op'.write.paused /\ op'.kind = "pause" /\ op' # Null /\ paused'
    BY <1>1, <2>1, <2>2 DEF Pause, Write
  <2>4. TypeInv'
    BY <1>1, <2>1, <2>2 DEF Pause, Request, TypeInv
  <2>5. Writes' /\ Cautious'
    BY <1>1, <2>1, <2>3 DEF Pause, Request, Writes, Cautious
  <2>6. Once' /\ Fresh'
    BY <1>1, <2>1, <2>3 DEF Pause, Request, Once, Fresh, DisabledNotActive, Selecting, ByControl
  <2> QED
    BY <2>4, <2>5, <2>6
<1>2. CASE Resume
  <2>1. op' = [kind |-> "resume", write |-> Write(FALSE, enabled)] /\ op = Null /\ phase = "running"
    BY <1>2 DEF Resume, Request
  <2>2. op' \in Mutations
    BY <2>1 DEF TypeInv, Mutations, Write, Files
  <2> QED
    BY <1>2, <2>1, <2>2 DEF Resume, Request, Write, TypeInv, Writes, Cautious, Once, Fresh,
           DisabledNotActive, Selecting, ByControl
<1>3. ASSUME NEW e \in Endpoints, SetEndpoint(e)
      PROVE  ControlInv'
  <2>1. PICK flags \in Flags : op' = [kind |-> "endpoint", write |-> Write(paused, flags)]
    BY <1>3 DEF SetEndpoint, Request, TypeInv, Flags
  <2>2. op = Null /\ phase = "running"
    BY <1>3 DEF SetEndpoint, Request
  <2>3. op' \in Mutations /\ op'.write.paused = paused
    BY <2>1 DEF TypeInv, Mutations, Write, Files
  <2> QED
    BY <1>3, <2>1, <2>2, <2>3 DEF SetEndpoint, Request, TypeInv, Writes, Cautious, Once, Fresh,
           DisabledNotActive, Selecting, ByControl
<1>4. CASE SaveFails
  <2>1. /\ op # Null /\ op.kind # "select" /\ op' = Null /\ file' \in {file, op.write}
        /\ persisted' = IF op.kind = "endpoint" THEN persisted ELSE FALSE
        /\ op \in Mutations /\ phase \in {"running", "stopping"}
        /\ UNCHANGED <<paused, enabled, selector, phase>>
    BY <1>4 DEF SaveFails, AtWork, TypeInv
  <2>2. op.write \in Files /\ op.kind \in {"pause", "resume", "endpoint"}
    BY <2>1 DEF Mutations
  <2>3. TypeInv'
    BY <2>1, <2>2 DEF TypeInv
  <2>4. Once' /\ Fresh'
    BY <2>1 DEF Once, Fresh, DisabledNotActive, Selecting, ByControl
  <2>5. Writes' /\ Cautious'
    <3>1. /\ ~paused => ~file'.paused
          /\ persisted' => file'.paused = paused
      BY <2>1, <2>2 DEF Writes, Cautious
    <3> QED
      BY <2>1, <3>1 DEF Writes, Cautious
  <2> QED
    BY <2>3, <2>4, <2>5
<1> QED
  BY <1>1, <1>2, <1>3, <1>4

LEMMA SavedStep ==
    ASSUME ControlInv, Saved
    PROVE  ControlInv'
<1> USE Connections DEF ControlInv
<1>1. /\ op # Null /\ op.kind # "select" /\ op \in Mutations /\ file' = op.write /\ file' \in Files
      /\ persisted' = TRUE /\ ~Selecting /\ phase \in {"running", "stopping"}
      /\ UNCHANGED <<current, probing, tunnel, phase, reach, bounds>>
  BY DEF Saved, TypeInv, Mutations, Selecting, AtWork
<1>2. CASE op.kind = "endpoint"
  <2>1. /\ enabled' = op.write.enabled /\ enabled' \in Flags
        /\ op' = [op EXCEPT !.kind = "select"] /\ paused' = paused
        /\ waiting' = Append(waiting, "control")
    BY <1>1, <1>2 DEF Saved, Asked, Mutations, Files
  <2>2. op' \in Mutations /\ op' # Null /\ op'.kind = "select"
    BY <1>1, <2>1 DEF Mutations, TypeInv
  <2>3. /\ waiting' \in Seq(Callers) /\ Len(waiting') = Len(waiting) + 1 /\ Len(waiting) \in Nat
        /\ \A i \in 1 .. Len(waiting) : waiting'[i] = waiting[i]
        /\ waiting'[Len(waiting) + 1] = "control"
    BY <2>1, AppendProperties, LenProperties DEF TypeInv, Callers
  <2>4. \A i \in 1 .. Len(waiting) : waiting[i] # "control"
    BY <1>1 DEF Once
  <2>5. TypeInv' /\ Writes' /\ Cautious'
    BY <1>1, <1>2, <2>1, <2>2, <2>3 DEF TypeInv, Writes, Cautious
  <2>6. Once'
    BY <1>1, <2>2, <2>3, <2>4 DEF Once, Selecting, ByControl
  <2>7. Fresh'
    BY <1>1, <2>2 DEF Fresh, Once, DisabledNotActive, Selecting, ByControl
  <2> QED
    BY <2>5, <2>6, <2>7
<1>3. CASE op.kind # "endpoint"
  <2>1. op' = Null /\ UNCHANGED <<enabled, waiting>>
        /\ paused' = IF op.kind = "resume" THEN FALSE ELSE paused
    BY <1>1, <1>3 DEF Saved
  <2>2. file.paused \in BOOLEAN /\ op.write.paused \in BOOLEAN
        /\ op.kind \in {"pause", "resume"}
    BY <1>1, <1>3 DEF TypeInv, Mutations, Files
  <2>3. TypeInv'
    BY <1>1, <2>1 DEF TypeInv
  <2>4. Once' /\ Fresh'
    BY <1>1, <2>1 DEF Once, Fresh, DisabledNotActive, Selecting, ByControl
  <2>5. Writes' /\ Cautious'
    <3>1. file'.paused = paused'
      BY <1>1, <2>1, <2>2 DEF Writes
    <3> QED
      BY <1>1, <2>1, <3>1 DEF Writes, Cautious
  <2> QED
    BY <2>3, <2>4, <2>5
<1> QED
  BY <1>2, <1>3

-----------------------------------------------------------------------------
(* Who asks for a selection, and the one who runs it.                      *)
LEMMA AskStep ==
    ASSUME ControlInv, LoopAsks \/ \E u \in Uploads : SendFails(u)
    PROVE  ControlInv'
<1> USE Connections DEF ControlInv
<1>1. PICK who \in {"loop"} \cup Uploads : waiting' = Append(waiting, who)
  BY DEF LoopAsks, SendFails, Asked
<1>2. /\ phase \in {"running", "stopping"}
      /\ UNCHANGED <<controls, current, probing, tunnel, phase, reach, bounds>>
  BY DEF LoopAsks, SendFails, AtWork
<1>3. /\ waiting' \in Seq(Callers) /\ Len(waiting') = Len(waiting) + 1 /\ Len(waiting) \in Nat
      /\ \A i \in 1 .. Len(waiting) : waiting'[i] = waiting[i]
      /\ waiting'[Len(waiting) + 1] # "control"
  BY <1>1, AppendProperties, LenProperties DEF TypeInv, Callers
<1>4. Once'
  BY <1>2, <1>3 DEF Once, Selecting, ByControl, controls
<1>5. TypeInv' /\ Writes' /\ Cautious' /\ Fresh'
  BY <1>2, <1>3 DEF TypeInv, Writes, Cautious, Fresh, DisabledNotActive, Selecting,
                    ByControl, controls
<1> QED
  BY <1>4, <1>5

LEMMA StartStep ==
    ASSUME ControlInv, StartSelect
    PROVE  ControlInv'
<1> USE Connections DEF ControlInv
<1> DEFINE who == Head(waiting)
<1>1. /\ who \in Callers /\ waiting \in Seq(Callers) /\ who = waiting[1]
      /\ Tail(waiting) \in Seq(Callers) /\ Len(Tail(waiting)) = Len(waiting) - 1
      /\ \A i \in 1 .. Len(waiting) - 1 : Tail(waiting)[i] = waiting[i + 1]
      /\ Len(waiting) \in Nat /\ Len(waiting) > 0
  <2>1. waiting \in Seq(Callers) /\ waiting # <<>>
    BY DEF StartSelect, TypeInv
  <2> QED
    BY <2>1, HeadTailProperties, LenProperties, EmptySeq
<1>2. /\ probing = Null /\ waiting' = Tail(waiting) /\ phase # "stopped"
      /\ probing' = [who |-> who, todo |-> ToProbe(who),
                     known |-> {e \in Endpoints : enabled[e]}, chosen |-> Null]
      /\ UNCHANGED <<controls, current, tunnel, phase, reach, bounds>>
  BY DEF StartSelect, Cautious
<1>3. ToProbe(who) \subseteq {e \in Endpoints : enabled[e]}
  BY DEF ToProbe
<1> HIDE DEF who
<1>4. probing' \in Selections /\ probing'.who = who /\ probing'.chosen = Null
      /\ probing'.todo \subseteq probing'.known /\ \A e \in probing'.known : enabled[e]
  BY <1>1, <1>2, <1>3 DEF Selections
<1>5. Once'
  <2>1. UNCHANGED Selecting
    BY <1>2 DEF Selecting, controls
  <2>2. ByControl' => who = "control"
    BY <1>4 DEF ByControl
  <2>3. ASSUME NEW i \in 1 .. Len(waiting'), waiting'[i] = "control"
        PROVE  Selecting' /\ ~ByControl'
    <3>1. i + 1 \in 1 .. Len(waiting) /\ waiting[i + 1] = "control" /\ i + 1 # 1
      BY <1>1, <1>2, <2>3
    <3> QED
      BY <1>1, <2>1, <2>2, <3>1 DEF Once
  <2>4. ByControl' => Selecting'
    BY <1>1, <2>1, <2>2 DEF Once
  <2>5. ASSUME NEW i \in 1 .. Len(waiting'), NEW j \in 1 .. Len(waiting'),
               waiting'[i] = "control", waiting'[j] = "control"
        PROVE  i = j
    <3>1. /\ i + 1 \in 1 .. Len(waiting) /\ waiting[i + 1] = "control"
          /\ j + 1 \in 1 .. Len(waiting) /\ waiting[j + 1] = "control"
      BY <1>1, <1>2, <2>5
    <3>2. i + 1 = j + 1
      BY <3>1 DEF Once
    <3> QED
      BY <1>1, <1>2, <3>2
  <2> QED
    BY <2>3, <2>4, <2>5 DEF Once
<1>6. TypeInv' /\ Writes' /\ Cautious' /\ Fresh'
  BY <1>1, <1>2, <1>4 DEF TypeInv, Writes, Cautious, Fresh, DisabledNotActive, Selecting,
                          ByControl, controls
<1> QED
  BY <1>5, <1>6

(* The connection to probe next is one that is to be probed.               *)
LEMMA FirstOfSome ==
    ASSUME NEW S \in SUBSET Endpoints, S # {}
    PROVE  (CHOOSE x \in S : \A y \in S : x <= y) \in S
<1> DEFINE R == {pair \in Nat \X Nat : pair[1] < pair[2]}
<1>1. S \subseteq Nat
  BY ControlAssumption DEF ControlAssumption, Endpoints
<1>2. IsWellFoundedOn(R, Nat)
  BY NatLessThanWellFounded, Zenon DEF OpToRel
<1>3. PICK x \in S : \A y \in S : ~ (<<y, x>> \in R)
  <2> HIDE DEF R
  <2> QED
    BY <1>1, <1>2, WFMin, Zenon
<1>4. ASSUME NEW y \in S, ~(x <= y)
      PROVE  FALSE
  <2>1. x \in Nat /\ y \in Nat /\ y < x
    BY <1>1, <1>4
  <2>2. <<y, x>> \in R
    BY <2>1
  <2> QED
    BY <1>3, <2>2
<1> QED
  BY <1>3, <1>4

LEMMA ProbeStep ==
    ASSUME ControlInv, Probe
    PROVE  ControlInv'
<1> USE Connections DEF ControlInv
<1> DEFINE e == CHOOSE x \in probing.todo : \A y \in probing.todo : x <= y
<1>1. /\ probing # Null /\ probing \in Selections /\ probing.todo # {}
      /\ UNCHANGED <<controls, current, waiting, tunnel, phase, reach>>
      /\ probing.todo \subseteq probing.known /\ probing.chosen \in probing.known \cup {Null}
  BY DEF Probe, TypeInv, Fresh
<1>2. e \in probing.todo
  BY <1>1, FirstOfSome DEF Selections
<1>3. PICK c \in probing.known \cup {Null} :
          probing' = [probing EXCEPT !.todo = @ \ {e}, !.chosen = c]
  <2>1. PICK c \in {e, probing.chosen} :
            \/ probing' = [probing EXCEPT !.todo = @ \ {e}, !.chosen = c]
            \/ probing' = [probing EXCEPT !.todo = @ \ {e}]
    BY DEF Probe
  <2>2. probing' = [probing EXCEPT !.todo = @ \ {e}]
        => probing' = [probing EXCEPT !.todo = @ \ {e}, !.chosen = probing.chosen]
    BY <1>1 DEF Selections
  <2> QED
    BY <1>1, <1>2, <2>1, <2>2
<1> HIDE DEF e
<1>4. /\ probing' \in Selections /\ probing' # Null
      /\ probing'.who = probing.who /\ probing'.known = probing.known
      /\ probing'.todo \subseteq probing.known /\ probing'.chosen = c
  <2>1. probing.known \subseteq Endpoints
    BY <1>1 DEF Selections
  <2>2. probing' \in Selections
    BY <1>1, <1>3, <2>1 DEF Selections
  <2>3. probing' # Null
    BY <1>1, <1>3 DEF Selections, Once
  <2> QED
    BY <1>1, <1>3, <2>2, <2>3 DEF Selections
<1>5. TypeInv' /\ Writes' /\ Cautious'
  BY <1>1, <1>4 DEF TypeInv, Writes, Cautious, controls
<1>6. Once' /\ Fresh'
  BY <1>1, <1>4 DEF Once, Fresh, DisabledNotActive, Selecting, ByControl, controls
<1> QED
  BY <1>5, <1>6

LEMMA EndStep ==
    ASSUME ControlInv, EndSelect
    PROVE  ControlInv'
<1> USE Connections DEF ControlInv
<1>1. /\ probing # Null /\ probing \in Selections /\ probing' = Null /\ current' = Kept
      /\ op' = IF ByControl THEN Null ELSE op
      /\ phase' \in {phase, "running"} /\ phase # "stopped"
      /\ UNCHANGED <<file, paused, enabled, persisted, waiting, tunnel, reach, bounds>>
  BY DEF EndSelect, TypeInv, ByControl, Cautious
<1>2. Kept \in probing.known \cup {Null}
  BY <1>1 DEF Kept, Fresh
<1>3. TypeInv' /\ Writes'
  BY <1>1, <1>2 DEF TypeInv, Writes, Selections
<1>4. Cautious'
  BY <1>1 DEF Cautious, Writes, Once, Selecting
<1>5. Once'
  BY <1>1 DEF Once, Selecting, ByControl
<1>6. Fresh'
  <2>1. CASE ByControl \/ ~Selecting
    BY <1>1, <1>2, <2>1 DEF Fresh, DisabledNotActive, Selecting
  <2>2. CASE ~ByControl /\ Selecting
    BY <1>1, <2>2 DEF Fresh, DisabledNotActive, Selecting
  <2> QED
    BY <2>1, <2>2
<1> QED
  BY <1>3, <1>4, <1>5, <1>6

-----------------------------------------------------------------------------
(* Tunnels, quitting, and the ends and beginnings of the process.          *)
LEMMA ProcessStep ==
    ASSUME ControlInv,
           \/ \E e \in Endpoints : SpawnTunnel(e) \/ TunnelDies(e) \/ TunnelEnds(e)
                                   \/ ReachChanges(e)
           \/ \E u \in Uploads : BeginUpload(u) \/ Uploaded(u) \/ CancelUpload(u)
           \/ Quit \/ Exit \/ Crash \/ Start \/ UNCHANGED vars
    PROVE  ControlInv'
<1> USE Connections DEF ControlInv
<1>1. ASSUME NEW e \in Endpoints,
             SpawnTunnel(e) \/ TunnelDies(e) \/ TunnelEnds(e) \/ ReachChanges(e)
      PROVE  ControlInv'
  <2>1. UNCHANGED <<file, paused, enabled, persisted, op, current, probing, waiting, phase>>
    BY <1>1 DEF SpawnTunnel, TunnelDies, TunnelEnds, ReachChanges, controls, selector
  <2> QED
    BY <2>1 DEF TypeInv, Writes, Cautious, Once, Fresh, DisabledNotActive, Selecting, ByControl
<1>2. CASE Quit
  BY <1>2 DEF Quit, controls, selector, TypeInv, Writes, Cautious, Once, Fresh,
              DisabledNotActive, Selecting, ByControl
<1>3. ASSUME NEW u \in Uploads, CancelUpload(u)
      PROVE  ControlInv'
  <2>1. phase = "stopping" /\ UNCHANGED <<controls, current, tunnel, phase, reach, bounds>>
    BY <1>3 DEF CancelUpload
  <2>2. CASE \E i \in DOMAIN waiting : waiting[i] = u /\ waiting' = RemoveAt(waiting, i)
                                      /\ UNCHANGED probing
    <3>1. PICK i \in DOMAIN waiting : waiting' = RemoveAt(waiting, i) /\ UNCHANGED probing
      BY <2>2
    <3>2. /\ waiting' \in Seq(Callers) /\ Len(waiting') = Len(waiting) - 1
          /\ \A k \in 1 .. Len(waiting) - 1 :
                waiting'[k] = IF k < i THEN waiting[k] ELSE waiting[k + 1]
          /\ Len(waiting) \in Nat /\ i \in 1 .. Len(waiting)
      BY <3>1, Removed, LenProperties DEF TypeInv
    <3>3. UNCHANGED <<Selecting, ByControl>>
      BY <2>1, <3>1 DEF Selecting, ByControl, controls
    <3>4. Once'
      <4>1. ASSUME NEW k \in 1 .. Len(waiting'), waiting'[k] = "control"
            PROVE  \E m \in 1 .. Len(waiting) : waiting[m] = "control"
        BY <3>2, <4>1
      <4>2. ASSUME NEW k \in 1 .. Len(waiting'), NEW m \in 1 .. Len(waiting'),
                   waiting'[k] = "control", waiting'[m] = "control"
            PROVE  k = m
        <5> DEFINE was(n) == IF n < i THEN n ELSE n + 1
        <5>1. was(k) \in 1 .. Len(waiting) /\ was(m) \in 1 .. Len(waiting)
          BY <3>2
        <5>2. waiting[was(k)] = "control" /\ waiting[was(m)] = "control"
          BY <3>2, <4>2
        <5>3. was(k) = was(m)
          BY <5>1, <5>2 DEF Once
        <5> QED
          BY <3>2, <5>3
      <4> QED
        BY <3>3, <4>1, <4>2 DEF Once
    <3>5. TypeInv' /\ Writes' /\ Cautious' /\ Fresh'
      BY <2>1, <3>1, <3>2 DEF TypeInv, Writes, Cautious, Fresh, DisabledNotActive,
                              Selecting, ByControl, controls
    <3> QED
      BY <3>4, <3>5
  <2>3. CASE probing # Null /\ probing.who = u /\ probing' = Null /\ UNCHANGED waiting
    BY <2>1, <2>3 DEF TypeInv, Writes, Cautious, Once, Fresh, DisabledNotActive, Selecting,
                      ByControl, controls
  <2>4. CASE UNCHANGED <<probing, waiting>>
    BY <2>1, <2>4 DEF TypeInv, Writes, Cautious, Once, Fresh, DisabledNotActive, Selecting,
                      ByControl, controls
  <2> QED
    BY <1>3, <2>2, <2>3, <2>4 DEF CancelUpload
<1>4. CASE Exit \/ Crash
  <2>1. /\ op' = Null /\ current' = Null /\ probing' = Null /\ waiting' = <<>>
        /\ phase' = "stopped" /\ UNCHANGED <<paused, enabled, persisted>>
    BY <1>4 DEF Exit, Crash, Gone
  <2>2. file' \in Files
    BY <1>4 DEF Exit, Crash, TypeInv, Mutations
  <2>3. TypeInv' /\ Writes' /\ Cautious'
    BY <2>1, <2>2, EmptySeq DEF TypeInv, Writes, Cautious
  <2>4. Once' /\ Fresh'
    BY <2>1, EmptySeq DEF Once, Fresh, DisabledNotActive, Selecting, ByControl
  <2> QED
    BY <2>3, <2>4
<1>5. CASE Start
  <2>1. /\ phase = "stopped" /\ phase' = "starting" /\ waiting' = <<"startup">>
        /\ paused' = file.paused /\ enabled' = file.enabled /\ persisted' = TRUE
        /\ op = Null /\ current = Null /\ probing = Null
        /\ UNCHANGED <<file, op, current, probing>>
    BY <1>5 DEF Start, Loaded, Cautious
  <2>2. waiting' \in Seq(Callers) /\ Len(waiting') = 1 /\ waiting'[1] = "startup"
    BY <2>1 DEF Callers
  <2>3. TypeInv' /\ Writes' /\ Cautious'
    BY <2>1, <2>2 DEF TypeInv, Files, Writes, Cautious
  <2>4. Once' /\ Fresh'
    BY <2>1, <2>2 DEF Once, Fresh, DisabledNotActive, Selecting, ByControl
  <2> QED
    BY <2>3, <2>4
<1>6. ASSUME NEW u \in Uploads, BeginUpload(u) \/ Uploaded(u)
      PROVE  ControlInv'
  <2>1. UNCHANGED <<file, paused, enabled, persisted, op, current, probing, waiting, phase>>
    BY <1>6 DEF BeginUpload, Uploaded, controls, selector
  <2> QED
    BY <2>1 DEF TypeInv, Writes, Cautious, Once, Fresh, DisabledNotActive, Selecting, ByControl
<1>7. CASE UNCHANGED vars
  BY <1>7 DEF vars, controls, selector, TypeInv, Writes, Cautious, Once, Fresh,
              DisabledNotActive, Selecting, ByControl
<1> QED
  BY <1>1, <1>2, <1>3, <1>4, <1>5, <1>6, <1>7

LEMMA StepInv ==
    ASSUME ControlInv, [Next]_vars
    PROVE  ControlInv'
BY RequestStep, SavedStep, AskStep, StartStep, ProbeStep, EndStep, ProcessStep DEF Next

LEMMA InvariantHolds == Spec => []ControlInv
<1>1. Init => ControlInv
  BY InitInv
<1>2. ControlInv /\ [Next]_vars => ControlInv'
  BY StepInv
<1> QED
  BY <1>1, <1>2, PTL DEF Spec

(* A client captures only when its file says so, and what it shows as saved*)
(* is in the file, whatever saves fail, before or after they replaced the  *)
(* file, and whenever the client crashes (set_paused).                     *)
THEOREM PausingIsSafe == Spec => []PauseIsSafe
<1>1. ControlInv => PauseIsSafe
  BY DEF ControlInv, Cautious, PauseIsSafe
<1> QED
  BY <1>1, InvariantHolds, PTL

(* A connection that is switched off is not chosen again by a selection    *)
(* that began before (set_endpoint_enabled, EndpointSelector.select).      *)
THEOREM SwitchedOffStaysOff == Spec => []DisabledNotActive
<1>1. ControlInv => DisabledNotActive
  BY DEF ControlInv, Fresh
<1> QED
  BY <1>1, InvariantHolds, PTL
=============================================================================
