----------------------------- MODULE ReadsProofs ------------------------------
(***************************************************************************)
(* What the server does on request: runs of the agent, the listings that   *)
(* are read page by page, the repair of a database, the searches over the  *)
(* pHash index, the overview of a period, and its numbers.  For any number *)
(* of browsers, turns, records, page sizes, defects, screenshots, hash     *)
(* lengths, radii, summary windows and periods.                            *)
(***************************************************************************)
EXTENDS AgentRuns, Paging, DataRepair, ImageSearch, Overview, Stats,
        FiniteSetTheorems, FunctionTheorems, SequenceTheorems, WellFoundedInduction, TLAPS

(***************************************************************************)
(* Loops, and sets put in order                                            *)
(***************************************************************************)
LEMMA LeastOf ==
    ASSUME NEW S, S \subseteq Nat, S # {}
    PROVE  Min(S) \in S /\ \A y \in S : Min(S) <= y
<1> DEFINE Less == OpToRel(<, Nat)
<1>1. IsWellFoundedOn(Less, Nat)
  BY NatLessThanWellFounded
<1>2. PICK x \in S : \A y \in S : ~(<<y, x>> \in Less)
  <2> HIDE DEF Less
  <2> QED BY <1>1, WFMin
<1>3. \A y \in S : x <= y
  <2> SUFFICES ASSUME NEW y \in S, y < x PROVE FALSE
    BY DEF Less
  <2>1. x \in Nat /\ y \in Nat
    OBVIOUS
  <2>2. <<y, x>> \in Less
    BY <2>1 DEF Less, OpToRel
  <2> QED BY <1>2, <2>2
<1> QED BY <1>3 DEF Min

(* What holds of 0 and of every successor of what it holds of.             *)
LEMMA AllOf ==
    ASSUME NEW S, 0 \in S, \A n \in Nat : n \in S => n + 1 \in S
    PROVE  Nat \subseteq S
<1> SUFFICES ASSUME NEW x \in Nat, x \notin S PROVE FALSE
  OBVIOUS
<1> DEFINE T == Nat \ S
           m == Min(T)
<1>1. m \in T /\ \A y \in T : m <= y
  BY LeastOf
<1> HIDE DEF m
<1>2. m \in Nat /\ m \notin S /\ m # 0
  BY <1>1
<1>3. m - 1 \in Nat /\ ~(m <= m - 1)
  BY <1>2
<1>4. m - 1 \in S
  BY <1>1, <1>3
<1> QED BY <1>2, <1>3, <1>4

(* A loop over n steps, each of which takes a value of V to another.       *)
Loop(n, V, base, step, f) ==
    f \in [0 .. n -> V] /\ f[0] = base /\ \A k \in 1 .. n : f[k] = step[k][f[k - 1]]

LEMMA LoopExists ==
    ASSUME NEW n \in Nat, NEW V, NEW base \in V, NEW step \in [1 .. n -> [V -> V]]
    PROVE  \E f : Loop(n, V, base, step, f)
<1> DEFINE Part(m, f) == f[0] = base /\ \A k \in 1 .. m : f[k] = step[k][f[k - 1]]
           S == {m \in Nat : m <= n => \E f \in [0 .. m -> V] : Part(m, f)}
<1>1. 0 \in S
  <2> DEFINE f == [k \in 0 .. 0 |-> base]
  <2>1. f \in [0 .. 0 -> V] /\ Part(0, f)
    OBVIOUS
  <2> HIDE DEF f, Part
  <2> QED BY <2>1
<1>2. ASSUME NEW m \in Nat, m \in S PROVE m + 1 \in S
  <2> SUFFICES ASSUME m + 1 <= n PROVE \E f \in [0 .. m + 1 -> V] : Part(m + 1, f)
    OBVIOUS
  <2>1. PICK f \in [0 .. m -> V] : Part(m, f)
    BY <1>2
  <2> DEFINE g == [k \in 0 .. m + 1 |-> IF k = m + 1 THEN step[m + 1][f[m]] ELSE f[k]]
  <2>2. step[m + 1][f[m]] \in V
    <3>1. m + 1 \in 1 .. n /\ f[m] \in V
      BY <2>1
    <3> QED BY <3>1
  <2>3. g \in [0 .. m + 1 -> V]
    BY <2>1, <2>2
  <2>4. g[0] = base
    BY <2>1
  <2>5. ASSUME NEW k \in 1 .. m + 1 PROVE g[k] = step[k][g[k - 1]]
    <3>1. CASE k = m + 1
      <4>1. g[k] = step[m + 1][f[m]] /\ g[k - 1] = f[m]
        BY <3>1
      <4> QED BY <3>1, <4>1
    <3>2. CASE k # m + 1
      <4>1. k \in 1 .. m /\ g[k] = f[k] /\ g[k - 1] = f[k - 1]
        BY <3>2
      <4> QED BY <2>1, <4>1
    <3> QED BY <3>1, <3>2
  <2> HIDE DEF g
  <2> QED BY <2>3, <2>4, <2>5
<1> HIDE DEF Part
<1>3. n \in S
  <2> HIDE DEF S
  <2> QED BY <1>1, <1>2, AllOf
<1> QED BY <1>3 DEF Part, Loop

(* A finite set in the order R. *)
Arrangement(S, R, seq) ==
    /\ seq \in SetToSeqs(S)
    /\ \A i, j \in DOMAIN seq : i < j => <<seq[i], seq[j]>> \in R

(* Any two members are told apart by how many come before.                 *)
LEMMA ArrangementExists ==
    ASSUME NEW S, IsFiniteSet(S), NEW R,
           \A x, y, z \in S : <<x, y>> \in R /\ <<y, z>> \in R => <<x, z>> \in R,
           \A x \in S : <<x, x>> \notin R,
           \A x, y \in S : x # y => <<x, y>> \in R \/ <<y, x>> \in R
    PROVE  \E seq : Arrangement(S, R, seq)
<1> DEFINE n == Cardinality(S)
           ahead(x) == {y \in S : <<y, x>> \in R}
           rank == [x \in S |-> Cardinality(ahead(x)) + 1]
           seq == [i \in 1 .. n |-> CHOOSE x \in S : rank[x] = i]
<1>1. n \in Nat
  BY FS_CardinalityType
<1> HIDE DEF n
<1>3. \A x \in S : /\ IsFiniteSet(ahead(x)) /\ Cardinality(ahead(x)) \in Nat
                   /\ Cardinality(ahead(x)) < n
  <2> SUFFICES ASSUME NEW x \in S
               PROVE  /\ IsFiniteSet(ahead(x)) /\ Cardinality(ahead(x)) \in Nat
                      /\ Cardinality(ahead(x)) < n
    OBVIOUS
  <2>1. ahead(x) \in SUBSET S /\ x \notin ahead(x)
    OBVIOUS
  <2> HIDE DEF ahead
  <2>2. IsFiniteSet(ahead(x)) /\ Cardinality(ahead(x)) <= n /\ Cardinality(ahead(x)) # n
    BY <1>1, <2>1, FS_Subset DEF n
  <2>3. Cardinality(ahead(x)) \in Nat
    BY <2>2, FS_CardinalityType
  <2> QED BY <1>1, <2>2, <2>3
<1>4. ASSUME NEW x \in S, NEW y \in S, <<x, y>> \in R
      PROVE  rank[x] < rank[y]
  <2>1. ahead(x) \in SUBSET ahead(y)
    BY <1>4
  <2>2. x \in ahead(y) /\ x \notin ahead(x)
    BY <1>4
  <2>3. IsFiniteSet(ahead(y)) /\ Cardinality(ahead(x)) \in Nat /\ Cardinality(ahead(y)) \in Nat
    BY <1>3
  <2>4. rank[x] = Cardinality(ahead(x)) + 1 /\ rank[y] = Cardinality(ahead(y)) + 1
    OBVIOUS
  <2> HIDE DEF ahead, rank
  <2>5. Cardinality(ahead(x)) <= Cardinality(ahead(y)) /\ Cardinality(ahead(x)) # Cardinality(ahead(y))
    BY <2>1, <2>2, <2>3, FS_Subset
  <2> QED BY <2>3, <2>4, <2>5
<1>5. rank \in [S -> 1 .. n]
  BY <1>1, <1>3
<1>6. rank \in Injection(S, 1 .. n)
  <2>1. \A x, y \in S : rank[x] = rank[y] => x = y
    <3> SUFFICES ASSUME NEW x \in S, NEW y \in S, rank[x] = rank[y], x # y PROVE FALSE
      OBVIOUS
    <3>1. rank[x] < rank[y] \/ rank[y] < rank[x]
      BY <1>4
    <3> HIDE DEF rank
    <3>2. rank[x] \in Nat /\ rank[y] \in Nat
      BY <1>1, <1>5
    <3> QED BY <3>1, <3>2
  <2> HIDE DEF rank
  <2> QED BY <1>5, <2>1, Fun_IsInj
<1> HIDE DEF rank
<1>7. \A i \in 1 .. n : \E x \in S : rank[x] = i
  <2>1. IsFiniteSet(1 .. n) /\ Cardinality(1 .. n) = n
    BY <1>1, FS_Interval
  <2>2. Cardinality(S) = Cardinality(1 .. n)
    BY <2>1 DEF n
  <2>3. rank \in Surjection(S, 1 .. n)
    BY <1>6, <2>1, <2>2, FS_Injection
  <2> QED BY <2>3, Fun_SurjectionProperties
<1>8. \A i \in 1 .. n : seq[i] \in S /\ rank[seq[i]] = i
  BY <1>7
<1>9. DOMAIN seq = 1 .. n /\ seq \in [1 .. n -> S]
  BY <1>7
<1> HIDE DEF seq
<1>10. \A i, j \in 1 .. n : i # j => seq[i] # seq[j]
  BY <1>8
<1>11. seq \in SetToSeqs(S)
  BY <1>9, <1>10 DEF SetToSeqs, n
<1>12. ASSUME NEW i \in 1 .. n, NEW j \in 1 .. n, i < j
       PROVE  <<seq[i], seq[j]>> \in R
  <2>1. seq[i] \in S /\ seq[j] \in S /\ rank[seq[i]] = i /\ rank[seq[j]] = j /\ seq[i] # seq[j]
    BY <1>8, <1>10, <1>12
  <2>2. CASE <<seq[j], seq[i]>> \in R
    <3>1. rank[seq[j]] < rank[seq[i]]
      BY <1>4, <2>1, <2>2
    <3> QED BY <1>12, <2>1, <3>1
  <2> QED BY <2>1, <2>2
<1>13. Arrangement(S, R, seq)
  BY <1>9, <1>11, <1>12 DEF Arrangement
<1> QED BY <1>13

LEMMA SeqsOf ==
    ASSUME NEW S, IsFiniteSet(S), NEW seq \in SetToSeqs(S)
    PROVE  /\ seq \in Seq(S) /\ Len(seq) = Cardinality(S) /\ ToSet(seq) = S
           /\ \A i, j \in 1 .. Len(seq) : i # j => seq[i] # seq[j]
<1> DEFINE n == Cardinality(S)
<1>1. n \in Nat /\ IsFiniteSet(1 .. n)
  BY FS_CardinalityType, FS_Interval
<1>2. seq \in [1 .. n -> S] /\ \A i, j \in 1 .. n : i # j => seq[i] # seq[j]
  BY DEF SetToSeqs
<1>3. seq \in Injection(1 .. n, S)
  BY <1>2, Fun_IsInj
<1>4. Cardinality(1 .. n) = Cardinality(S)
  BY <1>1, FS_Interval
<1>5. seq \in Surjection(1 .. n, S)
  BY <1>1, <1>3, <1>4, FS_Injection
<1> HIDE DEF n
<1>6. \A x \in S : \E i \in 1 .. n : seq[i] = x
  BY <1>5 DEF Surjection
<1>7. seq \in Seq(S) /\ Len(seq) = n /\ DOMAIN seq = 1 .. n
  BY <1>1, <1>2
<1>8. ToSet(seq) = S
  BY <1>2, <1>6, <1>7 DEF ToSet
<1> QED BY <1>2, <1>7, <1>8 DEF n

LEMMA ToSetFinite ==
    ASSUME NEW T, NEW seq \in Seq(T)
    PROVE  IsFiniteSet(ToSet(seq)) /\ ToSet(seq) \subseteq T
<1>1. Len(seq) \in Nat /\ DOMAIN seq = 1 .. Len(seq) /\ IsFiniteSet(1 .. Len(seq))
  BY FS_Interval
<1>2. seq \in Surjection(1 .. Len(seq), ToSet(seq))
  <2>1. seq \in [1 .. Len(seq) -> ToSet(seq)]
    BY <1>1 DEF ToSet
  <2>2. \A x \in ToSet(seq) : \E i \in 1 .. Len(seq) : seq[i] = x
    BY <1>1 DEF ToSet
  <2> QED BY <2>1, <2>2 DEF Surjection
<1>3. IsFiniteSet(ToSet(seq))
  BY <1>1, <1>2, FS_Surjection
<1> QED BY <1>1, <1>3 DEF ToSet

LEMMA SeqWider ==
    ASSUME NEW S, NEW T, S \subseteq T, NEW seq \in Seq(S)
    PROVE  seq \in Seq(T) /\ DOMAIN seq = 1 .. Len(seq)
<1>1. Len(seq) \in Nat /\ seq \in [1 .. Len(seq) -> S]
  OBVIOUS
<1>2. seq \in [1 .. Len(seq) -> T]
  BY <1>1
<1> QED BY <1>1, <1>2

(***************************************************************************)
(* AgentRuns                                                               *)
(***************************************************************************)
(* A run starts with a whole budget and asks again only within it; a label *)
(* answers one of its calls.                                               *)
Budget ==
    \A r \in Runs : /\ pc[r] \in {"idle", "prefetch"} => turn[r] = 0
                    /\ pc[r] = "model" => turn[r] < MaxIterations
                    /\ pc[r] \in {"setLabel", "addAudit"} => calls[r] > 0

(* A label in hand is one to set; a record that has none has no edit row.  *)
Hands ==
    /\ category = Unset => audited = Unset
    /\ \A r \in Runs :
          /\ pc[r] \in {"setLabel", "addAudit", "feedback"} => held[r] \in Label
          /\ pc[r] \in {"setLabel", "addAudit"} => held[r].after \in Categories

(* Nothing is told of a run that goes on, and only its end stores.         *)
Telling ==
    \A r \in Runs :
        /\ pc[r] # "idle" => told[r] = "none"
        /\ pc[r] \notin {"idle", "report"} => ~stored[r]
        /\ pc[r] \in {"insert", "report"} => IsReport(r)
        /\ pc[r] = "report" => stored[r] /\ latest[scope[r]] # Unset

AgentInv == TypeOK /\ Budget /\ Hands /\ TrailEndsInLabel /\ Telling /\ StoredIffTold

-----------------------------------------------------------------------------
LEMMA ScopesAreASequence ==
    /\ Scopes \in Seq(ScopeSet) /\ Chat \notin ScopeSet
    /\ MaxIterations \in Nat /\ 0 < MaxIterations /\ MaxCalls \in Nat
    /\ MaxRequests \in Nat /\ MaxRestarts \in Nat
    /\ Unset # "whole" /\ Unset # "failed"
    /\ Unset \notin Categories /\ NoRow \notin Categories /\ NoRow # Unset
BY AgentAssumption DEF AgentAssumption

LEMMA InitInv == Init => AgentInv
<1> SUFFICES ASSUME Init PROVE AgentInv
  OBVIOUS
<1>1. TypeOK
  <2>1. /\ failed \in [Runs -> BOOLEAN] /\ stored \in [Runs -> BOOLEAN]
    BY DEF Init
  <2>2. round \in Seq(ScopeSet)
    BY EmptySeq DEF Init
  <2>3. unrecorded \in BOOLEAN /\ audited \in Categories \cup {Unset}
        /\ category \in Categories \cup {Unset, NoRow}
    BY DEF Init
  <2>4. held \in [Runs -> Label \cup {Unset}]
    BY DEF Init
  <2> QED
    BY <2>1, <2>2, <2>3, <2>4, ScopesAreASequence DEF Init, TypeOK, Stages, Ends
<1>2. Budget /\ Hands /\ TrailEndsInLabel /\ Telling /\ StoredIffTold
  BY DEF Init, Budget, Hands, TrailEndsInLabel, Pending, Telling, StoredIffTold, IsReport
<1> QED
  BY <1>1, <1>2 DEF AgentInv

-----------------------------------------------------------------------------
(* A run begins.                                                           *)
LEMMA BeginKeepsInv ==
    ASSUME AgentInv, NEW r \in Runs, NEW s \in ScopeSet \cup {Chat}, Begin(r, s),
           round' \in Seq(ScopeSet), requests' \in 0 .. MaxRequests
    PROVE  AgentInv'
<1> USE ScopesAreASequence DEF AgentInv, Begin, Goto, local, label
<1>1. TypeOK'
  BY DEF TypeOK, Stages, Ends
<1>2. Budget' /\ Hands' /\ TrailEndsInLabel'
  BY DEF TypeOK, Budget, Hands, TrailEndsInLabel, Pending, Stages
<1>3. Telling' /\ StoredIffTold'
  BY DEF TypeOK, Telling, StoredIffTold, IsReport, Stages, Ends
<1> QED
  BY <1>1, <1>2, <1>3

(* The steps of a run that reach the model or a tool.                      *)
LEMMA ToolStepKeepsInv ==
    ASSUME AgentInv, NEW r \in Runs,
           Prefetch(r) \/ CallTools(r) \/ AskAgain(r) \/ ReadTool(r) \/ StartLabel(r)
           \/ SetLabel(r) \/ AddAudit(r) \/ LabelFails(r)
    PROVE  AgentInv'
<1> USE ScopesAreASequence DEF AgentInv, Step, Goto, local, label
<1>1. CASE Prefetch(r) \/ ReadTool(r) \/ AskAgain(r)
  <2>1. TypeOK' /\ Budget'
    <3>1. CASE Prefetch(r)
      BY <3>1 DEF Prefetch, Keep, TypeOK, Budget, Stages
    <3>2. CASE ReadTool(r)
      BY <3>2 DEF ReadTool, Keep, TypeOK, Budget, Stages
    <3>3. CASE AskAgain(r)
      BY <3>3 DEF AskAgain, Keep, TypeOK, Budget, Stages
    <3> QED
      BY <1>1, <3>1, <3>2, <3>3
  <2>2. Hands' /\ TrailEndsInLabel' /\ Telling' /\ StoredIffTold'
    BY <1>1 DEF Prefetch, ReadTool, AskAgain, Keep, TypeOK, Hands, TrailEndsInLabel, Pending,
                Telling, StoredIffTold, IsReport, Stages
  <2> QED
    BY <2>1, <2>2
<1>2. CASE CallTools(r)
  <2>1. TypeOK' /\ Budget'
    BY <1>2 DEF CallTools, Keep, TypeOK, Budget, Stages
  <2>2. Hands' /\ TrailEndsInLabel' /\ Telling' /\ StoredIffTold'
    BY <1>2 DEF CallTools, Keep, TypeOK, Hands, TrailEndsInLabel, Pending,
                Telling, StoredIffTold, IsReport, Stages
  <2> QED
    BY <2>1, <2>2
<1>3. CASE StartLabel(r)
  <2>1. PICK c \in Categories :
           held' = [held EXCEPT ![r] = [before |-> Current, after |-> c]]
    BY <1>3 DEF StartLabel
  <2>2. [before |-> Current, after |-> c] \in Label
    BY DEF TypeOK, Label, Current
  <2>3. TypeOK' /\ Budget'
    BY <1>3, <2>1, <2>2 DEF StartLabel, TypeOK, Budget, Stages
  <2>4. Hands' /\ TrailEndsInLabel'
    BY <1>3, <2>1, <2>2 DEF StartLabel, TypeOK, Hands, TrailEndsInLabel, Pending, Stages
  <2>5. Telling' /\ StoredIffTold'
    BY <1>3 DEF StartLabel, TypeOK, Telling, StoredIffTold, IsReport, Stages
  <2> QED
    BY <2>3, <2>4, <2>5
<1>4. CASE SetLabel(r)
  <2>1. held[r] \in Label /\ held[r].after \in Categories
    BY <1>4 DEF SetLabel, Hands
  <2>2. TypeOK' /\ Budget'
    BY <1>4, <2>1 DEF SetLabel, WriteLabel, TypeOK, Budget, Stages
  <2>3. Hands' /\ TrailEndsInLabel'
    BY <1>4, <2>1 DEF SetLabel, WriteLabel, TypeOK, Hands, TrailEndsInLabel, Pending, Stages
  <2>4. Telling' /\ StoredIffTold'
    BY <1>4 DEF SetLabel, WriteLabel, TypeOK, Telling, StoredIffTold, IsReport, Stages
  <2> QED
    BY <2>2, <2>3, <2>4
<1>5. CASE AddAudit(r)
  <2>1. held[r] \in Label /\ held[r].after \in Categories /\ held[r].after # Unset
    BY <1>5 DEF AddAudit, Hands
  <2>2. /\ audited' = held[r].after /\ unrecorded' = FALSE
        /\ category' = IF category = NoRow THEN NoRow ELSE held[r].after
        /\ UNCHANGED <<stored, latest>>
    BY <1>5, <2>1 DEF AddAudit, WriteAudit
  <2>3. TypeOK' /\ Budget'
    <3>1. /\ unrecorded' \in BOOLEAN
          /\ audited' \in Categories \cup {Unset}
          /\ category' \in Categories \cup {Unset, NoRow}
      BY <1>5, <2>1, <2>2
    <3> QED
      BY <1>5, <2>1, <2>2, <3>1 DEF AddAudit, Answer, TypeOK, Budget, Stages
  <2>4. Hands' /\ TrailEndsInLabel'
    BY <1>5, <2>1, <2>2 DEF AddAudit, Answer, TypeOK, Hands, TrailEndsInLabel, Pending, Stages
  <2>5. Telling' /\ StoredIffTold'
    BY <1>5, <2>2 DEF AddAudit, Answer, TypeOK, Telling, StoredIffTold, IsReport, Stages
  <2> QED
    BY <2>3, <2>4, <2>5
<1>6. CASE LabelFails(r)
  <2>1. PICK u \in BOOLEAN : u = (unrecorded \/ Pending({r}))
    OBVIOUS
  <2>2. /\ unrecorded' = u
        /\ UNCHANGED <<category, audited, stored, latest>>
    BY <1>6, <2>1 DEF LabelFails, Forget
  <2>3. TypeOK' /\ Budget'
    BY <1>6, <2>2 DEF LabelFails, Answer, TypeOK, Budget, Stages
  <2>4. Hands'
    BY <1>6, <2>2 DEF LabelFails, Answer, TypeOK, Hands, Stages
  <2>5. TrailEndsInLabel'
    BY <1>6, <2>1, <2>2 DEF LabelFails, Answer, TypeOK, TrailEndsInLabel, Pending, Stages
  <2>6. Telling' /\ StoredIffTold'
    BY <1>6, <2>2 DEF LabelFails, Answer, TypeOK, Telling, StoredIffTold, IsReport, Stages
  <2> QED
    BY <2>3, <2>4, <2>5, <2>6
<1> QED
  BY <1>1, <1>2, <1>3, <1>4, <1>5, <1>6

(* A run, or a posted feedback, ends with its audit row.                   *)
LEMMA WrittenKeepsInv ==
    ASSUME AgentInv, NEW r \in Runs, NEW end \in {"done", "gone"},
           pc[r] \in {"addAudit", "feedback"}, WriteAudit(r), Over(r, end),
           UNCHANGED <<scope, round, requests, restarts>>
    PROVE  AgentInv'
<1> USE ScopesAreASequence DEF AgentInv, Over, Goto
<1>1. held[r] \in Label /\ ~stored[r]
  BY DEF Hands, Telling
<1>2. CASE held[r].after = Unset
  <2>1. UNCHANGED <<category, audited, unrecorded, stored, latest>>
    BY <1>2 DEF WriteAudit, label
  <2>2. pc[r] = "feedback"
    BY <1>2 DEF Hands
  <2>3. TypeOK' /\ Budget' /\ Hands'
    BY <2>1 DEF TypeOK, Budget, Hands, Stages, Ends
  <2>4. TrailEndsInLabel'
    BY <2>1, <2>2 DEF TypeOK, TrailEndsInLabel, Pending, Stages
  <2>5. Telling' /\ StoredIffTold'
    BY <1>1, <2>1 DEF TypeOK, Telling, StoredIffTold, IsReport, Stages, Ends
  <2> QED
    BY <2>3, <2>4, <2>5
<1>3. CASE held[r].after # Unset
  <2>1. /\ audited' = held[r].after /\ unrecorded' = FALSE
        /\ category' = IF category = NoRow THEN NoRow ELSE held[r].after
        /\ UNCHANGED <<stored, latest>> /\ held[r].after \in Categories
    BY <1>1, <1>3 DEF WriteAudit, Label
  <2>2. TypeOK' /\ Budget' /\ Hands'
    <3>1. /\ unrecorded' \in BOOLEAN
          /\ audited' \in Categories \cup {Unset}
          /\ category' \in Categories \cup {Unset, NoRow}
      BY <2>1
    <3> QED
      BY <2>1, <3>1 DEF TypeOK, Budget, Hands, Stages, Ends
  <2>3. TrailEndsInLabel'
    BY <2>1 DEF TrailEndsInLabel
  <2>4. Telling' /\ StoredIffTold'
    BY <1>1, <2>1 DEF TypeOK, Telling, StoredIffTold, IsReport, Stages, Ends
  <2> QED
    BY <2>2, <2>3, <2>4
<1> QED
  BY <1>2, <1>3

(* POST /v1/feedback.                                                      *)
LEMMA FeedbackKeepsInv ==
    ASSUME AgentInv, NEW b \in Browsers, PostFeedback(b) \/ SaveFeedback(b)
    PROVE  AgentInv'
<1> USE ScopesAreASequence DEF AgentInv, Step, Goto, label
<1>1. b \in Runs
  BY DEF Runs
<1>2. CASE PostFeedback(b)
  <2>1. PICK c \in Categories \cup {Unset} :
           held' = [held EXCEPT ![b] = [before |-> Current, after |-> c]]
    BY <1>2 DEF PostFeedback
  <2>2. [before |-> Current, after |-> c] \in Label
    BY DEF TypeOK, Label, Current
  <2>3. TypeOK' /\ Budget'
    BY <1>1, <1>2, <2>1, <2>2 DEF PostFeedback, TypeOK, Budget, Stages, Ends
  <2>4. Hands' /\ TrailEndsInLabel'
    BY <1>1, <1>2, <2>1, <2>2 DEF PostFeedback, TypeOK, Hands, TrailEndsInLabel, Pending, Stages
  <2>5. Telling' /\ StoredIffTold'
    BY <1>1, <1>2 DEF PostFeedback, TypeOK, Telling, StoredIffTold, IsReport, Stages, Ends
  <2> QED
    BY <2>3, <2>4, <2>5
<1>3. CASE SaveFeedback(b)
  <2>1. pc[b] = "feedback" /\ ~stored[b]
        /\ UNCHANGED <<scope, round, requests, restarts>>
    BY <1>1, <1>3 DEF SaveFeedback, Telling
  <2>2. CASE WriteAudit(b) /\ Over(b, "done")
    BY <1>1, <2>1, <2>2, WrittenKeepsInv
  <2>3. CASE Over(b, "error") /\ UNCHANGED <<label, stored, latest>>
    <3>1. TypeOK' /\ Budget' /\ Hands' /\ TrailEndsInLabel'
      BY <1>1, <2>1, <2>3 DEF Over, TypeOK, Budget, Hands, TrailEndsInLabel, Pending, Stages, Ends
    <3>2. Telling' /\ StoredIffTold'
      BY <1>1, <2>1, <2>3 DEF Over, TypeOK, Telling, StoredIffTold, IsReport, Stages, Ends
    <3> QED
      BY <3>1, <3>2
  <2> QED
    BY <1>3, <2>2, <2>3 DEF SaveFeedback
<1> QED
  BY <1>2, <1>3

(* The ends of a run, a browser's hanging up included.                     *)
LEMMA EndKeepsInv ==
    ASSUME AgentInv, NEW r \in Runs,
           ModelAnswers(r) \/ ModelFails(r) \/ LastCallFails(r) \/ Insert(r) \/ Tell(r)
           \/ InsertFails(r) \/ HangUp(r)
    PROVE  AgentInv'
<1> USE ScopesAreASequence DEF AgentInv, Step, Goto, local, label
<1>1. CASE ModelAnswers(r) \/ LastCallFails(r)
  <2>1. PICK fails \in BOOLEAN : Finish(r, fails)
    BY <1>1 DEF ModelAnswers, LastCallFails
  <2>2. /\ pc[r] \in {"model", "final"} /\ ~stored[r]
        /\ UNCHANGED <<scope, requests, restarts, stored, round, label, latest>>
    BY <1>1 DEF ModelAnswers, LastCallFails, Telling
  <2>3. CASE IsReport(r)
    <3>1. /\ pc' = [pc EXCEPT ![r] = "insert"] /\ failed' = [failed EXCEPT ![r] = fails]
          /\ UNCHANGED <<turn, calls, held, told>>
      BY <2>1, <2>3 DEF Finish
    <3>2. failed' \in [Runs -> BOOLEAN]
      BY <3>1 DEF TypeOK
    <3>3. TypeOK'
      BY <2>2, <3>1, <3>2 DEF TypeOK, Stages
    <3>4. Budget' /\ Hands' /\ TrailEndsInLabel'
      BY <2>2, <3>1 DEF TypeOK, Budget, Hands, TrailEndsInLabel, Pending, Stages
    <3>5. Telling' /\ StoredIffTold'
      BY <2>2, <2>3, <3>1 DEF TypeOK, Telling, StoredIffTold, IsReport, Stages
    <3> QED
      BY <3>3, <3>4, <3>5
  <2>4. CASE ~IsReport(r)
    <3>1. Over(r, "done")
      BY <2>1, <2>4 DEF Finish
    <3>2. TypeOK' /\ Budget' /\ Hands' /\ TrailEndsInLabel'
      BY <2>2, <3>1 DEF Over, TypeOK, Budget, Hands, TrailEndsInLabel, Pending, Stages, Ends
    <3>3. Telling' /\ StoredIffTold'
      BY <2>2, <3>1 DEF Over, TypeOK, Telling, StoredIffTold, IsReport, Stages, Ends
    <3> QED
      BY <3>2, <3>3
  <2> QED
    BY <2>3, <2>4
<1>2. CASE ModelFails(r) \/ Tell(r) \/ InsertFails(r)
  <2>1. TypeOK'
    <3>1. PICK end \in {"error", "report", "gone"} : Over(r, end)
      BY <1>2 DEF ModelFails, Tell, InsertFails, Abort
    <3>2. UNCHANGED <<scope, requests, restarts, stored, round, label, latest>>
      BY <1>2 DEF ModelFails, Tell, InsertFails, Abort
    <3> QED
      BY <3>1, <3>2 DEF Over, TypeOK, Stages, Ends
  <2>2. Budget' /\ Hands' /\ TrailEndsInLabel'
    BY <1>2 DEF ModelFails, Tell, InsertFails, Abort, Over, TypeOK, Budget, Hands,
                TrailEndsInLabel, Pending, Stages
  <2>3. Telling' /\ StoredIffTold'
    BY <1>2 DEF ModelFails, Tell, InsertFails, Abort, Over, TypeOK, Telling, StoredIffTold,
                IsReport, Stages, Ends
  <2> QED
    BY <2>1, <2>2, <2>3
<1>3. CASE Insert(r)
  <2>1. scope[r] \in ScopeSet
    BY <1>3 DEF Insert, TypeOK, Telling, IsReport
  <2>2. TypeOK' /\ Budget' /\ Hands' /\ TrailEndsInLabel'
    BY <1>3, <2>1 DEF Insert, WriteReport, TypeOK, Budget, Hands, TrailEndsInLabel, Pending, Stages
  <2>3. Telling' /\ StoredIffTold'
    BY <1>3, <2>1 DEF Insert, WriteReport, TypeOK, Telling, StoredIffTold, IsReport, Stages
  <2> QED
    BY <2>2, <2>3
<1>4. CASE HangUp(r)
  <2>1. pc[r] \notin {"idle", "feedback"} /\ Over(r, "gone")
        /\ UNCHANGED <<scope, requests, restarts, round>>
    BY <1>4 DEF HangUp
  <2>2. CASE Forget({r}) /\ UNCHANGED <<category, audited, stored, latest>>
    <3>1. PICK u \in BOOLEAN : u = (unrecorded \/ Pending({r}))
      OBVIOUS
    <3>2. unrecorded' = u
      BY <2>2, <3>1 DEF Forget
    <3>3. TypeOK' /\ Budget' /\ Hands'
      BY <2>1, <2>2, <3>2 DEF Over, TypeOK, Budget, Hands, Stages, Ends
    <3>4. TrailEndsInLabel'
      BY <2>1, <2>2, <3>1, <3>2 DEF Over, TypeOK, TrailEndsInLabel, Pending, Stages
    <3>5. Telling' /\ StoredIffTold'
      BY <2>1, <2>2 DEF Over, TypeOK, Telling, StoredIffTold, IsReport, Stages, Ends
    <3> QED
      BY <3>3, <3>4, <3>5
  <2>3. CASE pc[r] = "setLabel" /\ WriteLabel(r) /\ unrecorded' = TRUE
    <3>1. held[r] \in Label /\ held[r].after \in Categories
      BY <2>3 DEF Hands
    <3>2. TypeOK' /\ Budget' /\ Hands' /\ TrailEndsInLabel'
      BY <2>1, <2>3, <3>1 DEF WriteLabel, Over, TypeOK, Budget, Hands, TrailEndsInLabel,
                              Stages, Ends
    <3>3. Telling' /\ StoredIffTold'
      BY <2>1, <2>3 DEF WriteLabel, Over, TypeOK, Telling, StoredIffTold, IsReport, Stages, Ends
    <3> QED
      BY <3>2, <3>3
  <2>4. CASE pc[r] = "addAudit" /\ WriteAudit(r)
    <3>1. held[r] \in Label
      BY <2>4 DEF Hands
    <3>2. scope' = scope /\ round' = round /\ requests' = requests /\ restarts' = restarts
      BY <2>1
    <3> QED
      BY <2>1, <2>4, <3>1, <3>2, WrittenKeepsInv DEF Ends
  <2>5. CASE pc[r] = "insert" /\ WriteReport(r)
    <3>1. scope[r] \in ScopeSet
      BY <2>5 DEF TypeOK, Telling, IsReport
    <3>2. TypeOK' /\ Budget' /\ Hands' /\ TrailEndsInLabel'
      BY <2>1, <2>5, <3>1 DEF WriteReport, Over, TypeOK, Budget, Hands, TrailEndsInLabel, Pending,
                              Stages, Ends
    <3>3. Telling' /\ StoredIffTold'
      BY <2>1, <2>5, <3>1 DEF WriteReport, Over, TypeOK, Telling, StoredIffTold, IsReport,
                              Stages, Ends
    <3> QED
      BY <3>2, <3>3
  <2> QED
    BY <1>4, <2>2, <2>3, <2>4, <2>5 DEF HangUp
<1> QED
  BY <1>1, <1>2, <1>3, <1>4

-----------------------------------------------------------------------------
LEMMA StepInv ==
    ASSUME AgentInv, [Next]_vars
    PROVE  AgentInv'
<1>1. CASE WakeScheduler
  BY <1>1, ScopesAreASequence
     DEF WakeScheduler, run, local, label, AgentInv, TypeOK, Budget, Hands,
         TrailEndsInLabel, Pending, Telling, StoredIffTold, IsReport
<1>2. CASE NextScope
  <2>1. /\ round \in Seq(ScopeSet) /\ round # <<>> /\ requests' = requests
    BY <1>2 DEF NextScope, AgentInv, TypeOK
  <2>2. Head(round) \in ScopeSet /\ round' \in Seq(ScopeSet)
    BY <1>2, <2>1, HeadTailProperties DEF NextScope
  <2> QED
    BY <1>2, <2>1, <2>2, BeginKeepsInv DEF NextScope, Runs, AgentInv, TypeOK
<1>3. CASE Restart
  <2> USE DEF Restart, AgentInv, label
  <2>1. TypeOK'
    <3>1. /\ failed' \in [Runs -> BOOLEAN] /\ round' \in Seq(ScopeSet)
          /\ unrecorded' \in BOOLEAN
      BY <1>3, EmptySeq DEF Forget
    <3> QED
      BY <1>3, <3>1, ScopesAreASequence DEF TypeOK, Stages, Ends
  <2>2. Budget' /\ Hands' /\ TrailEndsInLabel'
    <3>1. unrecorded' = (unrecorded \/ Pending(Runs))
      BY <1>3 DEF Forget
    <3> HIDE DEF Pending
    <3>2. UNCHANGED <<category, audited>>
      BY <1>3
    <3>3. TrailEndsInLabel'
      BY <3>1, <3>2 DEF TrailEndsInLabel
    <3> QED
      BY <1>3, <3>3 DEF Budget, Hands
  <2>3. Telling' /\ StoredIffTold'
    BY <1>3 DEF TypeOK, Telling, StoredIffTold, Ends
  <2> QED
    BY <2>1, <2>2, <2>3
<1>4. ASSUME NEW r \in Runs, RunStep(r)
      PROVE  AgentInv'
  BY <1>4, ToolStepKeepsInv, EndKeepsInv DEF RunStep
<1>5. ASSUME NEW b \in Browsers, Browse(b)
      PROVE  AgentInv'
  <2>1. /\ round' \in Seq(ScopeSet) /\ requests' \in 0 .. MaxRequests
    BY <1>5, ScopesAreASequence DEF Browse, AgentInv, TypeOK
  <2>2. PICK s \in ScopeSet \cup {Chat} : Begin(b, s)
    BY <1>5 DEF Browse
  <2> QED
    BY <2>1, <2>2, BeginKeepsInv DEF Runs
<1>6. ASSUME NEW b \in Browsers, HangUp(b)
      PROVE  AgentInv'
  BY <1>6, EndKeepsInv DEF Runs
<1>8. ASSUME NEW b \in Browsers, PostFeedback(b) \/ SaveFeedback(b)
      PROVE  AgentInv'
  BY <1>8, FeedbackKeepsInv
<1>7. CASE UNCHANGED vars
  BY <1>7 DEF vars, run, local, label, AgentInv, TypeOK, Budget, Hands,
              TrailEndsInLabel, Pending, Telling, StoredIffTold, IsReport
<1> QED
  BY <1>1, <1>2, <1>3, <1>4, <1>5, <1>6, <1>7, <1>8 DEF Next

LEMMA InvariantHolds == Spec => []AgentInv
<1>1. Init => AgentInv
  BY InitInv
<1>2. AgentInv /\ [Next]_vars => AgentInv'
  BY StepInv
<1> QED
  BY <1>1, <1>2, PTL DEF Spec

(* The variables keep their types; a run never exceeds its turns.          *)
THEOREM TypeCorrect == Spec => []TypeOK
<1>1. AgentInv => TypeOK
  BY DEF AgentInv
<1> QED
  BY <1>1, InvariantHolds, PTL

(* What a caller is told of a report is true (generate_stream,             *)
(* _report_scheduler).                                                     *)
THEOREM ToldIsTrue == Spec => []StoredIffTold
<1>1. AgentInv => StoredIffTold
  BY DEF AgentInv
<1> QED
  BY <1>1, InvariantHolds, PTL

(* The audit trail of a record ends in its label, or that label's row is to *)
(* come or was cut off (apply_label, insert_feedback).                     *)
THEOREM TrailIsCurrent == Spec => []TrailEndsInLabel
<1>1. AgentInv => TrailEndsInLabel
  BY DEF AgentInv
<1> QED
  BY <1>1, InvariantHolds, PTL

-----------------------------------------------------------------------------
(***************************************************************************)
(* Paging                                                                  *)
(***************************************************************************)
Cursor == [ts : Nat, id : Nat, none : BOOLEAN]

ReaderType ==
    [pc : {"paging", "done"}, kind : Kinds, order : {"asc", "desc"},
     from : 0 .. LastTime, to : 0 .. LastTime, dev : Devices \cup {AnyDevice},
     cursor : Cursor, anchor : Cursor, snapshot : Nat, given : Seq(Row)]

Distinct(s) == \A i, j \in DOMAIN s : s[i].id = s[j].id => i = j

InOrder(order, s) == \A i, j \in DOMAIN s : i < j => Ahead(order, s[i], s[j])

(* What the reader asked for at its first page, and what of it lies behind *)
(* its cursor.                                                             *)
BeyondAnchor(q, r) == Beyond([q EXCEPT !.cursor = q.anchor], r)
Owed(q, seen) == {r \in ToSet(seen) : InWindow(q, r) /\ BeyondAnchor(q, r)}
Behind(q, S) == {r \in S : ~Beyond(q, r)}
Snapshot(q) == SubSeq(rows, 1, q.snapshot)

(* The pages so far are in order, and are what was asked for up to the     *)
(* cursor: all of it that was there at the first page, and nothing that    *)
(* the reader may not see.                                                 *)
Exact(q) ==
    /\ InOrder(q.order, q.given)
    /\ \A r \in Row : Beyond(q, r) => BeyondAnchor(q, r)
    /\ ToSet(q.given) \subseteq Behind(q, Owed(q, Seen(q)))
    /\ Behind(q, Owed(q, Snapshot(q))) \subseteq ToSet(q.given)
    /\ q.pc = "done" => \A r \in Owed(q, Snapshot(q)) : ~Beyond(q, r)

ReaderInv ==
    reader # NoReader =>
        /\ reader \in ReaderType /\ reader.snapshot <= Len(rows)
        /\ reader.kind = "audit" => reader.order = "desc"
        /\ reader.kind # "timeline" => Exact(reader)

PagingInv == rows \in Seq(Row) /\ Distinct(rows) /\ ReaderInv

-----------------------------------------------------------------------------
(* The order of two records, and the sorted sequence of a set of them.     *)
Orders == {"asc", "desc"}

Table(S) == S \subseteq Row /\ IsFiniteSet(S) /\ \A a, b \in S : a.id = b.id => a = b

Points == [ts : Nat, id : Nat, none : BOOLEAN] \cup Row

LEMMA PointsTyped == \A a \in Points : a.ts \in Nat /\ a.id \in Nat
<1>1. \A a \in [ts : Nat, id : Nat, none : BOOLEAN] : a.ts \in Nat /\ a.id \in Nat
  OBVIOUS
<1>2. \A a \in Row : a.ts \in Nat /\ a.id \in Nat
  <2>1. \A a \in Row : a.ts \in 0 .. LastTime /\ a.id \in Ids
    BY DEF Row
  <2>2. Ids \subseteq Nat /\ LastTime \in Nat
    BY PagingAssumption
  <2> SUFFICES ASSUME NEW a \in Row PROVE a.ts \in Nat /\ a.id \in Nat
    OBVIOUS
  <2>3. a.ts \in Nat
    BY <2>1, <2>2
  <2>4. a.id \in Nat
    BY <2>1, <2>2
  <2> QED BY <2>3, <2>4
<1> QED BY <1>1, <1>2 DEF Points

LEMMA AheadOrders ==
    ASSUME NEW order \in Orders
    PROVE  /\ \A a \in Points : ~Ahead(order, a, a)
           /\ \A a, b, c \in Points : Ahead(order, a, b) /\ Ahead(order, b, c) => Ahead(order, a, c)
           /\ \A a, b \in Points : Ahead(order, a, b) => ~Ahead(order, b, a)
           /\ \A a, b \in Points : a.id # b.id => Ahead(order, a, b) \/ Ahead(order, b, a)
           /\ \A a, b, c \in Points : Ahead(order, c, b) /\ ~Ahead(order, c, a) => Ahead(order, a, b)
<1>1. \A a \in Points : a.ts \in Nat /\ a.id \in Nat
  BY PointsTyped
<1> HIDE DEF Points
<1> QED BY <1>1 DEF Ahead, Before, Orders

LEMMA InTable ==
    ASSUME NEW S, Table(S), NEW order \in Orders
    PROVE  /\ S \subseteq Points
           /\ \A a, b \in S : a # b => Ahead(order, a, b) \/ Ahead(order, b, a)
<1>1. S \subseteq Points /\ \A a, b \in S : a # b => a.id # b.id
  BY DEF Table, Points
<1> HIDE DEF Points
<1> QED BY <1>1, AheadOrders

LEMMA SortedIs ==
    ASSUME NEW S, Table(S), NEW order \in Orders
    PROVE  /\ Sorted(order, S) \in Seq(S) /\ Len(Sorted(order, S)) = Cardinality(S)
           /\ InOrder(order, Sorted(order, S)) /\ ToSet(Sorted(order, S)) = S
<1> DEFINE seq == Sorted(order, S)
           R == {p \in S \X S : Ahead(order, p[1], p[2])}
<1>1. IsFiniteSet(S)
  BY DEF Table
<1>2. \A a, b \in S : <<a, b>> \in R <=> Ahead(order, a, b)
  OBVIOUS
<1>3. /\ S \subseteq Points
      /\ \A a, b \in S : a # b => Ahead(order, a, b) \/ Ahead(order, b, a)
  BY InTable
<1> HIDE DEF R
<1>4. /\ \A a, b, c \in S : <<a, b>> \in R /\ <<b, c>> \in R => <<a, c>> \in R
      /\ \A a \in S : <<a, a>> \notin R
      /\ \A a, b \in S : a # b => <<a, b>> \in R \/ <<b, a>> \in R
  BY <1>2, <1>3, AheadOrders
<1>5. PICK some : Arrangement(S, R, some)
  BY <1>1, <1>4, ArrangementExists
<1>6. some \in SetToSeqs(S) /\ \A i, j \in DOMAIN some : i < j => Ahead(order, some[i], some[j])
  <2>1. some \in [1 .. Cardinality(S) -> S]
    BY <1>5 DEF Arrangement, SetToSeqs
  <2> QED BY <1>2, <1>5, <2>1 DEF Arrangement
<1>7. seq \in SetToSeqs(S) /\ \A i, j \in DOMAIN seq : i < j => Ahead(order, seq[i], seq[j])
  BY <1>6 DEF Sorted
<1> HIDE DEF seq
<1> QED BY <1>1, <1>7, SeqsOf DEF InOrder, seq

(* In an ordered sequence as many elements come up to the i-th one as i.   *)
LEMMA Position ==
    ASSUME NEW order \in Orders, NEW s \in Seq(Row), InOrder(order, s), NEW i \in 1 .. Len(s)
    PROVE  Cardinality({y \in ToSet(s) : ~Ahead(order, s[i], y)}) = i
<1> DEFINE upto == {y \in ToSet(s) : ~Ahead(order, s[i], y)}
           f == [j \in 1 .. i |-> s[j]]
<1>1. Len(s) \in Nat /\ DOMAIN s = 1 .. Len(s) /\ \A j \in 1 .. Len(s) : s[j] \in Points
  BY DEF Points
<1>2. \A j, k \in 1 .. Len(s) : j < k => Ahead(order, s[j], s[k])
  BY <1>1 DEF InOrder
<1>3. \A j \in 1 .. Len(s) : j <= i <=> ~Ahead(order, s[i], s[j])
  <2> SUFFICES ASSUME NEW j \in 1 .. Len(s)
               PROVE  j <= i <=> ~Ahead(order, s[i], s[j])
    OBVIOUS
  <2>1. CASE j < i
    BY <1>1, <1>2, <2>1, AheadOrders
  <2>2. CASE j = i
    BY <1>1, <2>2, AheadOrders
  <2>3. CASE i < j
    BY <1>1, <1>2, <2>3
  <2> QED BY <1>1, <2>1, <2>2, <2>3
<1>4. i \in Nat /\ 1 .. i \subseteq 1 .. Len(s)
  BY <1>1
<1>5. f \in [1 .. i -> upto]
  BY <1>1, <1>3, <1>4 DEF ToSet
<1>6. \A t \in upto : \E j \in 1 .. i : f[j] = t
  <2> SUFFICES ASSUME NEW t \in upto PROVE \E j \in 1 .. i : f[j] = t
    OBVIOUS
  <2>1. PICK j \in 1 .. Len(s) : s[j] = t
    BY <1>1 DEF ToSet
  <2>2. j <= i
    BY <1>3, <2>1
  <2>3. j \in 1 .. i
    BY <1>1, <1>4, <2>2
  <2> QED BY <2>1, <2>3
<1>7. \A j, k \in 1 .. i : f[j] = f[k] => j = k
  <2> SUFFICES ASSUME NEW j \in 1 .. i, NEW k \in 1 .. i, f[j] = f[k], j # k PROVE FALSE
    OBVIOUS
  <2>1. j \in 1 .. Len(s) /\ k \in 1 .. Len(s) /\ s[j] = s[k]
    BY <1>4
  <2>2. Ahead(order, s[j], s[k]) \/ Ahead(order, s[k], s[j])
    BY <1>1, <1>2, <2>1
  <2> QED BY <1>1, <2>1, <2>2, AheadOrders
<1> HIDE DEF f
<1>8. f \in Bijection(1 .. i, upto)
  <2> HIDE DEF upto
  <2> QED BY <1>5, <1>6, <1>7, Fun_IsBij
<1>9. IsFiniteSet(1 .. i) /\ Cardinality(1 .. i) = i
  BY <1>4, FS_Interval
<1>10. ExistsBijection(1 .. i, upto)
  BY <1>8 DEF ExistsBijection
<1> HIDE DEF upto
<1>11. Cardinality(upto) = i
  BY <1>9, <1>10, FS_Bijection
<1> QED BY <1>11 DEF upto

LEMMA ToSetSub ==
    ASSUME NEW S, NEW s \in Seq(S)
    PROVE  ToSet(s) \subseteq S /\ \A i \in 1 .. Len(s) : s[i] \in ToSet(s)
BY DEF ToSet

(* An ordered part of a table that leaves out nothing before its end is a  *)
(* prefix of the sorted table.                                             *)
LEMMA PartIsPrefix ==
    ASSUME NEW order \in Orders, NEW W, Table(W), NEW s \in Seq(Row), InOrder(order, s),
           ToSet(s) \subseteq W,
           \A x \in ToSet(s), y \in W : Ahead(order, y, x) => y \in ToSet(s)
    PROVE  /\ IsPrefix(s, Sorted(order, W))
           /\ ToSet(s) = W => s = Sorted(order, W)
<1> DEFINE t == Sorted(order, W)
<1>1. t \in Seq(W) /\ InOrder(order, t) /\ ToSet(t) = W
  BY SortedIs
<1>2. W \subseteq Row /\ W \subseteq Points
  BY DEF Table, Points
<1>3. t \in Seq(Row)
  BY <1>1, <1>2
<1> HIDE DEF t
<1>4. /\ Len(s) \in Nat /\ DOMAIN s = 1 .. Len(s) /\ Len(t) \in Nat /\ DOMAIN t = 1 .. Len(t)
  BY <1>3
<1>5. ASSUME NEW i \in 1 .. Len(s)
      PROVE  i <= Len(t) /\ s[i] = t[i]
  <2>1. s[i] \in ToSet(s) /\ s[i] \in W
    BY ToSetSub
  <2>2. PICK k \in 1 .. Len(t) : t[k] = s[i]
    BY <1>1, <1>4, <2>1 DEF ToSet
  <2>3. {y \in ToSet(s) : ~Ahead(order, s[i], y)} = {y \in ToSet(t) : ~Ahead(order, t[k], y)}
    <3> SUFFICES ASSUME NEW y \in W, ~Ahead(order, s[i], y) PROVE y \in ToSet(s)
      BY <1>1, <2>2
    <3>1. y = s[i] \/ Ahead(order, y, s[i])
      BY <2>1, InTable
    <3> QED BY <2>1, <3>1
  <2>4. i = k
    BY <1>1, <1>3, <2>2, <2>3, Position
  <2> QED BY <1>4, <2>2, <2>4
<1>6. Len(s) <= Len(t)
  <2>1. CASE Len(s) = 0
    BY <1>4, <2>1
  <2>2. CASE Len(s) > 0
    BY <1>4, <1>5, <2>2
  <2> QED BY <1>4, <2>1, <2>2
<1>7. IsPrefix(s, t)
  <2>1. SubSeq(s, 1, Len(s)) = s
    BY SubSeqFull
  <2>2. \A i \in 1 .. Len(s) : t[i] \in Row
    BY <1>3, <1>4, <1>6
  <2> DEFINE u == SubSeq(t, 1, Len(s))
  <2>3. /\ u \in Seq(Row) /\ Len(u) = Len(s)
        /\ \A i \in 1 .. Len(s) : u[i] = t[i]
    BY <1>4, <2>2, SubSeqProperties
  <2> HIDE DEF u
  <2>4. u = s
    BY <1>5, <2>3, SeqEqual
  <2> QED BY <1>6, <2>1, <2>4 DEF u, IsPrefix
<1>8. ASSUME ToSet(s) = W PROVE s = t
  <2>1. Len(t) <= Len(s)
    <3> SUFFICES ASSUME Len(s) < Len(t) PROVE FALSE
      BY <1>4
    <3>1. t[Len(t)] \in W /\ Len(t) \in 1 .. Len(t)
      BY <1>1, <1>4, ElementOfSeq
    <3>2. PICK k \in 1 .. Len(s) : s[k] = t[Len(t)]
      BY <1>4, <1>8, <3>1 DEF ToSet
    <3>3. t[k] = t[Len(t)] /\ k < Len(t) /\ k \in 1 .. Len(t)
      BY <1>4, <1>5, <3>2
    <3>4. Ahead(order, t[k], t[Len(t)])
      BY <1>1, <1>4, <3>1, <3>3 DEF InOrder
    <3> QED BY <1>2, <3>1, <3>3, <3>4, AheadOrders
  <2> QED BY <1>3, <1>4, <1>5, <1>6, <2>1, SeqEqual
<1> QED BY <1>7, <1>8 DEF t

-----------------------------------------------------------------------------
LEMMA RowsAreATable ==
    ASSUME rows \in Seq(Row), Distinct(rows), NEW S, S \subseteq ToSet(rows)
    PROVE  Table(S)
<1> DEFINE n == Len(rows)
           all == ToSet(rows)
           f == [i \in 1 .. n |-> rows[i]]
<1>1. n \in Nat /\ DOMAIN rows = 1 .. n
  OBVIOUS
<1>2. f \in [1 .. n -> all] /\ \A x \in all : \E i \in 1 .. n : f[i] = x
  BY <1>1 DEF ToSet
<1>3. all \subseteq Row
  BY ToSetSub
<1>4. \A a, b \in all : a.id = b.id => a = b
  BY DEF ToSet, Distinct
<1> HIDE DEF f, all, n
<1>5. f \in Surjection(1 .. n, all)
  BY <1>2, Fun_IsSurj
<1>6. IsFiniteSet(1 .. n)
  BY <1>1, FS_Interval
<1>7. IsFiniteSet(all)
  BY <1>5, <1>6, FS_Surjection
<1>8. S \subseteq all /\ S \in SUBSET all
  BY DEF all
<1>9. IsFiniteSet(S)
  BY <1>7, <1>8, FS_Subset
<1> QED BY <1>3, <1>4, <1>8, <1>9 DEF Table

LEMMA SeenIs ==
    ASSUME rows \in Seq(Row), NEW q \in ReaderType, q.snapshot <= Len(rows)
    PROVE  /\ ToSet(Snapshot(q)) \subseteq ToSet(Seen(q)) /\ ToSet(Seen(q)) \subseteq ToSet(rows)
           /\ Snapshot(q) \in Seq(Row) /\ Seen(q) \in Seq(Row)
           /\ q.kind = "activity" => Seen(q) = Snapshot(q)
<1>1. q.snapshot \in Nat /\ Len(rows) \in Nat /\ DOMAIN rows = 1 .. Len(rows)
  BY DEF ReaderType
<1>2. \A i \in 1 .. q.snapshot : i \in 1 .. Len(rows) /\ rows[i] \in Row
  BY <1>1
<1> DEFINE s == SubSeq(rows, 1, q.snapshot)
<1>3. s \in Seq(Row) /\ Len(s) = q.snapshot /\ \A i \in 1 .. q.snapshot : s[i] = rows[i]
  BY <1>1, <1>2, SubSeqProperties
<1> HIDE DEF s
<1>4. DOMAIN s = 1 .. q.snapshot
  BY <1>3
<1>5. ToSet(s) \subseteq ToSet(rows)
  BY <1>1, <1>2, <1>3, <1>4 DEF ToSet
<1>6. Snapshot(q) = s /\ (Seen(q) = s \/ (Seen(q) = rows /\ q.kind # "activity"))
  BY DEF Snapshot, Seen, s
<1> QED BY <1>3, <1>5, <1>6

LEMMA AnchorIs ==
    ASSUME NEW q \in ReaderType, NEW r
    PROVE  BeyondAnchor(q, r) = (q.anchor.none \/ Ahead(q.order, q.anchor, r))
BY DEF BeyondAnchor, Beyond, ReaderType

(* The fields of the reader that a page leaves alone.                      *)
Same(p, q) == /\ p.kind = q.kind /\ p.order = q.order /\ p.from = q.from /\ p.to = q.to
              /\ p.dev = q.dev /\ p.anchor = q.anchor /\ p.snapshot = q.snapshot

LEMMA OwedSame ==
    ASSUME NEW p \in ReaderType, NEW q \in ReaderType, Same(p, q), NEW seen
    PROVE  /\ Owed(p, seen) = Owed(q, seen) /\ Seen(p) = Seen(q) /\ Snapshot(p) = Snapshot(q)
           /\ \A r : BeyondAnchor(p, r) = BeyondAnchor(q, r)
<1>1. \A r : BeyondAnchor(p, r) = BeyondAnchor(q, r)
  BY AnchorIs DEF Same
<1> QED BY <1>1 DEF Same, Owed, InWindow, Seen, Snapshot

LEMMA AtIs ==
    ASSUME NEW order, NEW r, NEW x
    PROVE  Ahead(order, At(r), x) = Ahead(order, r, x) /\ At(r).none = FALSE
BY DEF Ahead, Before, At

(* A page: the first of what lies beyond the cursor, in order.             *)
LEMMA PageIs ==
    ASSUME rows \in Seq(Row), Distinct(rows), NEW q \in ReaderType, q.snapshot <= Len(rows)
    PROVE  LET F == {r \in ToSet(Seen(q)) : InWindow(q, r) /\ Past(q, r)}
               found == Asked(q)
               m == IF Len(found) < PageLimit THEN Len(found) ELSE PageLimit
               page == SubSeq(found, 1, m)
           IN  /\ found \in Seq(Row) /\ Len(found) \in Nat /\ InOrder(q.order, found)
               /\ ToSet(found) = F /\ DOMAIN found = 1 .. Len(found)
               /\ page \in Seq(Row) /\ Len(page) = m /\ m \in Nat /\ m <= Len(found)
               /\ DOMAIN page = 1 .. m /\ \A i \in 1 .. m : page[i] = found[i]
               /\ page = <<>> <=> m = 0
               /\ m = 0 => Len(found) = 0
<1> DEFINE F == {r \in ToSet(Seen(q)) : InWindow(q, r) /\ Past(q, r)}
           found == Asked(q)
           m == IF Len(found) < PageLimit THEN Len(found) ELSE PageLimit
           page == SubSeq(found, 1, m)
<1>0. PageLimit \in Nat \ {0} /\ q.order \in Orders
  BY PagingAssumption DEF ReaderType, Orders
<1>1. Table(F)
  BY SeenIs, RowsAreATable
<1>2. found = Sorted(q.order, F)
  BY DEF Asked
<1>3. found \in Seq(F) /\ InOrder(q.order, found) /\ ToSet(found) = F
  <2> HIDE DEF F, found
  <2> QED BY <1>0, <1>1, <1>2, SortedIs
<1>4. found \in Seq(Row) /\ Len(found) \in Nat /\ DOMAIN found = 1 .. Len(found)
  <2> HIDE DEF F, found
  <2> QED BY <1>1, <1>3 DEF Table
<1>5. m \in Nat /\ m <= Len(found) /\ (m = 0 => Len(found) = 0)
  <2> HIDE DEF F, found
  <2> QED BY <1>0, <1>4
<1>6. \A i \in 1 .. m : found[i] \in Row
  <2> HIDE DEF F, found, m
  <2> QED BY <1>4, <1>5
<1>7. page \in Seq(Row) /\ Len(page) = m /\ \A i \in 1 .. m : page[i] = found[i]
  <2> HIDE DEF F, found, m
  <2> QED BY <1>5, <1>6, SubSeqProperties
<1>8. DOMAIN page = 1 .. m /\ (page = <<>> <=> m = 0)
  <2> HIDE DEF F, found, m, page
  <2>1. DOMAIN page = 1 .. m
    BY <1>7
  <2>2. page = <<>> => m = 0
    BY <1>7
  <2>3. m = 0 => page = <<>>
    BY <1>7, EmptySeq
  <2> QED BY <2>1, <2>2, <2>3
<1> HIDE DEF m, found, page, F
<1>9. /\ found \in Seq(Row) /\ Len(found) \in Nat /\ InOrder(q.order, found)
      /\ ToSet(found) = F /\ DOMAIN found = 1 .. Len(found)
      /\ page \in Seq(Row) /\ Len(page) = m /\ m \in Nat /\ m <= Len(found)
      /\ DOMAIN page = 1 .. m /\ (\A i \in 1 .. m : page[i] = found[i])
      /\ (page = <<>> <=> m = 0)
      /\ m = 0 => Len(found) = 0
  BY <1>3, <1>4, <1>5, <1>7, <1>8
<1> QED BY <1>9 DEF m, found, page, F

LEMMA ServedTyped ==
    ASSUME rows \in Seq(Row), Distinct(rows), NEW q \in ReaderType, q.snapshot <= Len(rows)
    PROVE  Served(q) \in ReaderType /\ Same(Served(q), q)
<1> DEFINE found == Asked(q)
           m == IF Len(found) < PageLimit THEN Len(found) ELSE PageLimit
           page == SubSeq(found, 1, m)
           cursor == IF page = <<>> THEN q.cursor ELSE At(Last(page))
           given == q.given \o page
           further == IF More(q, found) THEN "paging" ELSE "done"
<1>1. page \in Seq(Row) /\ Len(page) \in Nat /\ (page # <<>> => Len(page) > 0)
  BY PageIs
<1>2. Served(q) = [q EXCEPT !.given = given, !.cursor = cursor, !.pc = further]
  BY DEF Served
<1>3. cursor \in Cursor
  <2>1. q.cursor \in Cursor
    BY DEF ReaderType
  <2>2. \A r \in Row : At(r) \in Cursor
    <3> SUFFICES ASSUME NEW r \in Row PROVE At(r) \in Cursor
      OBVIOUS
    <3>1. r.ts \in Nat /\ r.id \in Nat
      BY PointsTyped DEF Points
    <3> QED BY <3>1 DEF At, Cursor
  <2>3. page # <<>> => Last(page) \in Row
    <3> HIDE DEF page
    <3> QED BY <1>1 DEF Last
  <2> HIDE DEF page
  <2> QED BY <2>1, <2>2, <2>3
<1>4. given \in Seq(Row) /\ further \in {"paging", "done"}
  <2>1. q.given \in Seq(Row)
    BY DEF ReaderType
  <2> HIDE DEF page
  <2> QED BY <1>1, <2>1
<1> HIDE DEF given, cursor, further
<1> QED BY <1>2, <1>3, <1>4 DEF ReaderType, Same

(* The pages stay what was asked for, whatever the store holds when the    *)
(* next one is read.                                                       *)
LEMMA ServedExact ==
    ASSUME rows \in Seq(Row), Distinct(rows), NEW q \in ReaderType, q.snapshot <= Len(rows),
           q.kind # "timeline", Exact(q)
    PROVE  Exact(Served(q))
<1> DEFINE p == Served(q)
           F == {r \in ToSet(Seen(q)) : InWindow(q, r) /\ Past(q, r)}
           found == Asked(q)
           m == IF Len(found) < PageLimit THEN Len(found) ELSE PageLimit
           page == SubSeq(found, 1, m)
           n == Len(found)
           o == q.order
<1>1. p \in ReaderType /\ Same(p, q)
  BY ServedTyped
<1>2. /\ found \in Seq(Row) /\ n \in Nat /\ InOrder(o, found)
      /\ ToSet(found) = F /\ DOMAIN found = 1 .. n
      /\ page \in Seq(Row) /\ Len(page) = m /\ m \in Nat /\ m <= n
      /\ DOMAIN page = 1 .. m /\ (\A i \in 1 .. m : page[i] = found[i])
      /\ (page = <<>> <=> m = 0)
      /\ m = 0 => n = 0
  BY PageIs
<1>3. /\ p.given = q.given \o page
      /\ p.cursor = IF page = <<>> THEN q.cursor ELSE At(Last(page))
      /\ p.pc = IF More(q, found) THEN "paging" ELSE "done"
  BY DEF Served, ReaderType
<1>4. o \in Orders /\ q.cursor \in Points /\ q.given \in Seq(Row) /\ Row \subseteq Points
  BY DEF ReaderType, Orders, Points, Cursor
<1>5. \A r : r \in F <=> r \in ToSet(Seen(q)) /\ InWindow(q, r) /\ Beyond(q, r)
  BY DEF Past
<1>6. ToSet(Seen(q)) \subseteq Row /\ ToSet(Snapshot(q)) \subseteq ToSet(Seen(q))
  BY SeenIs, ToSetSub
<1> HIDE DEF p, F, found, m, page, n
<1>7. n <= PageLimit => m = n
  <2>1. PageLimit \in Nat \ {0} /\ n \in Nat
    BY <1>2, PagingAssumption
  <2> QED BY <2>1 DEF m, n
<1>20. /\ p.given \in Seq(Row) /\ Len(p.given) = Len(q.given) + m
       /\ \A i \in 1 .. Len(q.given) + m :
              p.given[i] = IF i <= Len(q.given) THEN q.given[i] ELSE page[i - Len(q.given)]
  <2> DEFINE s == q.given
  <2>1. s \in Seq(Row) /\ page \in Seq(Row) /\ p.given = s \o page /\ Len(page) = m
    BY <1>2, <1>3, <1>4
  <2> HIDE DEF s
  <2>2. /\ s \o page \in Seq(Row) /\ Len(s \o page) = Len(s) + Len(page)
        /\ \A i \in 1 .. Len(s) + Len(page) : (s \o page)[i] =
               IF i <= Len(s) THEN s[i] ELSE page[i - Len(s)]
    BY <2>1, ConcatProperties
  <2>3. /\ p.given \in Seq(Row) /\ Len(p.given) = Len(s) + m
        /\ \A i \in 1 .. Len(s) + m :
               p.given[i] = IF i <= Len(s) THEN s[i] ELSE page[i - Len(s)]
    BY <2>1, <2>2
  <2> QED BY <2>3 DEF s
<1>8. \A i \in 1 .. n : found[i] \in F /\ found[i] \in Row /\ found[i] \in Points
  BY <1>2, <1>4, ToSetSub
<1>9. m # 0 => /\ p.cursor = At(found[m]) /\ m \in 1 .. n
               /\ \A r : Beyond(p, r) <=> Ahead(o, found[m], r)
  <2> SUFFICES ASSUME m # 0
               PROVE  /\ p.cursor = At(found[m]) /\ m \in 1 .. n
                      /\ \A r : Beyond(p, r) <=> Ahead(o, found[m], r)
    OBVIOUS
  <2>1. p.cursor = At(found[m]) /\ m \in 1 .. n
    BY <1>2, <1>3 DEF Last
  <2>2. p.order = o
    BY <1>1 DEF Same
  <2>3. \A r : Beyond(p, r) <=> (At(found[m]).none \/ Ahead(o, At(found[m]), r))
    BY <2>1, <2>2 DEF Beyond
  <2> QED BY <2>1, <2>3, AtIs
<1>10. m = 0 => F = {} /\ \A r : Beyond(p, r) = Beyond(q, r)
  <2>1. m = 0 => F = {}
    BY <1>2 DEF ToSet
  <2>2. m = 0 => p.cursor = q.cursor /\ p.order = q.order
    BY <1>1, <1>2, <1>3 DEF Same
  <2> QED BY <2>1, <2>2 DEF Beyond
<1>11. \A r \in Row : Beyond(p, r) => Beyond(q, r)
  <2> SUFFICES ASSUME NEW r \in Row, Beyond(p, r), m # 0 PROVE Beyond(q, r)
    BY <1>10
  <2>1. Ahead(o, found[m], r) /\ m \in 1 .. n
    BY <1>9
  <2>2. q.cursor.none \/ Ahead(o, q.cursor, found[m])
    BY <1>5, <1>8, <2>1 DEF Beyond
  <2>3. found[m] \in Points /\ r \in Points
    BY <1>4, <1>8, <2>1
  <2> QED BY <1>4, <2>1, <2>2, <2>3, AheadOrders DEF Beyond
<1>12. \A i \in 1 .. n : i <= m <=> ~Beyond(p, found[i])
  <2> SUFFICES ASSUME NEW i \in 1 .. n PROVE i <= m <=> ~Beyond(p, found[i])
    OBVIOUS
  <2>1. m \in 1 .. n /\ (Beyond(p, found[i]) <=> Ahead(o, found[m], found[i]))
    BY <1>2, <1>9
  <2>2. found[i] \in Points /\ found[m] \in Points
    BY <1>8, <2>1
  <2>3. CASE i < m
    <3>1. Ahead(o, found[i], found[m])
      BY <1>2, <2>1, <2>3 DEF InOrder
    <3> QED BY <1>2, <1>4, <2>1, <2>2, <2>3, <3>1, AheadOrders
  <2>4. CASE i = m
    BY <1>4, <2>1, <2>2, <2>4, AheadOrders
  <2>5. CASE m < i
    <3>1. Ahead(o, found[m], found[i])
      BY <1>2, <2>1, <2>5 DEF InOrder
    <3> QED BY <1>2, <2>1, <2>5, <3>1
  <2> QED BY <1>2, <2>3, <2>4, <2>5
<1>13. \A x : x \in ToSet(p.given) <=> x \in ToSet(q.given) \/ \E i \in 1 .. m : x = found[i]
  <2>1. /\ p.given \in Seq(Row) /\ Len(p.given) = Len(q.given) + m
        /\ \A i \in 1 .. Len(q.given) + m :
               p.given[i] = IF i <= Len(q.given) THEN q.given[i] ELSE page[i - Len(q.given)]
    BY <1>20
  <2>2. Len(q.given) \in Nat /\ DOMAIN q.given = 1 .. Len(q.given)
        /\ DOMAIN p.given = 1 .. Len(q.given) + m
    BY <1>4, <2>1
  <2>3. ASSUME NEW x \in ToSet(p.given)
        PROVE  x \in ToSet(q.given) \/ \E i \in 1 .. m : x = found[i]
    <3>1. PICK i \in 1 .. Len(q.given) + m : p.given[i] = x
      BY <2>2 DEF ToSet
    <3>2. CASE i <= Len(q.given)
      BY <2>1, <2>2, <3>1, <3>2 DEF ToSet
    <3>3. CASE i > Len(q.given)
      <4>1. i - Len(q.given) \in 1 .. m
        BY <1>2, <2>2, <3>3
      <4> QED BY <1>2, <2>1, <2>2, <3>1, <3>3, <4>1
    <3> QED BY <2>2, <3>2, <3>3
  <2>4. ASSUME NEW x \in ToSet(q.given) PROVE x \in ToSet(p.given)
    <3>1. PICK i \in 1 .. Len(q.given) : q.given[i] = x
      BY <2>2 DEF ToSet
    <3>2. i \in 1 .. Len(q.given) + m /\ i <= Len(q.given)
      BY <1>2, <2>2
    <3>3. p.given[i] = x
      BY <2>1, <3>1, <3>2
    <3> QED BY <2>2, <3>2, <3>3 DEF ToSet
  <2>5. ASSUME NEW i \in 1 .. m PROVE found[i] \in ToSet(p.given)
    <3>1. /\ Len(q.given) + i \in 1 .. Len(q.given) + m /\ ~(Len(q.given) + i <= Len(q.given))
          /\ (Len(q.given) + i) - Len(q.given) = i
      BY <1>2, <2>2
    <3>2. p.given[Len(q.given) + i] = found[i]
      BY <1>2, <2>1, <3>1
    <3> QED BY <2>2, <3>1, <3>2 DEF ToSet
  <2> QED BY <2>3, <2>4, <2>5
<1>14. InOrder(p.order, p.given)
  <2>1. /\ p.given \in Seq(Row) /\ Len(p.given) = Len(q.given) + m
        /\ \A i \in 1 .. Len(q.given) + m :
               p.given[i] = IF i <= Len(q.given) THEN q.given[i] ELSE page[i - Len(q.given)]
    BY <1>20
  <2>2. Len(q.given) \in Nat /\ DOMAIN q.given = 1 .. Len(q.given)
        /\ DOMAIN p.given = 1 .. Len(q.given) + m /\ p.order = o
    BY <1>1, <1>4, <2>1 DEF Same
  <2> SUFFICES ASSUME NEW i \in 1 .. Len(q.given) + m, NEW j \in 1 .. Len(q.given) + m, i < j
               PROVE  Ahead(o, p.given[i], p.given[j])
    BY <2>2 DEF InOrder
  <2>3. CASE j <= Len(q.given)
    <3>1. i \in 1 .. Len(q.given) /\ j \in 1 .. Len(q.given)
      BY <1>2, <2>2, <2>3
    <3>2. Ahead(o, q.given[i], q.given[j])
      BY <2>2, <3>1 DEF Exact, InOrder
    <3>3. p.given[i] = q.given[i] /\ p.given[j] = q.given[j]
      BY <2>1, <2>2, <3>1, <2>3
    <3> QED BY <3>2, <3>3
  <2>4. CASE i > Len(q.given)
    <3>1. i - Len(q.given) \in 1 .. m /\ j - Len(q.given) \in 1 .. m
          /\ i - Len(q.given) < j - Len(q.given)
      BY <1>2, <2>2, <2>4
    <3>2. p.given[i] = found[i - Len(q.given)] /\ p.given[j] = found[j - Len(q.given)]
      BY <1>2, <2>1, <2>2, <2>4, <3>1
    <3>3. i - Len(q.given) \in 1 .. n /\ j - Len(q.given) \in 1 .. n
      BY <1>2, <3>1
    <3> QED BY <1>2, <3>1, <3>2, <3>3 DEF InOrder
  <2>5. CASE i <= Len(q.given) /\ j > Len(q.given)
    <3>1. j - Len(q.given) \in 1 .. m
      BY <1>2, <2>2, <2>5
    <3>2. p.given[i] = q.given[i] /\ p.given[j] = found[j - Len(q.given)]
      BY <1>2, <2>1, <2>2, <2>5, <3>1
    <3>3. found[j - Len(q.given)] \in F /\ found[j - Len(q.given)] \in Points
      BY <1>2, <1>8, <3>1
    <3>4. q.given[i] \in ToSet(q.given) /\ q.given[i] \in Points
      BY <1>4, <2>2, <2>5, ToSetSub
    <3>5. ~Beyond(q, q.given[i])
      BY <3>4 DEF Exact, Behind
    <3>6. Ahead(o, q.cursor, found[j - Len(q.given)]) /\ ~Ahead(o, q.cursor, q.given[i])
      BY <1>5, <3>3, <3>5 DEF Beyond
    <3> QED BY <1>4, <3>2, <3>3, <3>4, <3>6, AheadOrders
  <2> QED BY <2>2, <2>3, <2>4, <2>5
<1>15. \A r \in Row : Beyond(p, r) => BeyondAnchor(p, r)
  BY <1>1, <1>11, OwedSame DEF Exact
<1>16. ToSet(p.given) \subseteq Behind(p, Owed(p, Seen(p)))
  <2>1. Owed(p, Seen(p)) = Owed(q, Seen(q)) /\ Owed(q, Seen(q)) \subseteq Row
    BY <1>1, <1>6, OwedSame DEF Owed
  <2>2. ASSUME NEW x \in ToSet(q.given) PROVE x \in Behind(p, Owed(p, Seen(p)))
    BY <1>11, <2>1 DEF Exact, Behind
  <2>3. ASSUME NEW i \in 1 .. m PROVE found[i] \in Behind(p, Owed(p, Seen(p)))
    <3>1. i \in 1 .. n /\ i <= m
      BY <1>2
    <3>2. found[i] \in F /\ found[i] \in Row /\ ~Beyond(p, found[i])
      BY <1>8, <1>12, <3>1
    <3>3. found[i] \in Owed(q, Seen(q))
      BY <1>5, <3>2 DEF Owed, Exact
    <3> QED BY <2>1, <3>2, <3>3 DEF Behind
  <2> QED BY <1>13, <2>2, <2>3
<1>17. ASSUME NEW r \in Owed(q, Snapshot(q))
       PROVE  /\ r \in Row
              /\ ~Beyond(p, r) => r \in ToSet(p.given)
              /\ p.pc = "done" => ~Beyond(p, r)
  <2>1. r \in ToSet(Seen(q)) /\ InWindow(q, r) /\ r \in Row
    BY <1>6 DEF Owed
  <2>2. CASE ~Beyond(q, r)
    <3>1. r \in ToSet(q.given)
      BY <2>2 DEF Exact, Behind
    <3> QED BY <1>11, <1>13, <2>1, <2>2, <3>1
  <2>3. CASE Beyond(q, r)
    <3>1. PICK i \in 1 .. n : found[i] = r
      BY <1>2, <1>5, <2>1, <2>3 DEF ToSet
    <3>2. ~Beyond(p, r) => i \in 1 .. m
      BY <1>2, <1>12, <3>1
    <3>3. p.pc = "done" => m = n
      <4>1. p.pc = "done" => n <= PageLimit
        BY <1>2, <1>3, PagingAssumption DEF More, n
      <4> QED BY <1>7, <4>1
    <3> QED BY <1>2, <1>12, <1>13, <2>1, <3>1, <3>2, <3>3
  <2> QED BY <2>2, <2>3
<1>18. Owed(p, Snapshot(p)) = Owed(q, Snapshot(q))
  BY <1>1, OwedSame
<1>19. Exact(p)
  BY <1>14, <1>15, <1>16, <1>17, <1>18 DEF Exact, Behind
<1> QED BY <1>19 DEF p

-----------------------------------------------------------------------------
(* A record that arrives changes nothing of what was there.                *)
LEMMA ArriveKeeps ==
    ASSUME PagingInv, NEW r \in Row, Arrive(r)
    PROVE  PagingInv'
<1>1. /\ rows \in Seq(Row) /\ Distinct(rows) /\ ReaderInv /\ reader' = reader
      /\ rows' = Append(rows, r) /\ \A i \in DOMAIN rows : rows[i].id # r.id
  BY DEF PagingInv, Arrive
<1>2. /\ rows' \in Seq(Row) /\ Len(rows') = Len(rows) + 1 /\ Len(rows) \in Nat
      /\ rows'[Len(rows) + 1] = r /\ \A i \in 1 .. Len(rows) : rows'[i] = rows[i]
  BY <1>1, AppendProperties
<1>3. DOMAIN rows = 1 .. Len(rows) /\ DOMAIN rows' = 1 .. Len(rows) + 1
  BY <1>1, <1>2
<1>4. Distinct(rows)'
  <2> SUFFICES ASSUME NEW i \in 1 .. Len(rows) + 1, NEW j \in 1 .. Len(rows) + 1,
                      rows'[i].id = rows'[j].id
               PROVE  i = j
    BY <1>3 DEF Distinct
  <2>1. CASE i \in 1 .. Len(rows) /\ j \in 1 .. Len(rows)
    BY <1>1, <1>2, <1>3, <2>1 DEF Distinct
  <2>2. CASE i = Len(rows) + 1 /\ j \in 1 .. Len(rows)
    BY <1>1, <1>2, <1>3, <2>2
  <2>3. CASE i \in 1 .. Len(rows) /\ j = Len(rows) + 1
    BY <1>1, <1>2, <1>3, <2>3
  <2>4. CASE i = Len(rows) + 1 /\ j = Len(rows) + 1
    BY <2>4
  <2> QED BY <1>2, <2>1, <2>2, <2>3, <2>4
<1>5. ToSet(rows) \subseteq ToSet(rows')
  <2> SUFFICES ASSUME NEW i \in 1 .. Len(rows) PROVE rows[i] \in ToSet(rows')
    BY <1>3 DEF ToSet
  <2> QED BY <1>2, <1>3 DEF ToSet
<1>6. ASSUME NEW n \in Nat, n <= Len(rows)
      PROVE  SubSeq(rows', 1, n) = SubSeq(rows, 1, n)
  <2> DEFINE s == SubSeq(rows, 1, n)
             t == SubSeq(rows', 1, n)
  <2>1. \A i \in 1 .. n : rows[i] \in Row /\ rows'[i] = rows[i]
    BY <1>1, <1>2, <1>6
  <2>2. s \in Seq(Row) /\ Len(s) = n /\ \A i \in 1 .. n : s[i] = rows[i]
    BY <1>6, <2>1, SubSeqProperties
  <2>3. t \in Seq(Row) /\ Len(t) = n /\ \A i \in 1 .. n : t[i] = rows'[i]
    BY <1>6, <2>1, SubSeqProperties
  <2> HIDE DEF s, t
  <2>4. s = t
    BY <2>1, <2>2, <2>3, SeqEqual
  <2> QED BY <2>4 DEF s, t
<1>7. ReaderInv'
  <2> SUFFICES ASSUME reader # NoReader
               PROVE  /\ reader \in ReaderType /\ reader.snapshot <= Len(rows')
                      /\ reader.kind = "audit" => reader.order = "desc"
                      /\ reader.kind # "timeline" => Exact(reader)'
    BY <1>1 DEF ReaderInv, NoReader, ReaderType
  <2>1. /\ reader \in ReaderType /\ reader.snapshot <= Len(rows)
        /\ reader.kind = "audit" => reader.order = "desc"
        /\ reader.kind # "timeline" => Exact(reader)
    BY <1>1 DEF ReaderInv
  <2>2. reader.snapshot \in Nat
    BY <2>1 DEF ReaderType
  <2>3. Snapshot(reader)' = Snapshot(reader)
    BY <1>1, <1>6, <2>1, <2>2 DEF Snapshot
  <2>4. ToSet(Seen(reader)) \subseteq ToSet(Seen(reader)')
    BY <1>1, <1>5, <1>6, <2>1, <2>2 DEF Seen
  <2>5. ASSUME reader.kind # "timeline" PROVE Exact(reader)'
    <3>1. Exact(reader)
      BY <2>1, <2>5
    <3>2. \A x : Beyond(reader, x)' = Beyond(reader, x)
      BY <1>1 DEF Beyond, Ahead
    <3>3. \A x : BeyondAnchor(reader, x)' = BeyondAnchor(reader, x)
      BY <1>1 DEF BeyondAnchor, Beyond, Ahead
    <3>4. Owed(reader, Snapshot(reader))' = Owed(reader, Snapshot(reader))
      BY <1>1, <2>3 DEF Owed, InWindow, BeyondAnchor, Beyond, Ahead
    <3>5. Owed(reader, Seen(reader)) \subseteq Owed(reader, Seen(reader))'
      BY <1>1, <2>4 DEF Owed, InWindow, BeyondAnchor, Beyond, Ahead
    <3>6. \A S, T : S \subseteq T => Behind(reader, S) \subseteq Behind(reader, T)
      BY DEF Behind
    <3>7. (ToSet(reader.given) \subseteq Behind(reader, Owed(reader, Seen(reader))))'
      BY <1>1, <3>1, <3>5 DEF Exact, Behind
    <3>8. (Behind(reader, Owed(reader, Snapshot(reader))) \subseteq ToSet(reader.given))'
      BY <1>1, <3>1, <3>4 DEF Exact, Behind
    <3>9. (reader.pc = "done" => \A x \in Owed(reader, Snapshot(reader)) : ~Beyond(reader, x))'
      BY <1>1, <3>1, <3>4 DEF Exact
    <3> QED BY <1>1, <3>1, <3>7, <3>8, <3>9 DEF Exact
  <2>6. reader.snapshot <= Len(rows')
    BY <1>2, <2>1, <2>2
  <2> QED BY <2>1, <2>5, <2>6
<1> QED BY <1>2, <1>4, <1>7 DEF PagingInv

LEMMA PageKeeps ==
    ASSUME rows \in Seq(Row), Distinct(rows), UNCHANGED rows,
           NEW q \in ReaderType, q.snapshot <= Len(rows), q.kind = "audit" => q.order = "desc",
           q.kind # "timeline" => Exact(q), reader' = Served(q)
    PROVE  PagingInv'
<1>1. Served(q) \in ReaderType /\ Same(Served(q), q)
  BY ServedTyped
<1>2. q.kind # "timeline" => Exact(Served(q))
  BY ServedExact
<1>3. reader' \in ReaderType /\ Same(reader', q)
  BY <1>1
<1>4. q.kind # "timeline" => Exact(reader)'
  BY <1>2 DEF Exact, Owed, Behind, Snapshot, Seen, BeyondAnchor
<1> QED BY <1>3, <1>4 DEF PagingInv, ReaderInv, Same, Distinct

LEMMA FirstPageKeeps ==
    ASSUME PagingInv, NEW kind \in Kinds, NEW order \in Orders,
           NEW from \in 0 .. LastTime, NEW to \in 0 .. LastTime,
           NEW dev \in Devices \cup {AnyDevice},
           NEW anchor \in {Start} \cup {At(r) : r \in ToSet(rows)},
           FirstPage(kind, order, from, to, dev, anchor)
    PROVE  PagingInv'
<1> DEFINE q == [pc |-> "paging", kind |-> kind, order |-> order, from |-> from,
                 to |-> to, dev |-> dev, cursor |-> anchor, anchor |-> anchor,
                 snapshot |-> Len(rows), given |-> <<>>]
<1>1. rows \in Seq(Row) /\ Distinct(rows) /\ UNCHANGED rows /\ Len(rows) \in Nat
  BY DEF PagingInv, FirstPage
<1>2. (kind = "audit" => order = "desc") /\ reader' = Served(q)
  BY DEF FirstPage
<1>3. anchor \in Cursor
  <2>1. Start \in Cursor
    BY DEF Start, Cursor
  <2>2. ASSUME NEW r \in ToSet(rows) PROVE At(r) \in Cursor
    <3>1. r.ts \in Nat /\ r.id \in Nat
      BY <1>1, ToSetSub, PointsTyped DEF Points
    <3> QED BY <3>1 DEF At, Cursor
  <2> QED BY <2>1, <2>2
<1>4. q \in ReaderType
  <2>1. <<>> \in Seq(Row)
    BY EmptySeq
  <2> QED BY <1>1, <1>3, <2>1 DEF ReaderType, Orders
<1>5. /\ q.kind = kind /\ q.order = order /\ q.snapshot = Len(rows) /\ q.cursor = anchor
      /\ q.anchor = anchor /\ q.given = <<>> /\ q.pc = "paging"
  OBVIOUS
<1> HIDE DEF q
<1>6. Exact(q)
  <2>1. \A r : Beyond(q, r) <=> BeyondAnchor(q, r)
    BY <1>4, <1>5, AnchorIs DEF Beyond
  <2>2. ToSet(q.given) = {} /\ DOMAIN q.given = {}
    BY <1>5 DEF ToSet
  <2>3. Behind(q, Owed(q, Snapshot(q))) = {}
    BY <2>1 DEF Behind, Owed
  <2> QED BY <1>5, <2>1, <2>2, <2>3 DEF Exact, InOrder
<1>7. q.snapshot <= Len(rows)
  BY <1>1, <1>5
<1> QED BY <1>1, <1>2, <1>4, <1>5, <1>6, <1>7, PageKeeps

LEMMA PagingStep ==
    ASSUME PagingInv, [PagingNext]_pagingVars
    PROVE  PagingInv'
<1>1. CASE UNCHANGED pagingVars
  <2>1. rows' = rows /\ reader' = reader
    BY <1>1 DEF pagingVars
  <2> QED BY <2>1 DEF PagingInv, Distinct, ReaderInv, Exact, Owed, Behind, Snapshot, Seen, BeyondAnchor
<1>2. ASSUME NEW r \in Row, Arrive(r) PROVE PagingInv'
  BY <1>2, ArriveKeeps
<1>3. ASSUME NEW kind \in Kinds, NEW order \in {"asc", "desc"},
             NEW from \in 0 .. LastTime, NEW to \in 0 .. LastTime,
             NEW dev \in Devices \cup {AnyDevice},
             NEW anchor \in {Start} \cup {At(r) : r \in ToSet(rows)},
             FirstPage(kind, order, from, to, dev, anchor)
      PROVE  PagingInv'
  BY <1>3, FirstPageKeeps DEF Orders
<1>4. CASE NextPage
  <2>1. reader # NoReader /\ reader' = Served(reader) /\ UNCHANGED rows
    BY <1>4 DEF NextPage, NoReader
  <2>2. /\ reader \in ReaderType /\ reader.snapshot <= Len(rows)
        /\ reader.kind = "audit" => reader.order = "desc"
        /\ reader.kind # "timeline" => Exact(reader)
        /\ rows \in Seq(Row) /\ Distinct(rows)
    BY <2>1 DEF PagingInv, ReaderInv
  <2>3. PICK q \in ReaderType : q = reader
    BY <2>2
  <2> QED BY <2>1, <2>2, <2>3, PageKeeps
<1> QED BY <1>1, <1>2, <1>3, <1>4 DEF PagingNext

LEMMA PagingInvariant == PagingSpec => []PagingInv
<1>1. PagingInit => PagingInv
  BY EmptySeq DEF PagingInit, PagingInv, Distinct, ReaderInv
<1>2. PagingInv /\ [PagingNext]_pagingVars => PagingInv'
  BY PagingStep
<1> QED BY <1>1, <1>2, PTL DEF PagingSpec

-----------------------------------------------------------------------------
LEMMA ActivityFollows == PagingInv => ActivityExact
<1> SUFFICES ASSUME PagingInv, Reading("activity") PROVE ActivityExact
  BY DEF ActivityExact
<1>1. PICK q \in ReaderType : q = reader
  BY DEF PagingInv, ReaderInv, Reading
<1>2. q.snapshot <= Len(rows) /\ Exact(q) /\ rows \in Seq(Row) /\ Distinct(rows) /\ q.kind = "activity"
  BY <1>1 DEF PagingInv, ReaderInv, Reading
<1> DEFINE W == Owed(q, Snapshot(q))
<1>3. Seen(q) = Snapshot(q) /\ Snapshot(q) \in Seq(Row) /\ W \subseteq ToSet(rows)
  BY <1>2, SeenIs DEF Owed
<1>4. Table(W)
  BY <1>2, <1>3, RowsAreATable
<1>5. q.order \in Orders /\ q.given \in Seq(Row) /\ q.cursor \in Points
  BY DEF ReaderType, Orders, Points, Cursor
<1>6. InOrder(q.order, q.given) /\ ToSet(q.given) = Behind(q, W)
  BY <1>2, <1>3 DEF Exact
<1>7. W \subseteq Points
  BY <1>4, <1>5, InTable
<1>8. ToSet(q.given) \subseteq W
  BY <1>6 DEF Behind
<1> HIDE DEF W
<1>9. \A x \in ToSet(q.given), y \in W : Ahead(q.order, y, x) => y \in ToSet(q.given)
  <2> SUFFICES ASSUME NEW x \in ToSet(q.given), NEW y \in W, Ahead(q.order, y, x), Beyond(q, y)
               PROVE  FALSE
    BY <1>6 DEF Behind
  <2>1. x \in Points /\ y \in Points /\ ~Beyond(q, x)
    BY <1>6, <1>7, <1>8 DEF Behind
  <2>2. Ahead(q.order, q.cursor, y) /\ ~Ahead(q.order, q.cursor, x)
    BY <2>1 DEF Beyond
  <2> QED BY <1>5, <2>1, <2>2, AheadOrders
<1>10. /\ IsPrefix(q.given, Sorted(q.order, W))
       /\ ToSet(q.given) = W => q.given = Sorted(q.order, W)
  BY <1>4, <1>5, <1>6, <1>8, <1>9, PartIsPrefix
<1>11. q.pc = "done" => ToSet(q.given) = W
  BY <1>2, <1>6 DEF Exact, Behind, W
<1>12. Wanted(SubSeq(rows, 1, reader.snapshot)) = Sorted(q.order, W)
  BY <1>1 DEF Wanted, W, Owed, Snapshot, BeyondAnchor
<1> QED BY <1>1, <1>10, <1>11, <1>12 DEF ActivityExact

LEMMA AuditFollows == PagingInv => AuditComplete
<1> SUFFICES ASSUME PagingInv, Reading("audit") PROVE AuditComplete
  BY DEF AuditComplete
<1>1. PICK q \in ReaderType : q = reader
  BY DEF PagingInv, ReaderInv, Reading
<1>2. /\ q.snapshot <= Len(rows) /\ Exact(q) /\ rows \in Seq(Row) /\ Distinct(rows)
      /\ q.order = "desc"
  BY <1>1 DEF PagingInv, ReaderInv, Reading
<1> DEFINE W == Owed(q, Snapshot(q))
<1>3. W \subseteq ToSet(rows)
  BY <1>2, SeenIs DEF Owed
<1>4. Table(W)
  BY <1>2, <1>3, RowsAreATable
<1>5. ToSet(Sorted(q.order, W)) = W
  <2> HIDE DEF W
  <2> QED BY <1>2, <1>4, SortedIs DEF Orders
<1>6. Wanted(SubSeq(rows, 1, reader.snapshot)) = Sorted(q.order, W)
  BY <1>1 DEF Wanted, W, Owed, Snapshot, BeyondAnchor
<1>7. q.pc = "done" => W \subseteq ToSet(q.given)
  BY <1>2 DEF Exact, Behind
<1>8. \A i, j \in DOMAIN q.given : i < j => Before(q.given[j], q.given[i])
  BY <1>2 DEF Exact, InOrder, Ahead
<1> HIDE DEF W
<1> QED BY <1>1, <1>5, <1>6, <1>7, <1>8 DEF AuditComplete

(* The reader's cursor, snapshot and pages keep their types.               *)
THEOREM PagingTypeCorrect == PagingSpec => []PagingTypeOK
<1>1. PagingInv => PagingTypeOK
  <2> SUFFICES ASSUME PagingInv, reader # NoReader
               PROVE  /\ reader.pc \in {"paging", "done"} /\ reader.kind \in Kinds
                      /\ reader.given \in Seq(Row) /\ reader.snapshot \in 0 .. Len(rows)
    BY DEF PagingTypeOK, PagingInv
  <2>1. reader \in ReaderType /\ reader.snapshot <= Len(rows) /\ Len(rows) \in Nat
    BY DEF PagingInv, ReaderInv
  <2> QED BY <2>1 DEF ReaderType
<1> QED BY <1>1, PagingInvariant, PTL

(* activity_page and the audit feed, page after page, give the whole       *)
(* window in order, for any page size, any records arriving in between with*)
(* any timestamps, and any cursor that an agent begins with.               *)
THEOREM PagesAreExact == PagingSpec => []PagesExact
<1>1. PagingInv => PagesExact
  BY ActivityFollows, AuditFollows DEF PagesExact
<1> QED BY <1>1, PagingInvariant, PTL

-----------------------------------------------------------------------------
(***************************************************************************)
(* DataRepair                                                              *)
(***************************************************************************)
(* A row of analysis_results, and one of summaries.                        *)
AnalysisRow ==
    [status : Statuses,
     text : BOOLEAN, residue : BOOLEAN, seeded : BOOLEAN]
DigestRow == [status : {"narrated", "pending_summary"}, text : BOOLEAN]

RepairInv ==
    /\ RepairTypeOK
    /\ analysis \in [Rows -> AnalysisRow] /\ summary \in [Digests -> DigestRow]
    /\ RepairComplete

-----------------------------------------------------------------------------
(* A boundary is the record's start or a later one of its device, no       *)
(* further than the bridge.                                                *)
LEMMA BoundaryIs ==
    ASSUME RepairTypeOK, NEW r \in Rows
    PROVE  /\ BoundaryOf(r) \in 0 .. MaxClock
           /\ BoundaryOf(r) >= begins[r] /\ BoundaryOf(r) - begins[r] <= Bridge
           /\ \E n \in Rows : device[n] = device[r] /\ BoundaryOf(r) = begins[n]
<1> USE DataRepairAssumption
<1> DEFINE later == {m \in Rows : /\ device[m] = device[r]
                                  /\ begins[m] > begins[r]
                                  /\ begins[m] - begins[r] <= Bridge}
           next == {begins[n] : n \in later}
<1>1. begins \in [Rows -> 0 .. MaxClock]
  BY DEF RepairTypeOK
<1>2. BoundaryOf(r) = IF next # {} THEN Min(next) ELSE begins[r]
  BY DEF BoundaryOf
<1>3. CASE next = {}
  <2> HIDE DEF next
  <2>1. BoundaryOf(r) = begins[r]
    BY <1>2, <1>3
  <2> QED BY <1>1, <2>1
<1>4. CASE next # {}
  <2>1. next \subseteq Nat
    BY <1>1
  <2>2. Min(next) \in next
    <3> HIDE DEF next
    <3> QED BY <1>4, <2>1, LeastOf
  <2>3. PICK n \in later : Min(next) = begins[n]
    BY <2>2
  <2>4. BoundaryOf(r) = begins[n]
    <3> HIDE DEF next
    <3> QED BY <1>2, <1>4, <2>3
  <2>5. n \in Rows /\ device[n] = device[r] /\ begins[n] > begins[r] /\ begins[n] - begins[r] <= Bridge
    BY <2>3
  <2> HIDE DEF next, later
  <2> QED BY <1>1, <2>4, <2>5
<1> QED BY <1>3, <1>4

-----------------------------------------------------------------------------
LEMMA FoundAtFirst == RepairInit => RepairInv
<1> SUFFICES ASSUME RepairInit PROVE RepairInv
  OBVIOUS
<1> USE DataRepairAssumption
<1>1. Done \in AnalysisRow
  BY DEF Done, AnalysisRow, Statuses
<1>2. RepairTypeOK
  BY DEF RepairInit, RepairTypeOK, Open
<1>3. analysis \in [Rows -> AnalysisRow] /\ summary \in [Digests -> DigestRow]
  BY <1>1 DEF RepairInit, DigestRow, Narrated
<1>4. RepairComplete
  BY DEF RepairInit, RepairComplete
<1> QED BY <1>2, <1>3, <1>4 DEF RepairInv

LEMMA DefectsTyped ==
    ASSUME RepairInv, Defect
    PROVE  RepairInv'
<1> USE DataRepairAssumption
<1>0. /\ RepairTypeOK /\ analysis \in [Rows -> AnalysisRow] /\ summary \in [Digests -> DigestRow]
      /\ before = NotRun /\ before' = NotRun
  BY DEF RepairInv, Defect
<1>1. RepairComplete'
  BY <1>0 DEF RepairComplete
<1>2. ASSUME NEW r \in Rows, NEW t \in 0 .. Open, AnySpan(r, t)
      PROVE  RepairInv'
  <2>1. RepairTypeOK'
    BY <1>0, <1>2 DEF RepairTypeOK, AnySpan
  <2> QED BY <1>0, <1>1, <1>2, <2>1 DEF RepairInv, AnySpan
<1>3. ASSUME NEW r \in Rows, NEW row \in AnalysisRow, NEW own, AnyAnalysis(r, row, own)
      PROVE  RepairInv'
  <2>1. RepairTypeOK'
    BY <1>0, <1>3 DEF RepairTypeOK, AnyAnalysis
  <2>2. analysis' \in [Rows -> AnalysisRow] /\ summary' \in [Digests -> DigestRow]
    BY <1>0, <1>3 DEF AnyAnalysis
  <2> QED BY <1>1, <2>1, <2>2 DEF RepairInv
<1>4. ASSUME NEW r \in Rows, NoImage(r)
      PROVE  RepairInv'
  <2>1. RepairTypeOK'
    BY <1>0, <1>4 DEF RepairTypeOK, NoImage
  <2> QED BY <1>0, <1>1, <1>4, <2>1 DEF RepairInv, NoImage
<1>5. ASSUME NEW w \in Digests, NEW state \in {"narrated", "pending_summary"},
             NEW text \in BOOLEAN, AnySummary(w, state, text)
      PROVE  RepairInv'
  <2>1. RepairTypeOK'
    BY <1>0, <1>5 DEF RepairTypeOK, AnySummary
  <2>2. summary' \in [Digests -> DigestRow]
    BY <1>0, <1>5 DEF AnySummary, DigestRow
  <2> QED BY <1>0, <1>1, <1>5, <2>1, <2>2 DEF RepairInv, AnySummary
<1>6. ASSUME NEW w \in Digests, NotIndexed(w)
      PROVE  RepairInv'
  <2>1. RepairTypeOK'
    BY <1>0, <1>6 DEF RepairTypeOK, NotIndexed
  <2> QED BY <1>0, <1>1, <1>6, <2>1 DEF RepairInv, NotIndexed
<1>7. \A state \in Statuses, text, residue, seeded \in BOOLEAN :
          [status |-> state, text |-> text, residue |-> residue, seeded |-> seeded] \in AnalysisRow
  BY DEF AnalysisRow
<1> QED BY <1>2, <1>3, <1>4, <1>5, <1>6, <1>7 DEF Defect

-----------------------------------------------------------------------------
(* What the repair does to each part of the database.                      *)
LEMMA SpansMended ==
    ASSUME RepairInv, RepairData
    PROVE  /\ ends' \in [Rows -> 0 .. Open] /\ Expired' = {} /\ BadSpans' = {}
           /\ \A r \in Rows :
                 /\ Healthy(r, ends'[r])
                 /\ Healthy(r, ends[r]) => ends'[r] = ends[r]
                 /\ ~Healthy(r, ends[r]) =>
                       \E n \in Rows : device[n] = device[r] /\ ends'[r] = begins[n]
<1> USE DataRepairAssumption
<1>1. RepairTypeOK /\ begins' = begins /\ device' = device
  BY DEF RepairInv, RepairData
<1>2. /\ begins \in [Rows -> 0 .. MaxClock] /\ ends \in [Rows -> 0 .. Open]
      /\ \A r \in Rows : begins[r] \in 0 .. MaxClock /\ ends[r] \in 0 .. Open
  BY <1>1 DEF RepairTypeOK
<1> DEFINE broken == Expired \cup BadSpans
<1>3. ends' = [r \in Rows |-> IF r \in broken THEN BoundaryOf(r) ELSE ends[r]]
  BY DEF RepairData
<1>4. \A r \in Rows : r \in broken => ends'[r] = BoundaryOf(r)
  BY <1>3
<1>5. \A r \in Rows : r \notin broken => ends'[r] = ends[r]
  BY <1>3
<1>6. \A r \in Rows : r \in broken <=> ~Healthy(r, ends[r])
  BY <1>2 DEF Expired, BadSpans, Healthy, Open
<1>7. ASSUME NEW r \in Rows
      PROVE  /\ ends'[r] \in 0 .. Open /\ Healthy(r, ends'[r])
             /\ Healthy(r, ends[r]) => ends'[r] = ends[r]
             /\ ~Healthy(r, ends[r]) =>
                   \E n \in Rows : device[n] = device[r] /\ ends'[r] = begins[n]
  <2>1. CASE r \in broken
    <3>1. /\ BoundaryOf(r) \in 0 .. MaxClock
          /\ BoundaryOf(r) >= begins[r] /\ BoundaryOf(r) - begins[r] <= Bridge
          /\ \E n \in Rows : device[n] = device[r] /\ BoundaryOf(r) = begins[n]
      BY <1>1, BoundaryIs
    <3>2. ends'[r] = BoundaryOf(r)
      BY <1>4, <2>1
    <3>3. ends'[r] \in 0 .. Open /\ Healthy(r, ends'[r])
      BY <1>2, <3>1, <3>2 DEF Open, Healthy
    <3> QED BY <1>6, <2>1, <3>1, <3>2, <3>3
  <2>2. CASE r \notin broken
    BY <1>2, <1>5, <1>6, <2>2
  <2> QED BY <2>1, <2>2
<1>8. ends' \in [Rows -> 0 .. Open]
  <2> HIDE DEF broken
  <2> QED BY <1>3, <1>7
<1>9. Expired' = {} /\ BadSpans' = {}
  BY <1>1, <1>2, <1>7 DEF Expired, BadSpans, Healthy, Open
<1> QED BY <1>7, <1>8, <1>9

LEMMA RowsMended ==
    ASSUME RepairInv, RepairData
    PROVE  /\ analysis' \in [Rows -> AnalysisRow]
           /\ StaleErrors' = {} /\ Undescribed' = {}
           /\ \A r \in Rows :
                 /\ analysis'[r].text = analysis[r].text
                 /\ analysis'[r].seeded = analysis[r].seeded
                 /\ analysis'[r].residue
                        = (analysis[r].residue /\ analysis[r].status # "vlm_done")
                 /\ r \in Undescribed => analysis'[r].status = "pending_vlm"
                 /\ r \notin Undescribed => analysis'[r].status = analysis[r].status
<1>1. analysis \in [Rows -> AnalysisRow] /\ image' = image
  BY DEF RepairInv, RepairData
<1> DEFINE new(r) == IF r \in Undescribed THEN Requeued(analysis[r])
                     ELSE IF r \in StaleErrors THEN [analysis[r] EXCEPT !.residue = FALSE]
                     ELSE analysis[r]
<1>2. analysis' = [r \in Rows |-> new(r)]
  BY DEF RepairData
<1>3. ASSUME NEW r \in Rows
      PROVE  /\ analysis'[r] \in AnalysisRow
             /\ analysis'[r].text = analysis[r].text
             /\ analysis'[r].seeded = analysis[r].seeded
             /\ analysis'[r].residue
                    = (analysis[r].residue /\ analysis[r].status # "vlm_done")
             /\ r \in Undescribed => analysis'[r].status = "pending_vlm"
             /\ r \notin Undescribed => analysis'[r].status = analysis[r].status
  <2>1. PICK row \in AnalysisRow : row = analysis[r]
    BY <1>1
  <2>2. analysis'[r] = new(r)
    BY <1>2
  <2>3. CASE r \in Undescribed
    <3>1. analysis'[r] = Requeued(row)
      BY <2>1, <2>2, <2>3
    <3>2. /\ Requeued(row) \in AnalysisRow /\ Requeued(row).status = "pending_vlm"
          /\ Requeued(row).text = row.text /\ Requeued(row).seeded = row.seeded
          /\ Requeued(row).residue = FALSE
      BY DEF Requeued, AnalysisRow, Statuses
    <3>3. row.status = "vlm_done"
      BY <2>1, <2>3 DEF Undescribed
    <3> QED BY <2>1, <2>3, <3>1, <3>2, <3>3
  <2>4. CASE r \notin Undescribed /\ r \in StaleErrors
    <3>1. analysis'[r] = [row EXCEPT !.residue = FALSE]
      BY <2>1, <2>2, <2>4
    <3>2. /\ [row EXCEPT !.residue = FALSE] \in AnalysisRow
          /\ [row EXCEPT !.residue = FALSE].status = row.status
          /\ [row EXCEPT !.residue = FALSE].text = row.text
          /\ [row EXCEPT !.residue = FALSE].seeded = row.seeded
          /\ [row EXCEPT !.residue = FALSE].residue = FALSE
      BY DEF AnalysisRow
    <3>3. row.status = "vlm_done"
      BY <2>1, <2>4 DEF StaleErrors
    <3> QED BY <2>1, <2>4, <3>1, <3>2, <3>3
  <2>5. CASE r \notin Undescribed /\ r \notin StaleErrors
    <3>1. analysis'[r] = row
      BY <2>1, <2>2, <2>5
    <3>2. ~(row.status = "vlm_done" /\ row.residue) /\ row.residue \in BOOLEAN
      BY <2>1, <2>5 DEF StaleErrors, AnalysisRow
    <3>3. row.residue = (row.residue /\ row.status # "vlm_done")
      BY <3>2
    <3> QED BY <2>1, <2>5, <3>1, <3>3
  <2> QED BY <2>3, <2>4, <2>5
<1>4. analysis' \in [Rows -> AnalysisRow]
  <2> HIDE DEF new
  <2> QED BY <1>2, <1>3
<1> HIDE DEF new
<1>5. StaleErrors' = {}
  <2> SUFFICES ASSUME NEW r \in Rows, analysis'[r].status = "vlm_done", analysis'[r].residue
               PROVE  FALSE
    BY DEF StaleErrors
  <2>1. analysis[r].status # "vlm_done"
    BY <1>3
  <2> QED BY <1>3, <2>1 DEF Undescribed
<1>6. Undescribed' = {}
  <2> SUFFICES ASSUME NEW r \in Rows, analysis'[r].status = "vlm_done", ~analysis'[r].text,
                      ~analysis'[r].seeded, r \in image
               PROVE  FALSE
    BY <1>1 DEF Undescribed
  <2> QED BY <1>3 DEF Undescribed
<1> QED BY <1>3, <1>4, <1>5, <1>6

(* The records' own status changes only to follow the analysis.            *)
LEMMA OwnStatusFollows ==
    ASSUME RepairInv, RepairData, NEW r \in Rows
    PROVE  /\ r \in Undescribed => mirror'[r] = "pending_vlm"
           /\ mirror'[r] # mirror[r] => mirror'[r] = analysis'[r].status
           /\ mirror[r] = analysis[r].status => mirror'[r] = analysis'[r].status
<1> DEFINE follows(x) == /\ Undescribed # {} /\ analysis'[x].status = "pending_vlm"
                         /\ ~analysis[x].text /\ ~analysis[x].seeded /\ x \in image
<1>1. mirror' = [x \in Rows |-> IF follows(x) THEN "pending_vlm" ELSE mirror[x]]
  BY DEF RepairData
<1>2. r \in Undescribed => follows(r)
  BY RowsMended DEF Undescribed
<1>3. CASE follows(r)
  <2>1. mirror'[r] = "pending_vlm"
    BY <1>1, <1>3
  <2> QED BY <1>3, <2>1
<1>4. CASE ~follows(r)
  <2>1. r \notin Undescribed
    BY <1>2, <1>4
  <2>2. mirror'[r] = mirror[r]
    <3> HIDE DEF follows
    <3> QED BY <1>1, <1>4
  <2> QED BY <2>1, <2>2, RowsMended
<1> QED BY <1>3, <1>4

LEMMA NarrativesMended ==
    ASSUME RepairInv, RepairData
    PROVE  /\ summary' \in [Digests -> DigestRow] /\ EmptyNarratives' = {}
           /\ fts' = {w \in Digests : summary'[w].text}
           /\ \A w \in Digests :
                 IF summary[w].text THEN summary'[w] = summary[w]
                 ELSE summary'[w] = [status |-> "pending_summary", text |-> FALSE]
<1>1. summary \in [Digests -> DigestRow]
  BY DEF RepairInv
<1>2. summary' = [w \in Digests |->
          IF w \in EmptyNarratives THEN [status |-> "pending_summary", text |-> FALSE]
          ELSE summary[w]]
  BY DEF RepairData
<1>3. fts' = {w \in Digests : summary'[w].text}
  BY DEF RepairData
<1>4. [status |-> "pending_summary", text |-> FALSE] \in DigestRow
  BY DEF DigestRow
<1>5. summary' \in [Digests -> DigestRow]
  BY <1>1, <1>2, <1>4
<1>6. EmptyNarratives' = {}
  BY <1>2 DEF EmptyNarratives
<1>7. ASSUME NEW w \in Digests
      PROVE  IF summary[w].text THEN summary'[w] = summary[w]
             ELSE summary'[w] = [status |-> "pending_summary", text |-> FALSE]
  <2>1. CASE summary[w].text
    BY <1>2, <2>1 DEF EmptyNarratives
  <2>2. CASE ~summary[w].text /\ summary[w].status = "narrated"
    BY <1>2, <2>2 DEF EmptyNarratives
  <2>3. CASE ~summary[w].text /\ summary[w].status # "narrated"
    <3>1. summary'[w] = summary[w]
      BY <1>2, <2>3 DEF EmptyNarratives
    <3>2. summary[w] = [status |-> "pending_summary", text |-> FALSE]
      BY <1>1, <2>3 DEF DigestRow
    <3> QED BY <2>3, <3>1, <3>2
  <2> QED BY <2>1, <2>2, <2>3
<1> QED BY <1>3, <1>5, <1>6, <1>7

LEMMA RepairMends ==
    ASSUME RepairInv, RepairData
    PROVE  RepairInv'
<1>1. RepairTypeOK'
  BY SpansMended, NarrativesMended DEF RepairInv, RepairTypeOK, RepairData
<1>2. begins' = begins /\ device' = device /\ image' = image /\ before' = Sound
  BY DEF RepairData
<1>3. /\ before'.end = ends /\ before'.mirror = mirror
      /\ before'.analysis = analysis /\ before'.summary = summary
  BY <1>2 DEF Sound
<1>4. BarsRepaired'
  BY <1>2, <1>3, SpansMended DEF BarsRepaired, Healthy
<1>5. AnalysesRepaired'
  <2> SUFFICES ASSUME NEW r \in Rows
               PROVE  /\ analysis'[r].text = analysis[r].text
                      /\ analysis'[r].seeded = analysis[r].seeded
                      /\ IF analysis[r].status = "vlm_done" /\ ~analysis[r].text
                            /\ ~analysis[r].seeded /\ r \in image
                         THEN analysis'[r].status = "pending_vlm" /\ mirror'[r] = "pending_vlm"
                         ELSE analysis'[r].status = analysis[r].status
                      /\ analysis'[r].residue
                            = (analysis[r].residue /\ analysis[r].status # "vlm_done")
                      /\ mirror'[r] # mirror[r] => mirror'[r] = analysis'[r].status
                      /\ mirror[r] = analysis[r].status => mirror'[r] = analysis'[r].status
    BY <1>2, <1>3 DEF AnalysesRepaired
  <2>1. r \in Undescribed <=> /\ analysis[r].status = "vlm_done" /\ ~analysis[r].text
                              /\ ~analysis[r].seeded /\ r \in image
    BY DEF Undescribed
  <2> QED BY <2>1, RowsMended, OwnStatusFollows
<1>6. NarrativesRepaired'
  BY <1>3, NarrativesMended DEF NarrativesRepaired
<1>7. RepairComplete'
  BY <1>4, <1>5, <1>6, SpansMended, RowsMended, NarrativesMended DEF RepairComplete
<1> QED BY <1>1, <1>7, RowsMended, NarrativesMended DEF RepairInv

LEMMA RepairInvariant == RepairSpec => []RepairInv
<1>1. RepairInv /\ [RepairNext]_repairVars => RepairInv'
  <2> SUFFICES ASSUME RepairInv, [RepairNext]_repairVars PROVE RepairInv'
    OBVIOUS
  <2>1. CASE UNCHANGED repairVars
    <3>1. UNCHANGED <<begins, ends, device, mirror, analysis, image, summary, fts, before>>
      BY <2>1 DEF repairVars
    <3> QED BY <3>1 DEF RepairInv, RepairTypeOK, RepairComplete, Expired, BadSpans, StaleErrors,
                        Undescribed, EmptyNarratives, BarsRepaired, AnalysesRepaired,
                        NarrativesRepaired, Healthy
  <2> QED BY <2>1, DefectsTyped, RepairMends DEF RepairNext
<1> QED BY <1>1, FoundAtFirst, PTL DEF RepairSpec

(* The database keeps its types through any defects and the repair.        *)
THEOREM RepairTypeCorrect == RepairSpec => []RepairTypeOK
<1>1. RepairInv => RepairTypeOK
  BY DEF RepairInv
<1> QED BY <1>1, RepairInvariant, PTL

(* Whatever defects and however many a database has, repair_data_quality   *)
(* leaves none of them for the next inspection, loses no description, label*)
(* or narrative, and gives no record an end outside its device's timeline. *)
THEOREM RepairMendsAll == RepairSpec => []RepairComplete
<1>1. RepairInv => RepairComplete
  BY DEF RepairInv
<1> QED BY <1>1, RepairInvariant, PTL

(***************************************************************************)
(* Search by image and by text: the index holds what is stored, a search   *)
(* of it prunes nothing that is near, and the answers are the best hits.   *)
(***************************************************************************)
(* The tree *)
LEMMA HammingIs ==
    ASSUME NEW a \in SUBSET Bits, NEW b \in SUBSET Bits
    PROVE  Hamming(a, b) \in Nat /\ Hamming(a, b) = Hamming(b, a)
<1>1. IsFiniteSet(Bits)
  BY ImageSearchAssumption
<1>2. (a \ b) \cup (b \ a) \in SUBSET Bits /\ (a \ b) \cup (b \ a) = (b \ a) \cup (a \ b)
  OBVIOUS
<1>3. IsFiniteSet((a \ b) \cup (b \ a))
  BY <1>1, <1>2, FS_Subset
<1>4. Cardinality((a \ b) \cup (b \ a)) \in Nat
  BY <1>3, FS_CardinalityType
<1> QED BY <1>2, <1>4 DEF Hamming

LEMMA Triangle ==
    ASSUME NEW a \in SUBSET Bits, NEW b \in SUBSET Bits, NEW c \in SUBSET Bits
    PROVE  Hamming(a, c) <= Hamming(a, b) + Hamming(b, c)
<1> DEFINE S == (a \ b) \cup (b \ a)
           T == (b \ c) \cup (c \ b)
           U == (a \ c) \cup (c \ a)
<1>1. IsFiniteSet(Bits)
  BY ImageSearchAssumption
<1>2. U \subseteq S \cup T /\ S \subseteq Bits /\ T \subseteq Bits
  OBVIOUS
<1>3. Hamming(a, c) = Cardinality(U) /\ Hamming(a, b) = Cardinality(S) /\ Hamming(b, c) = Cardinality(T)
  BY DEF Hamming
<1> HIDE DEF S, T, U
<1>4. IsFiniteSet(S) /\ IsFiniteSet(T)
  BY <1>1, <1>2, FS_Subset
<1>5. IsFiniteSet(S \cup T) /\ Cardinality(S \cup T) = Cardinality(S) + Cardinality(T) - Cardinality(S \cap T)
  BY <1>4, FS_Union
<1>6. IsFiniteSet(U) /\ Cardinality(U) <= Cardinality(S \cup T)
  BY <1>2, <1>5, FS_Subset
<1>7. IsFiniteSet(S \cap T)
  BY <1>4, FS_Intersection
<1>8. /\ Cardinality(S) \in Nat /\ Cardinality(T) \in Nat /\ Cardinality(U) \in Nat
      /\ Cardinality(S \cap T) \in Nat
  BY <1>4, <1>6, <1>7, FS_CardinalityType
<1> QED BY <1>3, <1>5, <1>6, <1>8

NodeType == [id : Nat, hash : SUBSET Bits, parent : Nat, edge : Nat]

(* The nodes from the root down to each node, all of which lie, to their   *)
(* own parents, at the distance of the edge they hang on.                  *)
Line(nodes, line) ==
    /\ line \in [DOMAIN nodes -> SUBSET (DOMAIN nodes)]
    /\ \A n \in DOMAIN nodes :
          IF nodes[n].parent = 0 THEN line[n] = {n}
          ELSE nodes[n].parent \in 1 .. n - 1 /\ line[n] = line[nodes[n].parent] \cup {n}
    /\ \A n \in DOMAIN nodes : \A a \in line[n] :
          nodes[a].parent # 0 =>
              /\ nodes[a].parent \in line[n]
              /\ nodes[a].edge = Hamming(nodes[nodes[a].parent].hash, nodes[n].hash)

Tree(nodes) == nodes \in Seq(NodeType) /\ \E line : Line(nodes, line)

LEMMA NodesTyped ==
    ASSUME NEW nodes \in Seq(NodeType), NEW n \in DOMAIN nodes
    PROVE  /\ nodes[n].id \in Nat /\ nodes[n].hash \in SUBSET Bits
           /\ nodes[n].parent \in Nat /\ nodes[n].edge \in Nat
<1>1. nodes[n] \in NodeType
  OBVIOUS
<1> QED BY <1>1 DEF NodeType

(* The walk of insert. *)
Walk(nodes, hash) ==
    CHOOSE at : at = [n \in 0 .. Len(nodes) |->
            IF n = 0 THEN 0
            ELSE IF nodes[n].parent = at[n - 1]
                    /\ (at[n - 1] # 0 => nodes[n].edge = Hamming(hash, nodes[at[n - 1]].hash))
                 THEN n ELSE at[n - 1]]

LEMMA WalkIs ==
    ASSUME NEW nodes \in Seq(NodeType), NEW hash \in SUBSET Bits
    PROVE  /\ Walk(nodes, hash) \in [0 .. Len(nodes) -> 0 .. Len(nodes)]
           /\ Walk(nodes, hash)[0] = 0
           /\ \A n \in 1 .. Len(nodes) :
                 Walk(nodes, hash)[n] =
                    IF /\ nodes[n].parent = Walk(nodes, hash)[n - 1]
                       /\ Walk(nodes, hash)[n - 1] # 0 =>
                             nodes[n].edge = Hamming(hash, nodes[Walk(nodes, hash)[n - 1]].hash)
                    THEN n ELSE Walk(nodes, hash)[n - 1]
<1> DEFINE L == Len(nodes)
           V == 0 .. L
           Goes(n, v) == nodes[n].parent = v /\ (v # 0 => nodes[n].edge = Hamming(hash, nodes[v].hash))
           step == [k \in 1 .. L |-> [v \in V |-> IF Goes(k, v) THEN k ELSE v]]
           Is(at) == at = [n \in 0 .. L |-> IF n = 0 THEN 0
                                            ELSE IF Goes(n, at[n - 1]) THEN n ELSE at[n - 1]]
<1>1. L \in Nat
  OBVIOUS
<1> HIDE DEF L
<1>2. \A k \in 1 .. L, v \in V : step[k][v] = IF Goes(k, v) THEN k ELSE v
  OBVIOUS
<1>3. \A k \in 1 .. L, v \in V : step[k][v] \in V
  <2> SUFFICES ASSUME NEW k \in 1 .. L, NEW v \in V PROVE step[k][v] \in V
    OBVIOUS
  <2>1. step[k][v] = k \/ step[k][v] = v
    <3> HIDE DEF Goes, step, V
    <3> QED BY <1>2
  <2> HIDE DEF step
  <2> QED BY <1>1, <2>1
<1>4. PICK f : Loop(L, V, 0, step, f)
  <2>1. 0 \in V /\ step \in [1 .. L -> [V -> V]]
    BY <1>1, <1>3
  <2> HIDE DEF V, step
  <2> QED BY <1>1, <2>1, LoopExists
<1>5. \A k \in 1 .. L : f[k - 1] \in V /\ f[k] = IF Goes(k, f[k - 1]) THEN k ELSE f[k - 1]
  <2> SUFFICES ASSUME NEW k \in 1 .. L
               PROVE  f[k - 1] \in V /\ f[k] = IF Goes(k, f[k - 1]) THEN k ELSE f[k - 1]
    OBVIOUS
  <2>1. k - 1 \in 0 .. L
    BY <1>1
  <2> HIDE DEF V, step, Goes
  <2>2. f[k - 1] \in V
    BY <1>4, <2>1 DEF Loop
  <2> QED BY <1>2, <1>4, <2>2 DEF Loop
<1>6. Is(f)
  <2> HIDE DEF V, step, Goes
  <2>0. DOMAIN f = 0 .. L /\ f = [n \in 0 .. L |-> f[n]]
    BY <1>4 DEF Loop
  <2> SUFFICES ASSUME NEW n \in 0 .. L
               PROVE  f[n] = IF n = 0 THEN 0 ELSE IF Goes(n, f[n - 1]) THEN n ELSE f[n - 1]
    BY <2>0
  <2>1. n = 0 \/ n \in 1 .. L
    BY <1>1
  <2> QED BY <1>4, <1>5, <2>1 DEF Loop
<1>7. Walk(nodes, hash) = CHOOSE at : Is(at)
  BY DEF Walk, L, Goes
<1> DEFINE w == Walk(nodes, hash)
<1>8. Is(w)
  <2> HIDE DEF Is
  <2> QED BY <1>6, <1>7
<1> HIDE DEF w
<1>9. w[0] = 0 /\ \A n \in 1 .. L : w[n] = IF Goes(n, w[n - 1]) THEN n ELSE w[n - 1]
  <2> HIDE DEF Goes
  <2>1. \A n \in 0 .. L : w[n] = IF n = 0 THEN 0 ELSE IF Goes(n, w[n - 1]) THEN n ELSE w[n - 1]
    BY <1>8
  <2>2. 0 \in 0 .. L /\ \A n \in 1 .. L : n \in 0 .. L /\ n # 0
    BY <1>1
  <2> HIDE DEF Is
  <2> QED BY <2>1, <2>2
<1>10. DOMAIN w = 0 .. L /\ w = [n \in 0 .. L |-> w[n]]
  <2>1. w = [n \in 0 .. L |-> IF n = 0 THEN 0 ELSE IF Goes(n, w[n - 1]) THEN n ELSE w[n - 1]]
    BY <1>8
  <2> QED BY <2>1
<1>11. \A n \in 0 .. L : w[n] \in 0 .. L
  <2> DEFINE S == {m \in Nat : m <= L => w[m] \in 0 .. L}
  <2>1. 0 \in S
    BY <1>1, <1>9
  <2>2. ASSUME NEW m \in Nat, m \in S PROVE m + 1 \in S
    <3> SUFFICES ASSUME m + 1 <= L PROVE w[m + 1] \in 0 .. L
      OBVIOUS
    <3>1. w[m] \in 0 .. L
      BY <1>1, <2>2
    <3>2. m + 1 \in 1 .. L /\ (m + 1) - 1 = m
      BY <1>1
    <3>3. w[m + 1] = IF Goes(m + 1, w[m]) THEN m + 1 ELSE w[m]
      BY <1>9, <3>2
    <3> QED BY <1>1, <3>1, <3>2, <3>3
  <2>3. Nat \subseteq S
    <3> HIDE DEF S
    <3> QED BY <2>1, <2>2, AllOf
  <2> QED BY <1>1, <2>3
<1>12. w \in [0 .. L -> 0 .. L]
  BY <1>10, <1>11
<1> QED BY <1>9, <1>12 DEF w, L, Goes

LEMMA PlaceIs ==
    ASSUME NEW nodes \in Seq(NodeType), NEW hash \in SUBSET Bits
    PROVE  LET last == Walk(nodes, hash)[Len(nodes)] IN
           /\ last \in 0 .. Len(nodes)
           /\ Place(nodes, hash).parent = last
           /\ Place(nodes, hash).edge = IF last = 0 THEN 0 ELSE Hamming(hash, nodes[last].hash)
           /\ Place(nodes, hash).edge \in Nat
<1> DEFINE last == Walk(nodes, hash)[Len(nodes)]
<1>1. Place(nodes, hash) = [parent |-> last, edge |-> IF last = 0 THEN 0 ELSE Hamming(hash, nodes[last].hash)]
  BY DEF Place, Walk
<1>2. Len(nodes) \in Nat
  OBVIOUS
<1>3. last \in 0 .. Len(nodes)
  BY <1>2, WalkIs
<1> HIDE DEF last
<1>4. last # 0 => Hamming(hash, nodes[last].hash) \in Nat
  <2> SUFFICES ASSUME last # 0 PROVE Hamming(hash, nodes[last].hash) \in Nat
    OBVIOUS
  <2>1. last \in DOMAIN nodes
    BY <1>2, <1>3
  <2> QED BY <2>1, NodesTyped, HammingIs
<1> QED BY <1>1, <1>3, <1>4 DEF last

(* The node at which the walk ends: all edges on the way to it are at the  *)
(* distance of the hash that is being inserted.                            *)
LEMMA WalkEnds ==
    ASSUME NEW nodes \in Seq(NodeType), NEW line, Line(nodes, line), NEW hash \in SUBSET Bits,
           nodes # <<>>
    PROVE  LET last == Walk(nodes, hash)[Len(nodes)] IN
           /\ last \in DOMAIN nodes
           /\ \A a \in line[last] : nodes[a].parent # 0 =>
                  nodes[a].edge = Hamming(nodes[nodes[a].parent].hash, hash)
<1> DEFINE L == Len(nodes)
           w == Walk(nodes, hash)
           Good(m) == \A a \in line[m] : nodes[a].parent # 0 =>
                          nodes[a].edge = Hamming(nodes[nodes[a].parent].hash, hash)
           S == {k \in Nat : k + 1 <= L => w[k + 1] \in 1 .. L /\ Good(w[k + 1])}
<1>1. L \in Nat /\ L > 0 /\ DOMAIN nodes = 1 .. L
  OBVIOUS
<1>2. /\ w \in [0 .. L -> 0 .. L] /\ w[0] = 0
      /\ \A n \in 1 .. L :
            w[n] = IF nodes[n].parent = w[n - 1]
                      /\ (w[n - 1] # 0 => nodes[n].edge = Hamming(hash, nodes[w[n - 1]].hash))
                   THEN n ELSE w[n - 1]
  BY WalkIs
<1>3. /\ \A n \in 1 .. L : nodes[n].hash \in SUBSET Bits /\ nodes[n].parent \in Nat
      /\ \A n \in 1 .. L : IF nodes[n].parent = 0 THEN line[n] = {n}
                           ELSE nodes[n].parent \in 1 .. n - 1 /\ line[n] = line[nodes[n].parent] \cup {n}
  BY <1>1, NodesTyped DEF Line
<1> HIDE DEF w, L
<1>4. 0 \in S
  <2>1. 1 \in 1 .. L /\ 1 - 1 = 0 /\ 0 + 1 = 1
    BY <1>1
  <2>2. nodes[1].parent = 0 /\ line[1] = {1}
    BY <1>3, <2>1
  <2>3. w[1] = 1
    BY <1>2, <2>1, <2>2
  <2>4. Good(1)
    BY <2>2
  <2> HIDE DEF Good
  <2> QED BY <2>1, <2>3, <2>4
<1>5. ASSUME NEW k \in Nat, k \in S PROVE k + 1 \in S
  <2> SUFFICES ASSUME (k + 1) + 1 <= L PROVE w[(k + 1) + 1] \in 1 .. L /\ Good(w[(k + 1) + 1])
    OBVIOUS
  <2> DEFINE n == (k + 1) + 1
             v == w[k + 1]
  <2>1. n \in 1 .. L /\ n - 1 = k + 1 /\ k + 1 <= L
    BY <1>1
  <2>2. v \in 1 .. L /\ Good(v)
    BY <1>5, <2>1
  <2>3. w[n] = IF nodes[n].parent = v /\ (v # 0 => nodes[n].edge = Hamming(hash, nodes[v].hash))
               THEN n ELSE v
    BY <1>2, <2>1
  <2> HIDE DEF v, n
  <2>4. CASE nodes[n].parent = v /\ nodes[n].edge = Hamming(hash, nodes[v].hash)
    <3>1. v # 0 /\ w[n] = n
      BY <1>1, <2>2, <2>3, <2>4
    <3>2. line[n] = line[v] \cup {n}
      BY <1>3, <2>1, <2>4, <3>1
    <3>3. nodes[n].edge = Hamming(nodes[v].hash, hash)
      BY <1>3, <2>2, <2>4, HammingIs
    <3>4. Good(n)
      BY <2>2, <2>4, <3>2, <3>3
    <3> HIDE DEF Good
    <3> QED BY <2>1, <3>1, <3>4 DEF n
  <2>5. CASE ~(nodes[n].parent = v /\ nodes[n].edge = Hamming(hash, nodes[v].hash))
    <3>1. w[n] = v
      BY <1>1, <2>2, <2>3, <2>5
    <3> HIDE DEF Good
    <3> QED BY <2>2, <3>1 DEF n
  <2> QED BY <2>4, <2>5
<1>6. Nat \subseteq S
  <2> HIDE DEF S
  <2> QED BY <1>4, <1>5, AllOf
<1>7. L - 1 \in Nat /\ (L - 1) + 1 = L
  BY <1>1
<1>8. w[L] \in 1 .. L /\ Good(w[L])
  <2>1. L - 1 \in S
    BY <1>6, <1>7
  <2>2. (L - 1) + 1 <= L
    BY <1>1
  <2> HIDE DEF Good
  <2> QED BY <1>7, <2>1, <2>2
<1> QED BY <1>1, <1>8 DEF w, L

(* A tree stays one with a node more. *)
LEMMA TreeGrows ==
    ASSUME NEW nodes, Tree(nodes), NEW id \in Nat, NEW hash \in SUBSET Bits
    PROVE  LET node == [id |-> id, hash |-> hash, parent |-> Place(nodes, hash).parent,
                        edge |-> Place(nodes, hash).edge]
           IN  node \in NodeType /\ Tree(Append(nodes, node))
<1> DEFINE L == Len(nodes)
           last == Walk(nodes, hash)[L]
           node == [id |-> id, hash |-> hash, parent |-> Place(nodes, hash).parent,
                    edge |-> Place(nodes, hash).edge]
           more == Append(nodes, node)
<1>1. nodes \in Seq(NodeType) /\ L \in Nat /\ DOMAIN nodes = 1 .. L
  BY DEF Tree
<1>2. PICK line : Line(nodes, line)
  BY DEF Tree
<1>3. /\ last \in 0 .. L /\ node.parent = last /\ node.hash = hash /\ node.id = id
      /\ node.edge = IF last = 0 THEN 0 ELSE Hamming(hash, nodes[last].hash)
      /\ node.edge \in Nat
  BY <1>1, PlaceIs
<1>4. node \in NodeType
  BY <1>1, <1>3, PlaceIs DEF NodeType
<1>5. L # 0 => /\ last \in 1 .. L
               /\ \A a \in line[last] : nodes[a].parent # 0 =>
                      nodes[a].edge = Hamming(nodes[nodes[a].parent].hash, hash)
  BY <1>1, <1>2, WalkEnds
<1>6. \A n \in 1 .. L : nodes[n].hash \in SUBSET Bits /\ nodes[n].parent \in Nat
  BY <1>1, NodesTyped
<1> HIDE DEF last, node, L
<1>7. more \in Seq(NodeType) /\ Len(more) = L + 1 /\ DOMAIN more = 1 .. L + 1
  BY <1>1, <1>4 DEF L
<1>8. more[L + 1] = node /\ \A n \in 1 .. L : more[n] = nodes[n]
  BY <1>1, <1>4 DEF L
<1>9. /\ line \in [1 .. L -> SUBSET (1 .. L)]
      /\ \A n \in 1 .. L : IF nodes[n].parent = 0 THEN line[n] = {n}
                           ELSE nodes[n].parent \in 1 .. n - 1 /\ line[n] = line[nodes[n].parent] \cup {n}
      /\ \A n \in 1 .. L : \A a \in line[n] :
            nodes[a].parent # 0 =>
                /\ nodes[a].parent \in line[n]
                /\ nodes[a].edge = Hamming(nodes[nodes[a].parent].hash, nodes[n].hash)
  BY <1>1, <1>2 DEF Line
<1> DEFINE own == IF last = 0 THEN {L + 1} ELSE line[last] \cup {L + 1}
           longer == [n \in 1 .. L + 1 |-> IF n = L + 1 THEN own ELSE line[n]]
<1> HIDE DEF more
<1>10. own \in SUBSET (1 .. L + 1) /\ L + 1 \in own
  BY <1>1, <1>3, <1>9
<1>11. longer \in [1 .. L + 1 -> SUBSET (1 .. L + 1)]
  BY <1>1, <1>9, <1>10
<1>12. longer[L + 1] = own /\ \A n \in 1 .. L : longer[n] = line[n]
  BY <1>1
<1> HIDE DEF longer
<1>13. ASSUME NEW n \in 1 .. L + 1
       PROVE  IF more[n].parent = 0 THEN longer[n] = {n}
              ELSE more[n].parent \in 1 .. n - 1 /\ longer[n] = longer[more[n].parent] \cup {n}
  <2>1. CASE n = L + 1
    <3>1. more[n] = node /\ longer[n] = own
      BY <1>8, <1>12, <2>1
    <3>2. last # 0 => last \in 1 .. L /\ longer[last] = line[last]
      BY <1>1, <1>3, <1>12
    <3> QED BY <1>1, <1>3, <2>1, <3>1, <3>2
  <2>2. CASE n # L + 1
    <3>1. n \in 1 .. L /\ more[n] = nodes[n] /\ longer[n] = line[n]
      BY <1>1, <1>8, <1>12, <2>2
    <3>2. nodes[n].parent # 0 => nodes[n].parent \in 1 .. n - 1 /\ nodes[n].parent \in 1 .. L
      BY <1>1, <1>6, <1>9, <3>1
    <3> QED BY <1>9, <1>12, <3>1, <3>2
  <2> QED BY <2>1, <2>2
<1>14. ASSUME NEW n \in 1 .. L + 1, NEW a \in longer[n], more[a].parent # 0
       PROVE  /\ more[a].parent \in longer[n]
              /\ more[a].edge = Hamming(more[more[a].parent].hash, more[n].hash)
  <2>1. CASE n = L + 1
    <3>1. more[n].hash = hash /\ longer[n] = own
      BY <1>3, <1>8, <1>12, <2>1
    <3>2. CASE a = L + 1
      <4>1. more[a] = node /\ last # 0 /\ last \in 1 .. L
        BY <1>1, <1>3, <1>8, <1>14, <3>2
      <4>2. last \in line[last]
        BY <1>9, <4>1
      <4>3. more[last] = nodes[last]
        BY <1>8, <4>1
      <4>4. node.edge = Hamming(nodes[last].hash, hash)
        BY <1>3, <1>6, <4>1, HammingIs
      <4> QED BY <1>3, <3>1, <4>1, <4>2, <4>3, <4>4
    <3>3. CASE a # L + 1
      <4>1. last # 0 /\ last \in 1 .. L /\ a \in line[last]
        BY <1>1, <1>3, <1>14, <3>1, <3>3
      <4>2. a \in 1 .. L /\ more[a] = nodes[a]
        BY <1>8, <1>9, <4>1
      <4>3. nodes[a].parent \in line[last] /\ nodes[a].edge = Hamming(nodes[nodes[a].parent].hash, hash)
        BY <1>1, <1>5, <1>9, <1>14, <4>1, <4>2
      <4>4. more[nodes[a].parent] = nodes[nodes[a].parent]
        BY <1>8, <1>9, <4>1, <4>3
      <4> QED BY <3>1, <4>1, <4>2, <4>3, <4>4
    <3> QED BY <3>2, <3>3
  <2>2. CASE n # L + 1
    <3>1. n \in 1 .. L /\ more[n] = nodes[n] /\ longer[n] = line[n]
      BY <1>1, <1>8, <1>12, <2>2
    <3>2. a \in 1 .. L /\ more[a] = nodes[a]
      BY <1>8, <1>9, <1>14, <3>1
    <3>3. nodes[a].parent \in line[n] /\ nodes[a].edge = Hamming(nodes[nodes[a].parent].hash, nodes[n].hash)
      BY <1>9, <1>14, <3>1, <3>2
    <3>4. more[nodes[a].parent] = nodes[nodes[a].parent]
      BY <1>8, <1>9, <3>1, <3>3
    <3> QED BY <3>1, <3>2, <3>3, <3>4
  <2> QED BY <2>1, <2>2
<1>15. Line(more, longer)
  BY <1>7, <1>11, <1>13, <1>14 DEF Line
<1> QED BY <1>4, <1>7, <1>15 DEF Tree, node, more

(* The nodes that a range search comes to. *)
Pushes(nodes, hash, radius, n, seen) ==
    nodes[n].parent = 0
    \/ /\ nodes[n].parent \in seen
       /\ Explored(Hamming(hash, nodes[nodes[n].parent].hash), radius, nodes[n].edge)

Visits(nodes, hash, radius) ==
    CHOOSE visited : visited = [n \in 0 .. Len(nodes) |->
        IF n = 0 THEN {}
        ELSE IF Pushes(nodes, hash, radius, n, visited[n - 1]) THEN visited[n - 1] \cup {n}
                                                               ELSE visited[n - 1]]

LEMMA VisitsIs ==
    ASSUME NEW nodes \in Seq(NodeType), NEW hash \in SUBSET Bits, NEW radius \in Int
    PROVE  LET visited == Visits(nodes, hash, radius) IN
           /\ visited[0] = {}
           /\ \A n \in 1 .. Len(nodes) :
                 visited[n] = IF Pushes(nodes, hash, radius, n, visited[n - 1])
                              THEN visited[n - 1] \cup {n} ELSE visited[n - 1]
<1> DEFINE L == Len(nodes)
           V == SUBSET (1 .. L)
           Goes(n, v) == Pushes(nodes, hash, radius, n, v)
           step == [k \in 1 .. L |-> [v \in V |-> IF Goes(k, v) THEN v \cup {k} ELSE v]]
           Is(f) == f = [n \in 0 .. L |-> IF n = 0 THEN {}
                                          ELSE IF Goes(n, f[n - 1]) THEN f[n - 1] \cup {n} ELSE f[n - 1]]
<1>1. L \in Nat
  OBVIOUS
<1> HIDE DEF L
<1>2. \A k \in 1 .. L, v \in V : step[k][v] = IF Goes(k, v) THEN v \cup {k} ELSE v
  <2> HIDE DEF Goes
  <2> QED OBVIOUS
<1>3. \A k \in 1 .. L, v \in V : step[k][v] \in V
  <2> SUFFICES ASSUME NEW k \in 1 .. L, NEW v \in V PROVE step[k][v] \in V
    OBVIOUS
  <2>1. step[k][v] = v \cup {k} \/ step[k][v] = v
    <3> HIDE DEF Goes, step, V
    <3> QED BY <1>2
  <2> HIDE DEF step
  <2> QED BY <1>1, <2>1
<1>4. PICK f : Loop(L, V, {}, step, f)
  <2>1. {} \in V
    BY <1>1
  <2>2. step \in [1 .. L -> [V -> V]]
    <3> HIDE DEF Goes, V
    <3>1. \A k \in 1 .. L : step[k] = [v \in V |-> step[k][v]]
      OBVIOUS
    <3>2. step = [k \in 1 .. L |-> step[k]]
      OBVIOUS
    <3> HIDE DEF step
    <3> QED BY <1>3, <3>1, <3>2
  <2> HIDE DEF V, step
  <2> QED BY <1>1, <2>1, <2>2, LoopExists
<1>5. \A k \in 1 .. L : f[k - 1] \in V /\ f[k] = IF Goes(k, f[k - 1]) THEN f[k - 1] \cup {k} ELSE f[k - 1]
  <2> SUFFICES ASSUME NEW k \in 1 .. L
               PROVE  f[k - 1] \in V
                      /\ f[k] = IF Goes(k, f[k - 1]) THEN f[k - 1] \cup {k} ELSE f[k - 1]
    OBVIOUS
  <2>1. k - 1 \in 0 .. L
    BY <1>1
  <2> HIDE DEF V, step, Goes
  <2>2. f[k - 1] \in V
    BY <1>4, <2>1 DEF Loop
  <2> QED BY <1>2, <1>4, <2>2 DEF Loop
<1>6. Is(f)
  <2> HIDE DEF V, step, Goes
  <2>0. DOMAIN f = 0 .. L /\ f = [n \in 0 .. L |-> f[n]]
    BY <1>4 DEF Loop
  <2> SUFFICES ASSUME NEW n \in 0 .. L
               PROVE  f[n] = IF n = 0 THEN {}
                             ELSE IF Goes(n, f[n - 1]) THEN f[n - 1] \cup {n} ELSE f[n - 1]
    BY <2>0
  <2>1. n = 0 \/ n \in 1 .. L
    BY <1>1
  <2> QED BY <1>4, <1>5, <2>1 DEF Loop
<1>7. Visits(nodes, hash, radius) = CHOOSE visited : Is(visited)
  BY DEF Visits, L
<1> DEFINE w == Visits(nodes, hash, radius)
<1>8. Is(w)
  <2> HIDE DEF Is
  <2> QED BY <1>6, <1>7
<1> HIDE DEF w
<1>9. w[0] = {} /\ \A n \in 1 .. L : w[n] = IF Goes(n, w[n - 1]) THEN w[n - 1] \cup {n} ELSE w[n - 1]
  <2> HIDE DEF Goes
  <2>1. \A n \in 0 .. L : w[n] = IF n = 0 THEN {}
                                 ELSE IF Goes(n, w[n - 1]) THEN w[n - 1] \cup {n} ELSE w[n - 1]
    BY <1>8
  <2>2. 0 \in 0 .. L /\ \A n \in 1 .. L : n \in 0 .. L /\ n # 0
    BY <1>1
  <2> HIDE DEF Is
  <2> QED BY <2>1, <2>2
<1> QED BY <1>9 DEF w, L

(* The search comes to every node of the way to one within the radius, and *)
(* so finds them all: the bound by which it prunes is the right one.       *)
LEMMA RangeIs ==
    ASSUME NEW nodes, Tree(nodes), NEW hash \in SUBSET Bits, NEW radius \in Int
    PROVE  RangeSearch(nodes, hash, radius) =
               {n \in DOMAIN nodes : Hamming(hash, nodes[n].hash) <= radius}
<1> DEFINE L == Len(nodes)
           visited == Visits(nodes, hash, radius)
           Near(x) == Hamming(hash, nodes[x].hash) <= radius
<1>1. nodes \in Seq(NodeType) /\ L \in Nat /\ DOMAIN nodes = 1 .. L
  BY DEF Tree
<1>2. PICK line : Line(nodes, line)
  BY DEF Tree
<1>3. \A n \in 1 .. L : nodes[n].hash \in SUBSET Bits /\ nodes[n].parent \in Nat
  BY <1>1, NodesTyped
<1>4. RangeSearch(nodes, hash, radius) = {n \in visited[L] : Near(n)}
  BY DEF RangeSearch, Visits, Pushes
<1>5. /\ visited[0] = {}
      /\ \A n \in 1 .. L : visited[n] = IF Pushes(nodes, hash, radius, n, visited[n - 1])
                                        THEN visited[n - 1] \cup {n} ELSE visited[n - 1]
  BY <1>1, VisitsIs
<1>6. /\ line \in [1 .. L -> SUBSET (1 .. L)]
      /\ \A n \in 1 .. L : IF nodes[n].parent = 0 THEN line[n] = {n}
                           ELSE nodes[n].parent \in 1 .. n - 1 /\ line[n] = line[nodes[n].parent] \cup {n}
      /\ \A n \in 1 .. L : \A a \in line[n] :
            nodes[a].parent # 0 =>
                /\ nodes[a].parent \in line[n]
                /\ nodes[a].edge = Hamming(nodes[nodes[a].parent].hash, nodes[n].hash)
  BY <1>1, <1>2 DEF Line
<1> HIDE DEF L, visited
<1>7. ASSUME NEW x \in 1 .. L, Near(x), NEW n \in line[x], nodes[n].parent # 0
      PROVE  Explored(Hamming(hash, nodes[nodes[n].parent].hash), radius, nodes[n].edge)
  <2> DEFINE p == nodes[n].parent
             there == nodes[x].hash
             above == nodes[p].hash
  <2>1. n \in 1 .. L /\ p \in 1 .. L /\ nodes[n].edge = Hamming(above, there)
    BY <1>6, <1>7
  <2>2. above \in SUBSET Bits /\ there \in SUBSET Bits
    BY <1>3, <2>1
  <2>3. Hamming(hash, there) <= radius
    BY <1>7
  <2> HIDE DEF above, there
  <2>4. /\ Hamming(hash, above) <= Hamming(hash, there) + Hamming(there, above)
        /\ Hamming(above, there) <= Hamming(above, hash) + Hamming(hash, there)
        /\ Hamming(there, above) = Hamming(above, there) /\ Hamming(above, hash) = Hamming(hash, above)
        /\ Hamming(hash, above) \in Nat /\ Hamming(hash, there) \in Nat /\ Hamming(above, there) \in Nat
    BY <2>2, HammingIs, Triangle
  <2>5. Explored(Hamming(hash, above), radius, Hamming(above, there))
    BY <2>3, <2>4 DEF Explored
  <2> QED BY <2>1, <2>5 DEF above
<1> DEFINE S == {k \in Nat : k <= L =>
                    /\ visited[k] \subseteq 1 .. k
                    /\ \A n \in 1 .. k, x \in 1 .. L : Near(x) /\ n \in line[x] => n \in visited[k]}
<1>8. 0 \in S
  BY <1>5
<1>9. ASSUME NEW k \in Nat, k \in S PROVE k + 1 \in S
  <2> SUFFICES ASSUME k + 1 <= L
               PROVE  /\ visited[k + 1] \subseteq 1 .. k + 1
                      /\ \A n \in 1 .. k + 1, x \in 1 .. L :
                            Near(x) /\ n \in line[x] => n \in visited[k + 1]
    OBVIOUS
  <2>1. k + 1 \in 1 .. L /\ (k + 1) - 1 = k /\ k <= L
    BY <1>1
  <2>2. /\ visited[k] \subseteq 1 .. k
        /\ \A n \in 1 .. k, x \in 1 .. L : Near(x) /\ n \in line[x] => n \in visited[k]
    BY <1>9, <2>1
  <2>3. visited[k + 1] = IF Pushes(nodes, hash, radius, k + 1, visited[k])
                         THEN visited[k] \cup {k + 1} ELSE visited[k]
    BY <1>5, <2>1
  <2> HIDE DEF Near
  <2>4. visited[k + 1] \subseteq 1 .. k + 1 /\ visited[k] \subseteq visited[k + 1]
    BY <2>2, <2>3
  <2>5. ASSUME NEW n \in 1 .. k + 1, NEW x \in 1 .. L, Near(x), n \in line[x]
        PROVE  n \in visited[k + 1]
    <3>1. CASE n # k + 1
      <4>1. n \in 1 .. k
        BY <3>1
      <4> QED BY <2>2, <2>4, <2>5, <4>1
    <3>2. CASE n = k + 1
      <4>1. CASE nodes[n].parent = 0
        BY <2>3, <3>2, <4>1 DEF Pushes
      <4>2. CASE nodes[n].parent # 0
        <5>1. nodes[n].parent \in 1 .. k /\ nodes[n].parent \in line[x]
          BY <1>6, <2>1, <2>5, <3>2, <4>2
        <5>2. nodes[n].parent \in visited[k]
          BY <2>2, <2>5, <5>1
        <5>3. Explored(Hamming(hash, nodes[nodes[n].parent].hash), radius, nodes[n].edge)
          BY <1>7, <2>5, <4>2
        <5> QED BY <2>3, <3>2, <5>2, <5>3 DEF Pushes
      <4> QED BY <4>1, <4>2
    <3> QED BY <3>1, <3>2
  <2> QED BY <2>4, <2>5
<1>10. L \in S
  <2> HIDE DEF S
  <2> QED BY <1>1, <1>8, <1>9, AllOf
<1>11. \A x \in 1 .. L : x \in line[x]
  BY <1>6
<1> HIDE DEF Near
<1>12. visited[L] \subseteq 1 .. L /\ \A x \in 1 .. L : Near(x) => x \in visited[L]
  BY <1>1, <1>10, <1>11
<1> QED BY <1>1, <1>4, <1>12 DEF Near

LEMMA ByTimeIs ==
    ASSUME NEW S, S \subseteq Shots, IsFiniteSet(S)
    PROVE  /\ ByTime(S) \in Seq(S)
           /\ \A i, j \in 1 .. Len(ByTime(S)) : i # j => ByTime(S)[i] # ByTime(S)[j]
           /\ \A s \in S : \E i \in 1 .. Len(ByTime(S)) : ByTime(S)[i] = s
<1> DEFINE R == {p \in S \X S : Earlier(p[1], p[2])}
           seq == ByTime(S)
           n == Cardinality(S)
<1>1. /\ \A s \in S : s.ts \in Nat /\ s.id \in Nat
      /\ \A s, t \in S : s.id = t.id => s = t
  BY ImageSearchAssumption
<1>2. n \in Nat /\ IsFiniteSet(1 .. n) /\ Cardinality(1 .. n) = n
  BY FS_CardinalityType, FS_Interval
<1>3. \A x, y \in S : <<x, y>> \in R <=> Earlier(x, y)
  OBVIOUS
<1> HIDE DEF R
<1>4. /\ \A x, y, z \in S : <<x, y>> \in R /\ <<y, z>> \in R => <<x, z>> \in R
      /\ \A x \in S : <<x, x>> \notin R
      /\ \A x, y \in S : x # y => <<x, y>> \in R \/ <<y, x>> \in R
  BY <1>1, <1>3 DEF Earlier
<1>5. PICK some : Arrangement(S, R, some)
  BY <1>4, ArrangementExists
<1>6. some \in SetToSeqs(S) /\ \A i, j \in DOMAIN some : i < j => Earlier(some[i], some[j])
  <2>1. some \in [1 .. n -> S]
    BY <1>5 DEF Arrangement, SetToSeqs
  <2> QED BY <1>3, <1>5, <2>1 DEF Arrangement
<1>7. seq \in SetToSeqs(S)
  BY <1>6 DEF ByTime
<1> HIDE DEF n, seq
<1>8. seq \in [1 .. n -> S] /\ \A i, j \in 1 .. n : i # j => seq[i] # seq[j]
  BY <1>7 DEF SetToSeqs, n
<1>9. seq \in Seq(S) /\ Len(seq) = n
  BY <1>2, <1>8
<1>10. seq \in Injection(1 .. n, S)
  BY <1>8, Fun_IsInj
<1>11. Cardinality(1 .. n) = Cardinality(S)
  BY <1>2 DEF n
<1>12. seq \in Surjection(1 .. n, S)
  BY <1>2, <1>10, <1>11, FS_Injection
<1>13. \A s \in S : \E i \in 1 .. n : seq[i] = s
  BY <1>12 DEF Surjection
<1> QED BY <1>8, <1>9, <1>13 DEF seq

-----------------------------------------------------------------------------
(* The index *)

(* It is one tree for each day, with one node for each screenshot of S.    *)
HoldsDay(nodes, d, S) ==
    /\ Tree(nodes)
    /\ \A n \in DOMAIN nodes :
          \E s \in S : Day(s) = d /\ nodes[n].id = s.id /\ nodes[n].hash = s.hash
    /\ \A m, n \in DOMAIN nodes : nodes[m].id = nodes[n].id => m = n
    /\ \A s \in S : Day(s) = d => \E n \in DOMAIN nodes : nodes[n].id = s.id

Holds(ix, S) == ix \in [Days -> Seq(NodeType)] /\ \A d \in Days : HoldsDay(ix[d], d, S)

LEMMA IdsDiffer == \A s, t \in Shots : s.id = t.id => s = t
BY ImageSearchAssumption

LEMMA LimitsTyped ==
    /\ Fetch \in 1 .. 8000 /\ Fetch \in Nat /\ MaxFused \in Nat /\ MaxAnswers \in 1 .. MaxFused
BY LimitsAssumption

LEMMA ShotsTyped ==
    ASSUME NEW s \in Shots
    PROVE  s.id \in Nat /\ s.hash \in SUBSET Bits /\ s.ts \in Nat /\ Day(s) \in Days
BY ImageSearchAssumption DEF Day, Days

LEMMA IndexedTyped ==
    ASSUME NEW ix \in [Days -> Seq(NodeType)], NEW s \in Shots
    PROVE  /\ Node(ix[Day(s)], s) \in NodeType
           /\ Indexed(ix, s) \in [Days -> Seq(NodeType)]
           /\ Indexed(ix, s)[Day(s)] = Append(ix[Day(s)], Node(ix[Day(s)], s))
           /\ \A d \in Days : d # Day(s) => Indexed(ix, s)[d] = ix[d]
<1> DEFINE d == Day(s)
           nodes == ix[d]
           node == Node(nodes, s)
<1>1. d \in Days /\ s.id \in Nat /\ s.hash \in SUBSET Bits /\ nodes \in Seq(NodeType)
  BY ShotsTyped
<1>2. Place(nodes, s.hash).parent \in Nat /\ Place(nodes, s.hash).edge \in Nat
  <2>1. Len(nodes) \in Nat
    BY <1>1
  <2> HIDE DEF nodes
  <2> QED BY <1>1, <2>1, PlaceIs
<1>3. node \in NodeType
  <2> HIDE DEF nodes
  <2> QED BY <1>1, <1>2 DEF Node, NodeType
<1>4. Append(nodes, node) \in Seq(NodeType)
  <2> HIDE DEF nodes, node
  <2> QED BY <1>1, <1>3
<1>5. Indexed(ix, s) = [ix EXCEPT ![d] = Append(nodes, node)]
  BY DEF Indexed
<1> HIDE DEF d, nodes, node
<1>6. /\ Indexed(ix, s) \in [Days -> Seq(NodeType)]
      /\ Indexed(ix, s)[d] = Append(nodes, node)
      /\ \A e \in Days : e # d => Indexed(ix, s)[e] = ix[e]
  BY <1>1, <1>4, <1>5
<1> QED BY <1>3, <1>6 DEF d, nodes, node

LEMMA IndexedHolds ==
    ASSUME NEW S, S \subseteq Shots, NEW ix, Holds(ix, S), NEW s \in Shots, s \notin S
    PROVE  Holds(Indexed(ix, s), S \cup {s})
<1> DEFINE d == Day(s)
           nodes == ix[d]
           node == Node(nodes, s)
           more == Indexed(ix, s)
           L == Len(nodes)
<1>1. ix \in [Days -> Seq(NodeType)]
  BY DEF Holds
<1>2. d \in Days /\ s.id \in Nat /\ s.hash \in SUBSET Bits
  BY ShotsTyped
<1>3. /\ node \in NodeType /\ more \in [Days -> Seq(NodeType)]
      /\ more[d] = Append(nodes, node) /\ \A e \in Days : e # d => more[e] = ix[e]
  BY <1>1, IndexedTyped
<1>4. node = [id |-> s.id, hash |-> s.hash, parent |-> Place(nodes, s.hash).parent,
              edge |-> Place(nodes, s.hash).edge]
  BY DEF Node
<1>5. nodes \in Seq(NodeType) /\ L \in Nat /\ DOMAIN nodes = 1 .. L
  BY <1>1, <1>2
<1>6. /\ Tree(nodes)
      /\ \A n \in 1 .. L : \E t \in S : Day(t) = d /\ nodes[n].id = t.id /\ nodes[n].hash = t.hash
      /\ \A m, n \in 1 .. L : nodes[m].id = nodes[n].id => m = n
      /\ \A t \in S : Day(t) = d => \E n \in 1 .. L : nodes[n].id = t.id
  <2>1. HoldsDay(nodes, d, S)
    BY <1>2 DEF Holds
  <2> HIDE DEF nodes, d, L
  <2> QED BY <1>5, <2>1 DEF HoldsDay
<1>7. \A t \in S : t.id # s.id
  BY ImageSearchAssumption
<1> HIDE DEF more, node, nodes, d
<1>8. /\ Append(nodes, node) \in Seq(NodeType) /\ DOMAIN Append(nodes, node) = 1 .. L + 1
      /\ Append(nodes, node)[L + 1] = node
      /\ \A n \in 1 .. L : Append(nodes, node)[n] = nodes[n]
  BY <1>3, <1>5
<1>9. Tree(Append(nodes, node))
  BY <1>2, <1>4, <1>6, TreeGrows
<1>10. node.id = s.id /\ node.hash = s.hash
  BY <1>4
<1>11. \A n \in 1 .. L : nodes[n].id # s.id
  BY <1>6, <1>7
<1> DEFINE Good(e) == HoldsDay(more[e], e, S \cup {s})
<1>12. Good(d)
  <2> HIDE DEF L
  <2>1. DOMAIN more[d] = 1 .. L + 1
    BY <1>3, <1>8
  <2>2. more[d][L + 1] = node /\ \A n \in 1 .. L : more[d][n] = nodes[n]
    BY <1>3, <1>8
  <2>3. Tree(more[d])
    BY <1>3, <1>9
  <2>4. \A n \in 1 .. L + 1 : n = L + 1 \/ n \in 1 .. L
    BY <1>5
  <2>5. \A n \in 1 .. L + 1 :
           \E t \in S \cup {s} : Day(t) = d /\ more[d][n].id = t.id /\ more[d][n].hash = t.hash
    BY <1>6, <1>10, <2>2, <2>4 DEF d
  <2>6. \A m, n \in 1 .. L + 1 : more[d][m].id = more[d][n].id => m = n
    BY <1>6, <1>10, <1>11, <2>2, <2>4
  <2>7. \A t \in S \cup {s} : Day(t) = d => \E n \in 1 .. L + 1 : more[d][n].id = t.id
    <3>1. L + 1 \in 1 .. L + 1 /\ 1 .. L \subseteq 1 .. L + 1
      BY <1>5
    <3> SUFFICES ASSUME NEW t \in S \cup {s}, Day(t) = d
                 PROVE  \E n \in 1 .. L + 1 : more[d][n].id = t.id
      OBVIOUS
    <3>2. CASE t = s
      BY <1>10, <2>2, <3>1, <3>2
    <3>3. CASE t \in S
      <4>1. PICK n \in 1 .. L : nodes[n].id = t.id
        BY <1>6, <3>3
      <4> QED BY <2>2, <3>1, <4>1
    <3> QED BY <3>2, <3>3
  <2> QED BY <2>1, <2>3, <2>5, <2>6, <2>7 DEF HoldsDay
<1>13. ASSUME NEW e \in Days, e # d PROVE Good(e)
  <2>1. more[e] = ix[e]
    BY <1>3, <1>13
  <2>2. Day(s) # e
    BY <1>13 DEF d
  <2> QED BY <2>1, <2>2 DEF Holds, HoldsDay
<1>14. \A e \in Days : Good(e)
  <2> HIDE DEF Good
  <2> QED BY <1>12, <1>13
<1> QED BY <1>3, <1>14 DEF Holds, more

LEMMA EmptyHolds == Holds(EmptyIndex, {})
<1> DEFINE none == [n \in {} |-> {}]
<1>1. EmptyIndex \in [Days -> Seq(NodeType)] /\ \A d \in Days : EmptyIndex[d] = <<>>
  BY DEF EmptyIndex
<1>2. Line(<<>>, none)
  BY DEF Line
<1>3. Tree(<<>>)
  BY <1>2 DEF Tree
<1> QED BY <1>1, <1>3 DEF Holds, HoldsDay

(* The loop of from_db. *)
LEMMA RebuiltHolds ==
    ASSUME screenshots \subseteq Shots, IsFiniteSet(screenshots)
    PROVE  Holds(Rebuilt, screenshots)
<1> DEFINE seq == ByTime(screenshots)
           L == Len(seq)
           V == [Days -> Seq(NodeType)]
           step == [k \in 1 .. L |-> [ix \in V |-> Indexed(ix, seq[k])]]
           Is(f) == f = [n \in 0 .. L |-> IF n = 0 THEN EmptyIndex ELSE Indexed(f[n - 1], seq[n])]
           built == CHOOSE f : Is(f)
<1>1. /\ seq \in Seq(screenshots)
      /\ \A i, j \in 1 .. L : i # j => seq[i] # seq[j]
      /\ \A s \in screenshots : \E i \in 1 .. L : seq[i] = s
  BY ByTimeIs
<1>2. Rebuilt = built[L]
  BY DEF Rebuilt
<1> HIDE DEF seq
<1>3. L \in Nat /\ \A i \in 1 .. L : seq[i] \in screenshots /\ seq[i] \in Shots
  BY <1>1
<1> HIDE DEF L
<1>4. \A k \in 1 .. L, ix \in V : step[k][ix] = Indexed(ix, seq[k]) /\ Indexed(ix, seq[k]) \in V
  BY <1>3, IndexedTyped
<1>5. step \in [1 .. L -> [V -> V]] /\ EmptyIndex \in V
  <2>1. \A k \in 1 .. L : step[k] \in [V -> V]
    BY <1>4
  <2>2. EmptyIndex \in V
    BY EmptyHolds DEF Holds
  <2> QED BY <2>1, <2>2
<1>6. PICK f : Loop(L, V, EmptyIndex, step, f)
  <2> HIDE DEF V, step
  <2> QED BY <1>3, <1>5, LoopExists
<1> HIDE DEF V, step
<1>7. Is(f)
  <2>0. DOMAIN f = 0 .. L /\ f = [n \in 0 .. L |-> f[n]]
    BY <1>6 DEF Loop
  <2> SUFFICES ASSUME NEW n \in 0 .. L
               PROVE  f[n] = IF n = 0 THEN EmptyIndex ELSE Indexed(f[n - 1], seq[n])
    BY <2>0
  <2>1. n = 0 \/ n \in 1 .. L
    BY <1>3
  <2>2. n # 0 => n - 1 \in 0 .. L /\ f[n - 1] \in V
    BY <1>3, <1>6 DEF Loop
  <2> QED BY <1>4, <1>6, <2>1, <2>2 DEF Loop
<1>8. Is(built)
  <2> HIDE DEF Is
  <2> QED BY <1>7
<1> HIDE DEF built
<1>9. built[0] = EmptyIndex /\ \A n \in 1 .. L : built[n] = Indexed(built[n - 1], seq[n])
  <2>1. \A n \in 0 .. L : built[n] = IF n = 0 THEN EmptyIndex ELSE Indexed(built[n - 1], seq[n])
    BY <1>8
  <2>2. 0 \in 0 .. L /\ \A n \in 1 .. L : n \in 0 .. L /\ n # 0
    BY <1>3
  <2> HIDE DEF Is
  <2> QED BY <2>1, <2>2
<1> DEFINE taken(n) == {seq[i] : i \in 1 .. n}
           T == {n \in Nat : n <= L => Holds(built[n], taken(n))}
<1>10. 0 \in T
  <2>1. taken(0) = {}
    OBVIOUS
  <2> HIDE DEF taken
  <2> QED BY <1>9, <2>1, EmptyHolds
<1>11. ASSUME NEW n \in Nat, n \in T PROVE n + 1 \in T
  <2> SUFFICES ASSUME n + 1 <= L PROVE Holds(built[n + 1], taken(n + 1))
    OBVIOUS
  <2>1. n + 1 \in 1 .. L /\ (n + 1) - 1 = n /\ 1 .. n + 1 = (1 .. n) \cup {n + 1}
    BY <1>3
  <2>2. Holds(built[n], taken(n))
    BY <1>3, <1>11
  <2>3. built[n + 1] = Indexed(built[n], seq[n + 1])
    BY <1>9, <2>1
  <2>4. seq[n + 1] \in Shots /\ seq[n + 1] \notin taken(n) /\ taken(n) \subseteq Shots
    <3>1. \A i \in 1 .. n : i \in 1 .. L /\ i # n + 1
      BY <1>3
    <3> QED BY <1>1, <1>3, <2>1, <3>1
  <2>5. taken(n + 1) = taken(n) \cup {seq[n + 1]}
    BY <2>1
  <2> HIDE DEF taken
  <2> QED BY <2>2, <2>3, <2>4, <2>5, IndexedHolds
<1>12. L \in T
  <2> HIDE DEF T
  <2> QED BY <1>3, <1>10, <1>11, AllOf
<1>13. taken(L) = screenshots
  BY <1>1, <1>3
<1> HIDE DEF taken
<1> QED BY <1>2, <1>3, <1>12, <1>13

-----------------------------------------------------------------------------
UploadType == {NoUpload} \cup [pc : {"stored"}, shot : Shots, new : BOOLEAN]

Adding(h) == upload[h].pc = "stored" /\ upload[h].new

(* What the index holds is what is stored and not still with the handler   *)
(* that stored it first.                                                   *)
ImageInv ==
    /\ screenshots \subseteq Shots /\ IsFiniteSet(screenshots) /\ rebuilds \in 0 .. MaxRebuilds
    /\ upload \in [Handlers -> UploadType]
    /\ \A h \in Handlers : upload[h].pc = "stored" => upload[h].shot \in screenshots
    /\ \A g, h \in Handlers : Adding(g) /\ Adding(h) /\ upload[g].shot = upload[h].shot => g = h
    /\ Holds(index, screenshots \ InFlight)

LEMMA UploadsTyped ==
    ASSUME NEW u \in UploadType
    PROVE  \/ u = NoUpload /\ u.pc = "none"
           \/ /\ u.pc = "stored" /\ u.shot \in Shots /\ u.new \in BOOLEAN
              /\ u # NoUpload
BY DEF UploadType, NoUpload

LEMMA ImageInitInv == ImageInit => ImageInv
<1> SUFFICES ASSUME ImageInit PROVE ImageInv
  OBVIOUS
<1> USE DEF ImageInit
<1>1. upload \in [Handlers -> UploadType]
  BY DEF UploadType
<1>2. \A h \in Handlers : upload[h].pc = "none"
  BY DEF NoUpload
<1>3. IsFiniteSet({}) /\ 0 \in 0 .. MaxRebuilds
  BY FS_EmptySet, ImageSearchAssumption
<1>4. screenshots \ InFlight = {}
  OBVIOUS
<1>5. Holds(index, {})
  BY EmptyHolds
<1> QED BY <1>1, <1>2, <1>3, <1>4, <1>5 DEF ImageInv, Adding

LEMMA StoreShotKeeps ==
    ASSUME ImageInv, NEW h \in Handlers, NEW s \in Shots, StoreShot(h, s)
    PROVE  ImageInv'
<1> USE DEF ImageInv
<1>1. /\ upload[h] = NoUpload /\ screenshots' = screenshots \cup {s}
      /\ upload' = [upload EXCEPT ![h] = [pc |-> "stored", shot |-> s, new |-> s \notin screenshots]]
      /\ index' = index /\ rebuilds' = rebuilds
  BY DEF StoreShot
<1> DEFINE kept == [pc |-> "stored", shot |-> s, new |-> s \notin screenshots]
<1>2. kept \in UploadType /\ kept.pc = "stored" /\ kept.shot = s /\ (kept.new <=> s \notin screenshots)
  BY DEF UploadType
<1> HIDE DEF kept
<1>3. /\ upload' \in [Handlers -> UploadType] /\ upload'[h] = kept
      /\ \A g \in Handlers : g # h => upload'[g] = upload[g]
  BY <1>1, <1>2 DEF kept
<1>4. upload[h].pc # "stored"
  BY <1>1 DEF NoUpload
<1>5. screenshots' \subseteq Shots /\ IsFiniteSet(screenshots') /\ s \in screenshots'
  BY <1>1, FS_AddElement
<1>6. \A g \in Handlers : upload'[g].pc = "stored" => upload'[g].shot \in screenshots'
  BY <1>1, <1>2, <1>3
<1>7. /\ \A g \in Handlers : g # h => (Adding(g)' <=> Adding(g))
      /\ Adding(h)' <=> s \notin screenshots
      /\ ~Adding(h)
  BY <1>2, <1>3, <1>4 DEF Adding
<1>8. \A f, g \in Handlers : Adding(f)' /\ Adding(g)' /\ upload'[f].shot = upload'[g].shot => f = g
  <2> SUFFICES ASSUME NEW f \in Handlers, NEW g \in Handlers, Adding(f)', Adding(g)',
                      upload'[f].shot = upload'[g].shot, f # g
               PROVE  FALSE
    OBVIOUS
  <2>1. \A k \in Handlers : k # h /\ Adding(k)' => upload'[k].shot \in screenshots
    BY <1>3, <1>7 DEF Adding
  <2> QED BY <1>2, <1>3, <1>7, <2>1
<1>9. (screenshots \ InFlight)' = screenshots \ InFlight
  <2>1. InFlight = {t \in screenshots : \E g \in Handlers : Adding(g) /\ upload[g].shot = t}
    BY DEF InFlight, Adding
  <2>2. InFlight' = {t \in screenshots' : \E g \in Handlers : Adding(g)' /\ upload'[g].shot = t}
    BY DEF InFlight, Adding
  <2>3. \A t \in screenshots : t \in InFlight' <=> t \in InFlight
    BY <1>1, <1>2, <1>3, <1>7, <2>1, <2>2
  <2>4. s \notin screenshots => s \in InFlight'
    BY <1>2, <1>3, <1>5, <1>7, <2>2
  <2> QED BY <1>1, <2>3, <2>4
<1>10. Holds(index, screenshots \ InFlight)'
  BY <1>1, <1>9 DEF Holds, HoldsDay
<1> QED BY <1>1, <1>3, <1>5, <1>6, <1>8, <1>10

LEMMA IndexShotKeeps ==
    ASSUME ImageInv, NEW h \in Handlers, IndexShot(h)
    PROVE  ImageInv'
<1> USE DEF ImageInv
<1>1. /\ upload[h].pc = "stored" /\ screenshots' = screenshots /\ rebuilds' = rebuilds
      /\ upload' = [upload EXCEPT ![h] = NoUpload]
      /\ index' = IF upload[h].new THEN Indexed(index, upload[h].shot) ELSE index
  BY DEF IndexShot
<1>2. /\ upload' \in [Handlers -> UploadType] /\ upload'[h] = NoUpload
      /\ \A g \in Handlers : g # h => upload'[g] = upload[g]
  BY <1>1 DEF UploadType
<1>3. upload'[h].pc # "stored"
  BY <1>2 DEF NoUpload
<1>4. /\ upload[h].shot \in screenshots /\ upload[h].new \in BOOLEAN /\ upload[h].shot \in Shots
      /\ Adding(h) <=> upload[h].new
  BY <1>1, UploadsTyped DEF Adding
<1>5. ~Adding(h)' /\ \A g \in Handlers : g # h => (Adding(g)' <=> Adding(g))
  BY <1>2, <1>3 DEF Adding
<1>6. /\ \A g \in Handlers : upload'[g].pc = "stored" => upload'[g].shot \in screenshots'
      /\ \A f, g \in Handlers : Adding(f)' /\ Adding(g)' /\ upload'[f].shot = upload'[g].shot => f = g
  BY <1>1, <1>2, <1>3, <1>5
<1>7. InFlight = {t \in screenshots : \E g \in Handlers : Adding(g) /\ upload[g].shot = t}
  BY DEF InFlight, Adding
<1>8. InFlight' = {t \in screenshots' : \E g \in Handlers : Adding(g)' /\ upload'[g].shot = t}
  BY DEF InFlight, Adding
<1>9. CASE upload[h].new
  <2> DEFINE s == upload[h].shot
  <2>1. s \in InFlight
    BY <1>4, <1>7, <1>9
  <2>2. InFlight' = InFlight \ {s}
    <3>1. \A g \in Handlers : g # h /\ Adding(g) => upload[g].shot # s
      BY <1>4, <1>9
    <3>2. \A t \in screenshots :
              (\E g \in Handlers : Adding(g)' /\ upload'[g].shot = t)
                  <=> (t # s /\ \E g \in Handlers : Adding(g) /\ upload[g].shot = t)
      BY <1>2, <1>5, <3>1
    <3> QED BY <1>1, <1>7, <1>8, <3>2
  <2>3. (screenshots \ InFlight)' = (screenshots \ InFlight) \cup {s}
    BY <1>1, <1>4, <2>1, <2>2
  <2>4. Holds(Indexed(index, s), (screenshots \ InFlight) \cup {s})
    <3>1. s \in Shots /\ s \notin screenshots \ InFlight /\ screenshots \ InFlight \subseteq Shots
      BY <1>4, <2>1
    <3> HIDE DEF s
    <3> QED BY <3>1, IndexedHolds
  <2>5. index' = Indexed(index, s)
    BY <1>1, <1>9
  <2>6. Holds(index', (screenshots \ InFlight)')
    BY <2>3, <2>4, <2>5
  <2>7. Holds(index, screenshots \ InFlight)'
    BY <2>6 DEF Holds, HoldsDay
  <2> QED BY <1>1, <1>2, <1>6, <2>7
<1>10. CASE ~upload[h].new
  <2>1. InFlight' = InFlight
    <3>1. \A t \in screenshots :
              (\E g \in Handlers : Adding(g)' /\ upload'[g].shot = t)
                  <=> \E g \in Handlers : Adding(g) /\ upload[g].shot = t
      BY <1>2, <1>4, <1>5, <1>10
    <3> QED BY <1>1, <1>7, <1>8, <3>1
  <2>2. Holds(index, screenshots \ InFlight)'
    BY <1>1, <1>10, <2>1 DEF Holds, HoldsDay
  <2> QED BY <1>1, <1>2, <1>6, <2>2
<1> QED BY <1>4, <1>9, <1>10

LEMMA RestartServerKeeps == ASSUME ImageInv, RestartServer PROVE ImageInv'
<1> USE DEF ImageInv
<1>1. /\ screenshots' = screenshots /\ rebuilds < MaxRebuilds /\ rebuilds' = rebuilds + 1
      /\ upload' = [h \in Handlers |-> NoUpload] /\ index' = Rebuilt
  BY DEF RestartServer
<1>2. upload' \in [Handlers -> UploadType] /\ \A h \in Handlers : upload'[h].pc # "stored"
  BY <1>1 DEF UploadType, NoUpload
<1>3. InFlight' = {}
  BY <1>2 DEF InFlight
<1>4. Holds(index', screenshots')
  BY <1>1, RebuiltHolds
<1>5. (screenshots \ InFlight)' = screenshots'
  BY <1>3
<1>6. Holds(index, screenshots \ InFlight)'
  BY <1>4, <1>5 DEF Holds, HoldsDay
<1>7. rebuilds' \in 0 .. MaxRebuilds
  BY <1>1, ImageSearchAssumption
<1> QED BY <1>1, <1>2, <1>6, <1>7 DEF Adding

LEMMA ImageStep == ImageInv /\ [ImageNext]_imageVars => ImageInv'
<1> SUFFICES ASSUME ImageInv, [ImageNext]_imageVars PROVE ImageInv'
  OBVIOUS
<1>1. ASSUME NEW h \in Handlers, NEW s \in Shots, StoreShot(h, s) PROVE ImageInv'
  BY <1>1, StoreShotKeeps
<1>2. ASSUME NEW h \in Handlers, IndexShot(h) PROVE ImageInv'
  BY <1>2, IndexShotKeeps
<1>3. CASE RestartServer
  BY <1>3, RestartServerKeeps
<1>4. CASE UNCHANGED <<screenshots, index, upload, rebuilds>>
  <2>1. InFlight' = InFlight
    BY <1>4 DEF InFlight
  <2> QED BY <1>4, <2>1 DEF ImageInv, Adding, Holds, HoldsDay
<1>5. ASSUME NEW q \in Queries, Visual(q) \/ TextKeyword(q)
      PROVE  UNCHANGED <<screenshots, index, upload, rebuilds>>
  BY <1>5 DEF Visual, TextKeyword
<1>6. CASE Semantic \/ Keyword
  BY <1>4, <1>6 DEF Semantic, Keyword, Second
<1>7. CASE Fuse \/ TextSemantic
  BY <1>4, <1>7 DEF Fuse, TextSemantic
<1>8. CASE UNCHANGED imageVars
  BY <1>4, <1>8 DEF imageVars
<1> QED BY <1>1, <1>2, <1>3, <1>4, <1>5, <1>6, <1>7, <1>8 DEF ImageNext

LEMMA ImageInvariant == ImageSpec => []ImageInv
<1> QED BY ImageInitInv, ImageStep, PTL DEF ImageSpec

LEMMA IndexFollows == ImageInv => IndexExact
<1> SUFFICES ASSUME ImageInv, NEW d \in Days, NEW hash \in SUBSET Bits, NEW radius \in 0 .. Cardinality(Bits)
             PROVE  Answers(d, hash, radius)
  BY DEF IndexExact
<1> DEFINE nodes == index[d]
           S == screenshots \ InFlight
           got == RangeSearch(nodes, hash, radius)
<1>1. HoldsDay(nodes, d, S) /\ S \subseteq Shots
  BY DEF ImageInv, Holds
<1>2. Cardinality(Bits) \in Nat /\ radius \in Int
  BY FS_CardinalityType, ImageSearchAssumption
<1>3. Answers(d, hash, radius) <=>
        /\ \A m, n \in got : nodes[m].id = nodes[n].id => m = n
        /\ {nodes[n].id : n \in got} = {s.id : s \in {t \in S : Day(t) = d /\ Hamming(hash, t.hash) <= radius}}
  BY DEF Answers
<1> HIDE DEF nodes, S
<1>4. got = {n \in DOMAIN nodes : Hamming(hash, nodes[n].hash) <= radius}
  BY <1>1, <1>2, RangeIs DEF HoldsDay
<1>5. \A n \in DOMAIN nodes : \E s \in S : Day(s) = d /\ nodes[n].id = s.id /\ nodes[n].hash = s.hash
  BY <1>1 DEF HoldsDay
<1>6. \A m, n \in DOMAIN nodes : nodes[m].id = nodes[n].id => m = n
  BY <1>1 DEF HoldsDay
<1>7. \A s \in S : Day(s) = d => \E n \in DOMAIN nodes : nodes[n].id = s.id
  BY <1>1 DEF HoldsDay
<1> HIDE DEF got
<1>8. ASSUME NEW n \in got
      PROVE  \E s \in S : Day(s) = d /\ Hamming(hash, s.hash) <= radius /\ s.id = nodes[n].id
  BY <1>4, <1>5
<1>9. ASSUME NEW s \in S, Day(s) = d, Hamming(hash, s.hash) <= radius
      PROVE  \E n \in got : nodes[n].id = s.id
  <2>1. PICK n \in DOMAIN nodes : nodes[n].id = s.id
    BY <1>7, <1>9
  <2>2. PICK t \in S : nodes[n].id = t.id /\ nodes[n].hash = t.hash
    BY <1>5
  <2>3. t = s
    BY <1>1, <1>9, <2>1, <2>2, IdsDiffer
  <2> QED BY <1>4, <1>9, <2>1, <2>2, <2>3
<1> QED BY <1>3, <1>4, <1>6, <1>8, <1>9

-----------------------------------------------------------------------------
(* The answers *)
LEMMA TopIs ==
    ASSUME NEW T, NEW seq \in Seq(T), NEW n \in Nat
    PROVE  /\ Top(seq, n) \in Seq(T) /\ Len(Top(seq, n)) <= n /\ Len(Top(seq, n)) <= Len(seq)
           /\ Len(Top(seq, n)) < n => Len(Top(seq, n)) = Len(seq)
           /\ \A i \in 1 .. Len(Top(seq, n)) : Top(seq, n)[i] = seq[i]
<1> DEFINE m == IF Len(seq) < n THEN Len(seq) ELSE n
<1>1. m \in 0 .. Len(seq) /\ Len(seq) \in Nat /\ m <= n /\ (m < n => m = Len(seq))
  OBVIOUS
<1>2. Top(seq, n) = SubSeq(seq, 1, m)
  BY DEF Top
<1> HIDE DEF m
<1>3. \A i \in 1 .. m : seq[i] \in T
  BY <1>1
<1>4. /\ SubSeq(seq, 1, m) \in Seq(T) /\ Len(SubSeq(seq, 1, m)) = m
      /\ \A i \in 1 .. m : SubSeq(seq, 1, m)[i] = seq[i]
  BY <1>1, <1>3, SubSeqProperties
<1> QED BY <1>1, <1>2, <1>4

LEMMA IdentifiedIs ==
    ASSUME NEW T, NEW hits \in Seq(T), NEW I, \A t \in T : t.id \in I
    PROVE  Identified(hits) \in Seq(I) /\ Len(Identified(hits)) <= Fetch
<1> DEFINE best == Top(hits, Fetch)
<1>1. Fetch \in Nat
  BY LimitsTyped
<1>2. best \in Seq(T) /\ Len(best) <= Fetch
  BY <1>1, TopIs
<1>3. Identified(hits) = [i \in DOMAIN best |-> best[i].id]
  BY DEF Identified
<1> HIDE DEF best
<1>4. DOMAIN best = 1 .. Len(best) /\ Len(best) \in Nat /\ \A i \in 1 .. Len(best) : best[i] \in T
  BY <1>2
<1> QED BY <1>2, <1>3, <1>4

(* What is kept of the first n: all that belongs to S and nothing else, in *)
(* the order it was in.                                                    *)
Kept(seq, S, n, out) ==
    /\ Len(out) <= n
    /\ \A k \in 1 .. Len(out) : out[k] \in S /\ \E i \in 1 .. n : out[k] = seq[i]
    /\ \A i \in 1 .. n : seq[i] \in S => \E k \in 1 .. Len(out) : out[k] = seq[i]
    /\ \A a, b \in 1 .. Len(out) :
          a < b => \E i, j \in 1 .. n : i < j /\ out[a] = seq[i] /\ out[b] = seq[j]

LEMMA KeptGrows ==
    ASSUME NEW T, NEW seq \in Seq(T), NEW S, NEW n \in Nat, n + 1 <= Len(seq),
           NEW out \in Seq(T), Kept(seq, S, n, out)
    PROVE  Kept(seq, S, n + 1, IF seq[n + 1] \in S THEN Append(out, seq[n + 1]) ELSE out)
<1>1. Len(out) \in Nat /\ seq[n + 1] \in T /\ \A i \in 1 .. n + 1 : i = n + 1 \/ i \in 1 .. n
  OBVIOUS
<1>2. CASE seq[n + 1] \in S
  <2> DEFINE more == Append(out, seq[n + 1])
             L == Len(out)
  <2>1. /\ Len(more) = L + 1 /\ more[L + 1] = seq[n + 1]
        /\ \A k \in 1 .. L : more[k] = out[k]
    BY <1>1
  <2> HIDE DEF more
  <2>2. \A k \in 1 .. L + 1 : k = L + 1 \/ k \in 1 .. L
    BY <1>1
  <2>3. L + 1 <= n + 1
    BY <1>1 DEF Kept
  <2>4. \A k \in 1 .. L + 1 : more[k] \in S /\ \E i \in 1 .. n + 1 : more[k] = seq[i]
    <3> SUFFICES ASSUME NEW k \in 1 .. L + 1
                 PROVE  more[k] \in S /\ \E i \in 1 .. n + 1 : more[k] = seq[i]
      OBVIOUS
    <3>1. CASE k = L + 1
      <4>1. n + 1 \in 1 .. n + 1
        OBVIOUS
      <4> QED BY <1>2, <2>1, <3>1, <4>1
    <3>2. CASE k \in 1 .. L
      <4>1. out[k] \in S /\ \E i \in 1 .. n : out[k] = seq[i]
        BY <3>2 DEF Kept
      <4> QED BY <2>1, <3>2, <4>1
    <3> QED BY <2>2, <3>1, <3>2
  <2>5. \A i \in 1 .. n + 1 : seq[i] \in S => \E k \in 1 .. L + 1 : more[k] = seq[i]
    <3> SUFFICES ASSUME NEW i \in 1 .. n + 1, seq[i] \in S
                 PROVE  \E k \in 1 .. L + 1 : more[k] = seq[i]
      OBVIOUS
    <3>0. L + 1 \in 1 .. L + 1 /\ 1 .. L \subseteq 1 .. L + 1
      BY <1>1
    <3>1. CASE i = n + 1
      BY <2>1, <3>0, <3>1
    <3>2. CASE i \in 1 .. n
      <4>1. PICK k \in 1 .. L : out[k] = seq[i]
        BY <3>2 DEF Kept
      <4> QED BY <2>1, <3>0, <4>1
    <3> QED BY <1>1, <3>1, <3>2
  <2>6. ASSUME NEW a \in 1 .. L + 1, NEW b \in 1 .. L + 1, a < b
        PROVE  \E i, j \in 1 .. n + 1 : i < j /\ more[a] = seq[i] /\ more[b] = seq[j]
    <3>1. a \in 1 .. L
      BY <1>1, <2>6
    <3>2. CASE b = L + 1
      <4>1. PICK i \in 1 .. n : out[a] = seq[i]
        BY <3>1 DEF Kept
      <4>2. i \in 1 .. n + 1 /\ n + 1 \in 1 .. n + 1 /\ i < n + 1
        OBVIOUS
      <4> QED BY <2>1, <3>1, <3>2, <4>1, <4>2
    <3>3. CASE b \in 1 .. L
      <4>1. PICK i \in 1 .. n, j \in 1 .. n : i < j /\ out[a] = seq[i] /\ out[b] = seq[j]
        BY <2>6, <3>1, <3>3 DEF Kept
      <4>2. i \in 1 .. n + 1 /\ j \in 1 .. n + 1
        OBVIOUS
      <4> QED BY <2>1, <3>1, <3>3, <4>1, <4>2
    <3> QED BY <2>2, <3>2, <3>3
  <2>7. Kept(seq, S, n + 1, more)
    <3> HIDE DEF L
    <3> QED BY <2>1, <2>3, <2>4, <2>5, <2>6 DEF Kept
  <2> QED BY <1>2, <2>7 DEF more
<1>3. CASE seq[n + 1] \notin S
  <2>1. Len(out) <= n + 1
    BY <1>1 DEF Kept
  <2>2. \A i \in 1 .. n : i \in 1 .. n + 1
    OBVIOUS
  <2>3. \A k \in 1 .. Len(out) : out[k] \in S /\ \E i \in 1 .. n + 1 : out[k] = seq[i]
    BY <2>2 DEF Kept
  <2>4. \A i \in 1 .. n + 1 : seq[i] \in S => \E k \in 1 .. Len(out) : out[k] = seq[i]
    BY <1>1, <1>3 DEF Kept
  <2>5. \A a, b \in 1 .. Len(out) :
          a < b => \E i, j \in 1 .. n + 1 : i < j /\ out[a] = seq[i] /\ out[b] = seq[j]
    BY <2>2 DEF Kept
  <2>6. Kept(seq, S, n + 1, out)
    BY <2>1, <2>3, <2>4, <2>5 DEF Kept
  <2> QED BY <1>3, <2>6
<1> QED BY <1>2, <1>3

LEMMA KeepingIs ==
    ASSUME NEW T, NEW seq \in Seq(T), NEW S
    PROVE  Keeping(seq, S) \in Seq(T) /\ Kept(seq, S, Len(seq), Keeping(seq, S))
<1> DEFINE L == Len(seq)
           V == Seq(T)
           step == [k \in 1 .. L |-> [out \in V |-> IF seq[k] \in S THEN Append(out, seq[k]) ELSE out]]
           Is(f) == f = [n \in 0 .. L |-> IF n = 0 THEN <<>>
                                          ELSE IF seq[n] \in S THEN Append(f[n - 1], seq[n]) ELSE f[n - 1]]
           kept == CHOOSE f : Is(f)
<1>1. L \in Nat /\ \A i \in 1 .. L : seq[i] \in T
  OBVIOUS
<1>2. Keeping(seq, S) = kept[L]
  BY DEF Keeping
<1> HIDE DEF L
<1>3. \A k \in 1 .. L, out \in V : /\ step[k][out] = IF seq[k] \in S THEN Append(out, seq[k]) ELSE out
                                   /\ step[k][out] \in V
  BY <1>1
<1>4. step \in [1 .. L -> [V -> V]] /\ <<>> \in V
  <2>1. \A k \in 1 .. L : step[k] \in [V -> V]
    BY <1>1
  <2> QED BY <2>1
<1>5. PICK f : Loop(L, V, <<>>, step, f)
  <2> HIDE DEF V, step
  <2> QED BY <1>1, <1>4, LoopExists
<1> HIDE DEF V, step
<1>6. Is(f)
  <2>0. DOMAIN f = 0 .. L /\ f = [n \in 0 .. L |-> f[n]]
    BY <1>5 DEF Loop
  <2> SUFFICES ASSUME NEW n \in 0 .. L
               PROVE  f[n] = IF n = 0 THEN <<>>
                             ELSE IF seq[n] \in S THEN Append(f[n - 1], seq[n]) ELSE f[n - 1]
    BY <2>0
  <2>1. n = 0 \/ n \in 1 .. L
    BY <1>1
  <2>2. n # 0 => n - 1 \in 0 .. L /\ f[n - 1] \in V
    BY <1>1, <1>5 DEF Loop
  <2> QED BY <1>3, <1>5, <2>1, <2>2 DEF Loop
<1>7. Is(kept)
  <2> HIDE DEF Is
  <2> QED BY <1>6
<1> HIDE DEF kept
<1>8. kept[0] = <<>> /\ \A n \in 1 .. L :
          kept[n] = IF seq[n] \in S THEN Append(kept[n - 1], seq[n]) ELSE kept[n - 1]
  <2>1. \A n \in 0 .. L : kept[n] = IF n = 0 THEN <<>>
                                    ELSE IF seq[n] \in S THEN Append(kept[n - 1], seq[n]) ELSE kept[n - 1]
    BY <1>7
  <2>2. 0 \in 0 .. L /\ \A n \in 1 .. L : n \in 0 .. L /\ n # 0
    BY <1>1
  <2> HIDE DEF Is
  <2> QED BY <2>1, <2>2
<1> DEFINE M == {n \in Nat : n <= L => kept[n] \in Seq(T) /\ Kept(seq, S, n, kept[n])}
<1>9. 0 \in M
  <2>1. Kept(seq, S, 0, <<>>)
    BY DEF Kept
  <2>2. kept[0] = <<>> /\ <<>> \in Seq(T)
    BY <1>8
  <2>3. kept[0] \in Seq(T) /\ Kept(seq, S, 0, kept[0])
    BY <2>1, <2>2
  <2> QED BY <2>3
<1>10. ASSUME NEW n \in Nat, n \in M PROVE n + 1 \in M
  <2> SUFFICES ASSUME n + 1 <= L PROVE kept[n + 1] \in Seq(T) /\ Kept(seq, S, n + 1, kept[n + 1])
    OBVIOUS
  <2>1. n + 1 \in 1 .. L /\ (n + 1) - 1 = n /\ n <= L
    BY <1>1
  <2>2. kept[n] \in Seq(T) /\ Kept(seq, S, n, kept[n])
    BY <1>10, <2>1
  <2>3. kept[n + 1] = IF seq[n + 1] \in S THEN Append(kept[n], seq[n + 1]) ELSE kept[n]
    BY <1>8, <2>1
  <2>4. kept[n + 1] \in Seq(T)
    BY <1>1, <2>1, <2>2, <2>3
  <2>5. Kept(seq, S, n + 1, IF seq[n + 1] \in S THEN Append(kept[n], seq[n + 1]) ELSE kept[n])
    BY <2>1, <2>2, KeptGrows DEF L
  <2> QED BY <2>3, <2>4, <2>5
<1>11. L \in M
  <2> HIDE DEF M
  <2> QED BY <1>1, <1>9, <1>10, AllOf
<1>12. kept[L] \in Seq(T) /\ Kept(seq, S, L, kept[L])
  BY <1>1, <1>11
<1> QED BY <1>2, <1>12 DEF L

(* A rank down, the reciprocal is less: it tells any two ranks apart.      *)
LEMMA QuotientIs ==
    ASSUME NEW whole \in Nat, NEW top \in Nat, top * (top + 1) < whole, NEW m \in Nat, 0 < m, m <= top
    PROVE  LET q == whole \div m
           IN  q \in Nat /\ m * q <= whole /\ whole < m * q + m /\ q > top
<1> DEFINE q == whole \div m
<1>1. q \in Int /\ m * q <= whole /\ whole < m * (q + 1)
  OBVIOUS
<1> HIDE DEF q
<1>2. m * (q + 1) = m * q + m
  BY <1>1
<1>3. q > top
  <2> SUFFICES ASSUME q <= top PROVE FALSE
    BY <1>1
  <2>1. q + 1 <= top + 1
    BY <1>1
  <2>2. m * (q + 1) <= m * (top + 1)
    BY <1>1, <2>1
  <2>3. m * (top + 1) <= top * (top + 1)
    OBVIOUS
  <2> DEFINE x == m * (q + 1)
             y == m * (top + 1)
             z == top * (top + 1)
  <2>4. x \in Int /\ y \in Int /\ z \in Int
    BY <1>1
  <2>5. whole < x /\ x <= y /\ y <= z /\ z < whole
    BY <1>1, <2>2, <2>3
  <2> HIDE DEF x, y, z
  <2> QED BY <2>4, <2>5
<1> QED BY <1>1, <1>2, <1>3 DEF q

LEMMA QuotientFalls ==
    ASSUME NEW whole \in Nat, NEW top \in Nat, top * (top + 1) < whole,
           NEW m \in Nat, NEW n \in Nat, 0 < m, m < n, n <= top
    PROVE  whole \div n < whole \div m
<1> DEFINE a == whole \div m
           b == whole \div n
<1>1. m + 1 <= n /\ m <= top /\ 0 < n
  OBVIOUS
<1>2. /\ a \in Nat /\ m * a <= whole /\ whole < m * a + m
      /\ b \in Nat /\ n * b <= whole /\ b > top
  BY <1>1, QuotientIs
<1> HIDE DEF a, b
<1>3. b < a
  <2> SUFFICES ASSUME a <= b PROVE FALSE
    BY <1>2
  <2>1. m * a <= m * b
    BY <1>1, <1>2
  <2>2. (m + 1) * b <= n * b /\ (m + 1) * b = m * b + b
    BY <1>1, <1>2
  <2> DEFINE x == m * a
             y == m * b
             z == n * b
  <2>3. x \in Nat /\ y \in Nat /\ z \in Nat
    BY <1>1, <1>2
  <2>4. x <= y /\ y + b <= z /\ z <= whole /\ whole < x + m
    BY <1>2, <2>1, <2>2
  <2> HIDE DEF x, y, z
  <2> QED BY <1>1, <1>2, <2>3, <2>4
<1> QED BY <1>3 DEF a, b

LEMMA ReciprocalFalls ==
    ASSUME NEW k \in {59, 60}, NEW r \in Nat, NEW s \in Nat, 0 < r, r < s, s <= 8001
    PROVE  /\ Reciprocal(k, r) \in Nat /\ Reciprocal(k, s) \in Nat /\ Reciprocal(k, s) > 0
           /\ Reciprocal(k, s) < Reciprocal(k, r)
<1> DEFINE whole == 60 * 61 * 62 * 63 * 64
           top == 8061
           m == k + r
           n == k + s
<1>1. whole \in Nat /\ top \in Nat /\ top * (top + 1) < whole
  BY SMT
<1>2. m \in Nat /\ n \in Nat /\ 0 < m /\ 0 < n /\ m < n /\ m <= top /\ n <= top
  BY SMT
<1>3. Reciprocal(k, r) = whole \div m /\ Reciprocal(k, s) = whole \div n
  BY DEF Reciprocal
<1>4. top > 0
  BY SMT
<1> HIDE DEF m, n, whole, top
<1>5. whole \div m \in Nat /\ whole \div n \in Nat /\ whole \div n > top
  BY <1>1, <1>2, QuotientIs
<1>6. whole \div n < whole \div m
  BY <1>1, <1>2, QuotientFalls
<1> QED BY <1>1, <1>3, <1>4, <1>5, <1>6

Channel(c) == c \in Seq(Nat) /\ Len(c) <= Fetch

LEMMA RankIs ==
    ASSUME NEW k, NEW c, Channel(c), NEW i
    PROVE  /\ RankIn(c, i) \in 1 .. Fetch + 1
           /\ i \in ToSet(c) => /\ RankIn(c, i) \in 1 .. Fetch /\ c[RankIn(c, i)] = i
                                /\ Share(k, i, c) = Reciprocal(k, RankIn(c, i))
           /\ i \notin ToSet(c) => RankIn(c, i) = Fetch + 1 /\ Share(k, i, c) = 0
<1>1. Fetch \in Nat /\ Len(c) \in Nat /\ Len(c) <= Fetch /\ DOMAIN c = 1 .. Len(c)
  BY LimitsTyped DEF Channel
<1>2. CASE i \in ToSet(c)
  <2> DEFINE r == CHOOSE n \in DOMAIN c : c[n] = i
  <2>1. r \in DOMAIN c /\ c[r] = i
    BY <1>2 DEF ToSet
  <2>2. RankIn(c, i) = r /\ Share(k, i, c) = Reciprocal(k, r)
    BY <1>2 DEF RankIn, Share
  <2> HIDE DEF r
  <2> QED BY <1>1, <1>2, <2>1, <2>2
<1>3. CASE i \notin ToSet(c)
  BY <1>1, <1>3 DEF RankIn, Share
<1> QED BY <1>2, <1>3

LEMMA ShareFalls ==
    ASSUME NEW k \in {59, 60}, NEW c, Channel(c), NEW i, NEW j, RankIn(c, i) <= RankIn(c, j)
    PROVE  /\ Share(k, i, c) \in Nat /\ Share(k, j, c) \in Nat /\ Share(k, j, c) <= Share(k, i, c)
           /\ i # j /\ j \in ToSet(c) => Share(k, j, c) < Share(k, i, c)
           /\ i # j /\ i \in ToSet(c) => Share(k, j, c) < Share(k, i, c)
<1> DEFINE r == RankIn(c, i)
           s == RankIn(c, j)
<1>1. Fetch \in 1 .. 8000
  BY LimitsTyped
<1>2. /\ r \in 1 .. Fetch + 1 /\ s \in 1 .. Fetch + 1 /\ r <= s
      /\ i \in ToSet(c) => r \in 1 .. Fetch /\ c[r] = i /\ Share(k, i, c) = Reciprocal(k, r)
      /\ i \notin ToSet(c) => r = Fetch + 1 /\ Share(k, i, c) = 0
      /\ j \in ToSet(c) => s \in 1 .. Fetch /\ c[s] = j /\ Share(k, j, c) = Reciprocal(k, s)
      /\ j \notin ToSet(c) => s = Fetch + 1 /\ Share(k, j, c) = 0
  BY RankIs
<1> HIDE DEF r, s
<1>3. \A n \in 1 .. Fetch : Reciprocal(k, n) \in Nat /\ Reciprocal(k, n) > 0
  <2> SUFFICES ASSUME NEW n \in 1 .. Fetch PROVE Reciprocal(k, n) \in Nat /\ Reciprocal(k, n) > 0
    OBVIOUS
  <2> DEFINE l == n + 1
  <2>1. n \in Nat /\ l \in Nat /\ 0 < n /\ n < l /\ l <= 8001
    BY <1>1, SMT
  <2> HIDE DEF l
  <2>2. Reciprocal(k, n) \in Nat /\ Reciprocal(k, l) \in Nat /\ Reciprocal(k, l) > 0
        /\ Reciprocal(k, l) < Reciprocal(k, n)
    BY <2>1, ReciprocalFalls
  <2> QED BY <2>2
<1>4. \A n, l \in 1 .. Fetch : n < l => Reciprocal(k, l) < Reciprocal(k, n)
  <2> SUFFICES ASSUME NEW n \in 1 .. Fetch, NEW l \in 1 .. Fetch, n < l
               PROVE  Reciprocal(k, l) < Reciprocal(k, n)
    OBVIOUS
  <2>1. n \in Nat /\ l \in Nat /\ 0 < n /\ l <= 8001
    BY <1>1, SMT
  <2> QED BY <2>1, ReciprocalFalls
<1>5. CASE i \notin ToSet(c)
  <2>1. j \notin ToSet(c)
    BY <1>1, <1>2, <1>5
  <2> QED BY <1>2, <1>5, <2>1
<1>6. CASE i \in ToSet(c) /\ j \notin ToSet(c)
  BY <1>2, <1>3, <1>6
<1>7. CASE i \in ToSet(c) /\ j \in ToSet(c)
  <2>1. r = s \/ r < s
    BY <1>1, <1>2
  <2>2. CASE r = s
    BY <1>2, <1>3, <1>7, <2>2
  <2>3. CASE r < s
    <3>1. Reciprocal(k, s) < Reciprocal(k, r) /\ Reciprocal(k, s) \in Nat /\ Reciprocal(k, r) \in Nat
      BY <1>2, <1>3, <1>4, <1>7, <2>3
    <3> QED BY <1>2, <1>7, <3>1
  <2> QED BY <2>1, <2>2, <2>3
<1> QED BY <1>5, <1>6, <1>7

LEMMA DominanceShows ==
    ASSUME NEW k \in {59, 60}, NEW c, Channel(c), NEW d, Channel(d), NEW i \in Hits(<<c, d>>), NEW j \in Hits(<<c, d>>)
    PROVE  /\ Scores(k, <<c, d>>)[i] \in Nat /\ Scores(k, <<c, d>>)[j] \in Nat
           /\ Dominates(<<c, d>>, i, j) => Scores(k, <<c, d>>)[j] < Scores(k, <<c, d>>)[i]
<1>1. Hits(<<c, d>>) = ToSet(c) \cup ToSet(d)
  BY DEF Hits
<1>2. Scores(k, <<c, d>>)[i] = Share(k, i, c) + Share(k, i, d) /\ Scores(k, <<c, d>>)[j] = Share(k, j, c) + Share(k, j, d)
  BY DEF Scores
<1>3. \A n, e : Channel(e) => Share(k, n, e) \in Nat
  <2> SUFFICES ASSUME NEW n, NEW e, Channel(e) PROVE Share(k, n, e) \in Nat
    OBVIOUS
  <2>1. RankIn(e, n) \in 1 .. Fetch + 1
    BY RankIs
  <2>2. RankIn(e, n) <= RankIn(e, n)
    BY <2>1, LimitsTyped
  <2> QED BY <2>2, ShareFalls
<1>4. ASSUME Dominates(<<c, d>>, i, j)
      PROVE  Scores(k, <<c, d>>)[j] < Scores(k, <<c, d>>)[i]
  <2>1. i # j /\ RankIn(c, i) <= RankIn(c, j) /\ RankIn(d, i) <= RankIn(d, j)
    BY <1>4 DEF Dominates
  <2>2. /\ Share(k, j, c) <= Share(k, i, c) /\ (j \in ToSet(c) => Share(k, j, c) < Share(k, i, c))
        /\ Share(k, j, d) <= Share(k, i, d) /\ (j \in ToSet(d) => Share(k, j, d) < Share(k, i, d))
    BY <2>1, ShareFalls
  <2> QED BY <1>1, <1>2, <1>3, <2>2
<1> QED BY <1>2, <1>3, <1>4

(* The hits that belong to S in the order of their scores, and none left   *)
(* out but where there are too many, after all the others.                 *)
Ranked(k, channels, S, kept) ==
    /\ kept \in Seq(Nat) /\ ToSet(kept) \subseteq Hits(channels) \cap S
    /\ \A a, b \in 1 .. Len(kept) : a < b => Scores(k, channels)[kept[a]] >= Scores(k, channels)[kept[b]]
    /\ \A i \in (Hits(channels) \cap S) \ ToSet(kept) :
          /\ Cardinality(Hits(channels)) > MaxFused
          /\ \A a \in 1 .. Len(kept) : Scores(k, channels)[kept[a]] >= Scores(k, channels)[i]

(* The first of them are the best.                                         *)
LEMMA BestOfHits ==
    ASSUME NEW k \in {59, 60}, NEW c, Channel(c), NEW d, Channel(d), NEW S, NEW kept,
           Ranked(k, <<c, d>>, S, kept)
    PROVE  Best(Top(kept, MaxAnswers), Hits(<<c, d>>) \cap S, <<c, d>>)
<1> DEFINE items == Top(kept, MaxAnswers)
           hits == Hits(<<c, d>>) \cap S
           score(i) == Scores(k, <<c, d>>)[i]
           many == Cardinality(Hits(<<c, d>>)) > MaxFused
<1>0. MaxAnswers \in Nat
  BY LimitsTyped
<1>1. /\ kept \in Seq(Nat) /\ ToSet(kept) \subseteq hits
      /\ \A a, b \in 1 .. Len(kept) : a < b => score(kept[a]) >= score(kept[b])
      /\ \A i \in hits \ ToSet(kept) : many /\ \A a \in 1 .. Len(kept) : score(kept[a]) >= score(i)
  BY DEF Ranked
<1>2. /\ items \in Seq(Nat) /\ Len(items) <= Len(kept)
      /\ Len(items) <= MaxAnswers /\ (Len(items) < MaxAnswers => Len(items) = Len(kept))
      /\ \A a \in 1 .. Len(items) : items[a] = kept[a]
  BY <1>0, <1>1, TopIs
<1>3. \A i, j \in hits : /\ score(i) \in Nat /\ score(j) \in Nat
                         /\ Dominates(<<c, d>>, i, j) => score(j) < score(i)
  BY DominanceShows
<1> HIDE DEF items, hits, score, many
<1>4. /\ Len(items) \in Nat /\ DOMAIN items = 1 .. Len(items)
      /\ Len(kept) \in Nat /\ DOMAIN kept = 1 .. Len(kept)
  BY <1>1, <1>2
<1>5. \A a \in 1 .. Len(items) : a \in 1 .. Len(kept) /\ items[a] = kept[a]
  <2> SUFFICES ASSUME NEW a \in 1 .. Len(items) PROVE a \in 1 .. Len(kept) /\ items[a] = kept[a]
    OBVIOUS
  <2>1. items[a] = kept[a]
    BY <1>2
  <2> DEFINE n == Len(items)
             m == Len(kept)
  <2>2. n \in Nat /\ m \in Nat /\ n <= m /\ a \in 1 .. n
    BY <1>2, <1>4
  <2>3. a \in 1 .. m
    <3> HIDE DEF n, m
    <3> QED BY <2>2
  <2> QED BY <2>1, <2>3
<1>6. \A a \in 1 .. Len(kept) : kept[a] \in hits
  BY <1>1, <1>4 DEF ToSet
<1>7. ToSet(items) \subseteq hits
  <2>1. ToSet(items) = {items[a] : a \in 1 .. Len(items)}
    BY <1>4 DEF ToSet
  <2> QED BY <1>5, <1>6, <2>1
<1>8. ASSUME NEW a \in 1 .. Len(kept), NEW b \in 1 .. Len(kept), Dominates(<<c, d>>, kept[a], kept[b])
      PROVE  a < b
  <2>1. kept[a] # kept[b]
    BY <1>8 DEF Dominates
  <2>2. a # b
    BY <2>1
  <2>3. score(kept[b]) < score(kept[a]) /\ score(kept[a]) \in Nat /\ score(kept[b]) \in Nat
    BY <1>3, <1>6, <1>8
  <2>4. ~(b < a)
    BY <1>1, <2>3
  <2> QED BY <2>2, <2>4
<1>9. \A a, b \in 1 .. Len(items) : Dominates(<<c, d>>, items[a], items[b]) => a < b
  BY <1>5, <1>8
<1>10. ASSUME NEW i \in hits \ ToSet(items)
       PROVE  /\ Len(items) = MaxAnswers \/ many
              /\ \A a \in 1 .. Len(items) : ~Dominates(<<c, d>>, i, items[a])
  <2>1. CASE i \in ToSet(kept)
    <3>1. PICK p \in 1 .. Len(kept) : kept[p] = i
      BY <1>4, <2>1 DEF ToSet
    <3>2. p \notin 1 .. Len(items)
      BY <1>2, <1>4, <3>1 DEF ToSet
    <3> DEFINE n == Len(items)
               m == Len(kept)
    <3>3. n < p /\ n = MaxAnswers
      <4>1. /\ n \in Nat /\ m \in Nat /\ n <= m /\ n <= MaxAnswers
            /\ (n < MaxAnswers => n = m) /\ p \in 1 .. m /\ p \notin 1 .. n
        BY <1>2, <1>4, <3>2
      <4> HIDE DEF n, m
      <4> QED BY <1>0, <4>1
    <3>4. ASSUME NEW a \in 1 .. Len(items), Dominates(<<c, d>>, i, items[a]) PROVE FALSE
      <4>1. items[a] = kept[a] /\ a \in 1 .. Len(kept) /\ a < p
        BY <1>4, <1>5, <3>3
      <4>2. p < a
        BY <1>8, <3>1, <3>4, <4>1
      <4> QED BY <1>4, <4>1, <4>2
    <3> QED BY <3>3, <3>4
  <2>2. CASE i \notin ToSet(kept)
    <3>1. many /\ \A a \in 1 .. Len(kept) : score(kept[a]) >= score(i)
      BY <1>1, <2>2
    <3>2. ASSUME NEW a \in 1 .. Len(items), Dominates(<<c, d>>, i, items[a]) PROVE FALSE
      <4>1. items[a] = kept[a] /\ a \in 1 .. Len(kept) /\ kept[a] \in hits
        BY <1>5, <1>6
      <4>2. score(kept[a]) < score(i) /\ score(i) \in Nat /\ score(kept[a]) \in Nat
        BY <1>3, <3>2, <4>1
      <4> QED BY <3>1, <4>1, <4>2
    <3> QED BY <3>1, <3>2
  <2> QED BY <2>1, <2>2
<1>11. Best(items, hits, <<c, d>>)
  BY <1>4, <1>7, <1>9, <1>10 DEF Best, many
<1> QED BY <1>11 DEF items, hits

LEMMA FoundIs ==
    ASSUME ImageInv, NEW q \in Queries
    PROVE  IsFiniteSet(Found(q)) /\ \A s \in Found(q) : s.id \in Nat
<1> DEFINE S == screenshots \ InFlight
           Nodes(d) == ToSet(index[d])
           days == {Day(s) : s \in S}
           all == {Nodes(d) : d \in days}
<1>1. IsFiniteSet(S) /\ S \subseteq Shots /\ \A s \in S : Day(s) \in Days
  <2>1. S \subseteq screenshots
    OBVIOUS
  <2> HIDE DEF S
  <2> QED BY <2>1, FS_Subset, ShotsTyped DEF ImageInv
<1>2. index \in [Days -> Seq(NodeType)] /\ \A d \in Days : HoldsDay(index[d], d, S)
  BY DEF ImageInv, Holds
<1> HIDE DEF S
<1>3. \A d \in Days : IsFiniteSet(Nodes(d)) /\ Nodes(d) \subseteq NodeType
  BY <1>2, ToSetFinite
<1>4. IsFiniteSet(all)
  <2> DEFINE f == [s \in S |-> Nodes(Day(s))]
  <2>1. f \in Surjection(S, all)
    BY DEF Surjection
  <2> HIDE DEF f, all
  <2> QED BY <1>1, <2>1, FS_Surjection
<1>5. \A T \in all : IsFiniteSet(T)
  BY <1>1, <1>3
<1>6. IsFiniteSet(UNION all)
  <2> HIDE DEF all
  <2> QED BY <1>4, <1>5, FS_UNION
<1>7. ASSUME NEW x \in Found(q) PROVE x \in UNION all /\ x.id \in Nat
  <2>0. PICK d \in Days : \E n \in RangeSearch(index[d], q.hash, q.radius) : x = index[d][n]
    BY <1>7 DEF Found
  <2>1. PICK n \in RangeSearch(index[d], q.hash, q.radius) : x = index[d][n]
    BY <2>0
  <2>2. n \in DOMAIN index[d]
    <3>1. q.hash \in SUBSET Bits /\ q.radius \in Int /\ Tree(index[d])
      BY <1>2, ImageSearchAssumption DEF HoldsDay
    <3> QED BY <2>1, <3>1, RangeIs
  <2>3. x \in Nodes(d)
    BY <2>1, <2>2 DEF ToSet
  <2>4. PICK s \in S : Day(s) = d
    BY <1>2, <2>2 DEF HoldsDay
  <2>5. x \in UNION all
    BY <2>3, <2>4
  <2>6. x \in NodeType
    BY <1>3, <2>3
  <2> QED BY <2>5, <2>6 DEF NodeType
<1>8. Found(q) \subseteq UNION all
  BY <1>7
<1> HIDE DEF all
<1> QED BY <1>6, <1>7, <1>8, FS_Subset

(* A channel is short enough for its ranks to tell, text is only searched  *)
(* in its scope, and an answer stays sound while it is read.               *)
SearchInv ==
    /\ search.pc = "visual" => search.q \in Queries /\ Channel(search.visual)
    /\ search.pc = "semantic" => Channel(search.visual) /\ Channel(search.semantic)
    /\ search.pc = "keyword" => /\ search.q \in Queries /\ Channel(search.keyword)
                                /\ ToSet(search.keyword) \subseteq {s.id : s \in Scoped(search.q)}
    /\ AnswerSound

LEMMA ChannelIs ==
    ASSUME NEW S, IsFiniteSet(S), NEW hits \in SetToSeqs(S), \A s \in S : s.id \in Nat
    PROVE  Channel(Identified(hits)) /\ ToSet(Identified(hits)) \subseteq {s.id : s \in S}
<1> DEFINE I == {s.id : s \in S}
<1>1. hits \in Seq(S) /\ \A s \in S : s.id \in I
  BY SeqsOf
<1>2. I \subseteq Nat
  OBVIOUS
<1> HIDE DEF I
<1>3. Identified(hits) \in Seq(I) /\ Len(Identified(hits)) <= Fetch
  BY <1>1, IdentifiedIs
<1>4. ToSet(Identified(hits)) \subseteq I
  BY <1>3, ToSetFinite
<1>5. Identified(hits) \in Seq(Nat)
  BY <1>2, <1>3, SeqWider
<1> QED BY <1>3, <1>4, <1>5 DEF Channel, I

LEMMA FusedIs ==
    ASSUME NEW k, NEW c, Channel(c), NEW d, Channel(d), NEW fused \in BestFirst(Scores(k, <<c, d>>))
    PROVE  /\ fused \in Seq(Nat) /\ ToSet(fused) = Hits(<<c, d>>)
           /\ Len(fused) = Cardinality(Hits(<<c, d>>))
           /\ \A a, b \in 1 .. Len(fused) :
                 a < b => Scores(k, <<c, d>>)[fused[a]] >= Scores(k, <<c, d>>)[fused[b]]
<1> DEFINE hits == Hits(<<c, d>>)
           scores == Scores(k, <<c, d>>)
<1>1. hits = ToSet(c) \cup ToSet(d) /\ DOMAIN scores = hits
  BY DEF Hits, Scores
<1>2. IsFiniteSet(hits) /\ hits \subseteq Nat
  <2>1. IsFiniteSet(ToSet(c)) /\ ToSet(c) \subseteq Nat
    BY ToSetFinite DEF Channel
  <2>2. IsFiniteSet(ToSet(d)) /\ ToSet(d) \subseteq Nat
    BY ToSetFinite DEF Channel
  <2>3. IsFiniteSet(ToSet(c) \cup ToSet(d))
    BY <2>1, <2>2, FS_Union
  <2> QED BY <1>1, <2>1, <2>2, <2>3
<1> HIDE DEF hits, scores
<1>3. fused \in SetToSeqs(hits) /\ \A a, b \in DOMAIN fused : a < b => scores[fused[a]] >= scores[fused[b]]
  BY <1>1 DEF BestFirst, scores
<1>4. fused \in Seq(hits) /\ ToSet(fused) = hits /\ Len(fused) = Cardinality(hits)
  BY <1>2, <1>3, SeqsOf
<1>5. fused \in Seq(Nat) /\ DOMAIN fused = 1 .. Len(fused)
  BY <1>2, <1>4, SeqWider
<1> QED BY <1>3, <1>4, <1>5 DEF hits, scores

(* What is looked at after fusion. *)
LEMMA LookedAt ==
    ASSUME NEW k, NEW c, Channel(c), NEW d, Channel(d), NEW fused \in BestFirst(Scores(k, <<c, d>>)),
           NEW S, Hits(<<c, d>>) \subseteq S
    PROVE  Ranked(k, <<c, d>>, S, Top(fused, MaxFused))
<1> DEFINE looked == Top(fused, MaxFused)
           hits == Hits(<<c, d>>)
           score(i) == Scores(k, <<c, d>>)[i]
           n == Len(looked)
           m == Len(fused)
<1>0. MaxFused \in Nat
  BY LimitsTyped
<1>1. /\ fused \in Seq(Nat) /\ ToSet(fused) = hits /\ m = Cardinality(hits)
      /\ \A a, b \in 1 .. m : a < b => score(fused[a]) >= score(fused[b])
  BY FusedIs
<1>2. /\ looked \in Seq(Nat) /\ n <= MaxFused /\ n <= m /\ (n < MaxFused => n = m)
      /\ \A a \in 1 .. n : looked[a] = fused[a]
  BY <1>0, <1>1, TopIs
<1> HIDE DEF looked, hits, score
<1>3. n \in Nat /\ m \in Nat /\ DOMAIN looked = 1 .. n /\ DOMAIN fused = 1 .. m
  BY <1>1, <1>2
<1> HIDE DEF n, m
<1>4. \A a \in 1 .. n : a \in 1 .. m /\ looked[a] = fused[a]
  BY <1>2, <1>3
<1>5. ToSet(looked) = {looked[a] : a \in 1 .. n} /\ ToSet(fused) = {fused[a] : a \in 1 .. m}
  BY <1>3 DEF ToSet
<1>6. ToSet(looked) \subseteq hits
  BY <1>1, <1>4, <1>5
<1>7. \A a, b \in 1 .. n : a < b => score(looked[a]) >= score(looked[b])
  BY <1>1, <1>4
<1>8. ASSUME NEW i \in hits \ ToSet(looked)
      PROVE  Cardinality(hits) > MaxFused /\ \A a \in 1 .. n : score(looked[a]) >= score(i)
  <2>1. PICK p \in 1 .. m : fused[p] = i
    BY <1>1, <1>5
  <2>2. p \notin 1 .. n
    BY <1>4, <1>5, <2>1
  <2>3. n < p /\ n = MaxFused /\ m > MaxFused
    BY <1>0, <1>2, <1>3, <2>2
  <2>4. \A a \in 1 .. n : a < p
    BY <1>3, <2>3
  <2> QED BY <1>1, <1>4, <2>1, <2>3, <2>4
<1>9. hits \cap S = hits
  BY DEF hits
<1> QED BY <1>2, <1>6, <1>7, <1>8, <1>9 DEF Ranked, looked, hits, score, n

LEMMA AnsweredByText ==
    ASSUME ImageInv, SearchInv, TextSemantic
    PROVE  SearchInv'
<1>1. /\ search.pc = "keyword" /\ search.q \in Queries /\ Channel(search.keyword)
      /\ ToSet(search.keyword) \subseteq {s.id : s \in Scoped(search.q)}
  BY DEF SearchInv, TextSemantic
<1>2a. PICK near \in SUBSET Scoped(search.q) : \E hits \in SetToSeqs(near) :
         \E fused \in BestFirst(Scores(59, <<search.keyword, Identified(hits)>>)) :
             search' = [pc |-> "answered", q |-> search.q, channels |-> <<search.keyword, Identified(hits)>>,
                        items |-> Top(Top(fused, MaxFused), MaxAnswers)]
  BY DEF TextSemantic
<1>2. PICK hits \in SetToSeqs(near) :
         \E fused \in BestFirst(Scores(59, <<search.keyword, Identified(hits)>>)) :
             search' = [pc |-> "answered", q |-> search.q, channels |-> <<search.keyword, Identified(hits)>>,
                        items |-> Top(Top(fused, MaxFused), MaxAnswers)]
  BY <1>2a
<1> DEFINE ch == <<search.keyword, Identified(hits)>>
<1>3. PICK fused \in BestFirst(Scores(59, ch)) :
         search' = [pc |-> "answered", q |-> search.q, channels |-> ch, items |-> Top(Top(fused, MaxFused), MaxAnswers)]
  BY <1>2
<1>4. screenshots' = screenshots
  BY DEF TextSemantic
<1>5. Scoped(search.q) \subseteq screenshots /\ {s.id : s \in Scoped(search.q)} \subseteq InScope
  BY DEF Scoped, InPeriod, InScope
<1>6. IsFiniteSet(near) /\ near \subseteq Scoped(search.q) /\ \A s \in near : s.id \in Nat
  <2>1. near \subseteq screenshots /\ screenshots \subseteq Shots
    BY <1>5 DEF ImageInv
  <2> QED BY <1>2, <2>1, FS_Subset, ShotsTyped DEF ImageInv
<1>7. Channel(Identified(hits)) /\ ToSet(Identified(hits)) \subseteq {s.id : s \in near}
  BY <1>6, ChannelIs
<1>8. Hits(ch) \subseteq InScope
  <2>1. {s.id : s \in near} \subseteq {s.id : s \in Scoped(search.q)}
    BY <1>6
  <2>2. Hits(ch) = ToSet(search.keyword) \cup ToSet(Identified(hits))
    BY DEF Hits
  <2> QED BY <1>1, <1>5, <1>7, <2>1, <2>2
<1>9. Ranked(59, ch, InScope, Top(fused, MaxFused))
  BY <1>1, <1>7, <1>8, LookedAt
<1>11. Best(Top(Top(fused, MaxFused), MaxAnswers), Hits(ch) \cap InScope, ch)
  BY <1>1, <1>7, <1>9, BestOfHits
<1> HIDE DEF ch
<1>12. InScope' = InScope
  BY <1>3, <1>4 DEF InScope
<1>13. AnswerSound'
  BY <1>3, <1>11, <1>12 DEF AnswerSound
<1> QED BY <1>3, <1>13 DEF SearchInv

LEMMA KeptOrder ==
    ASSUME NEW k, NEW c, Channel(c), NEW d, Channel(d), NEW fused \in BestFirst(Scores(k, <<c, d>>)), NEW S
    PROVE  Ranked(k, <<c, d>>, S, Keeping(Top(fused, MaxFused), S))
<1> DEFINE looked == Top(fused, MaxFused)
           kept == Keeping(looked, S)
           hits == Hits(<<c, d>>)
           scores == Scores(k, <<c, d>>)
<1>1. Ranked(k, <<c, d>>, hits, looked)
  BY LookedAt
<1>2. /\ looked \in Seq(Nat) /\ ToSet(looked) \subseteq hits
      /\ \A a, b \in 1 .. Len(looked) : a < b => scores[looked[a]] >= scores[looked[b]]
      /\ \A i \in hits \ ToSet(looked) :
            Cardinality(hits) > MaxFused /\ \A a \in 1 .. Len(looked) : scores[looked[a]] >= scores[i]
  <2> HIDE DEF looked
  <2> QED BY <1>1 DEF Ranked
<1> HIDE DEF looked
<1>3. kept \in Seq(Nat) /\ Kept(looked, S, Len(looked), kept)
  BY <1>2, KeepingIs
<1> HIDE DEF kept, scores, hits
<1>4. DOMAIN looked = 1 .. Len(looked) /\ DOMAIN kept = 1 .. Len(kept)
  BY <1>2, <1>3
<1>5. ToSet(kept) = {kept[a] : a \in 1 .. Len(kept)} /\ ToSet(looked) = {looked[i] : i \in 1 .. Len(looked)}
  BY <1>4 DEF ToSet
<1>6. \A a \in 1 .. Len(kept) : kept[a] \in S /\ \E i \in 1 .. Len(looked) : kept[a] = looked[i]
  BY <1>3 DEF Kept
<1>7. \A i \in 1 .. Len(looked) : looked[i] \in S => \E a \in 1 .. Len(kept) : kept[a] = looked[i]
  BY <1>3 DEF Kept
<1>8. ToSet(kept) = ToSet(looked) \cap S
  BY <1>5, <1>6, <1>7
<1>9. ASSUME NEW a \in 1 .. Len(kept), NEW b \in 1 .. Len(kept), a < b
      PROVE  scores[kept[a]] >= scores[kept[b]]
  <2>1. PICK i \in 1 .. Len(looked), j \in 1 .. Len(looked) : i < j /\ kept[a] = looked[i] /\ kept[b] = looked[j]
    BY <1>3, <1>9 DEF Kept
  <2> QED BY <1>2, <2>1
<1>10. ASSUME NEW i \in (hits \cap S) \ ToSet(kept)
       PROVE  Cardinality(hits) > MaxFused /\ \A a \in 1 .. Len(kept) : scores[kept[a]] >= scores[i]
  <2>1. i \in hits \ ToSet(looked)
    BY <1>8
  <2>2. Cardinality(hits) > MaxFused /\ \A a \in 1 .. Len(looked) : scores[looked[a]] >= scores[i]
    BY <1>2, <2>1
  <2> QED BY <1>6, <2>2
<1>11. ToSet(kept) \subseteq hits \cap S
  BY <1>2, <1>8
<1> QED BY <1>3, <1>9, <1>10, <1>11 DEF Ranked, kept, scores, hits, looked

LEMMA AnsweredByFusion ==
    ASSUME ImageInv, SearchInv, Fuse
    PROVE  SearchInv'
<1> DEFINE c == OnDevice(search.visual)
           d == OnDevice(search.semantic)
<1>1. search.pc = "semantic" /\ Channel(search.visual) /\ Channel(search.semantic)
  BY DEF SearchInv, Fuse
<1>2. PICK fused \in BestFirst(Scores(60, <<c, d>>)) :
         search' = [pc |-> "answered", q |-> search.q, channels |-> <<c, d>>, items |-> AnswerOf(fused)]
  BY DEF Fuse
<1>3. screenshots' = screenshots /\ screenshots \subseteq Shots
  BY DEF Fuse, ImageInv
<1>4. ASSUME NEW s, Channel(s)
      PROVE  Channel(OnDevice(s)) /\ ToSet(OnDevice(s)) \subseteq OfDevice
  <2>1. s \in Seq(Nat) /\ Len(s) <= Fetch
    BY <1>4 DEF Channel
  <2>2. OnDevice(s) \in Seq(Nat) /\ Kept(s, OfDevice, Len(s), OnDevice(s))
    BY <2>1, KeepingIs DEF OnDevice
  <2>3. Len(OnDevice(s)) <= Len(s) /\ \A k \in 1 .. Len(OnDevice(s)) : OnDevice(s)[k] \in OfDevice
    BY <2>2 DEF Kept
  <2>4. Len(s) \in Nat /\ Len(OnDevice(s)) \in Nat /\ Fetch \in Nat
    BY <2>1, <2>2, LimitsTyped
  <2>5. Len(OnDevice(s)) <= Fetch
    BY <2>1, <2>3, <2>4
  <2>6. ToSet(OnDevice(s)) \subseteq OfDevice
    BY <2>2, <2>3 DEF ToSet
  <2> QED BY <2>2, <2>5, <2>6 DEF Channel
<1>5. /\ Channel(c) /\ ToSet(c) \subseteq OfDevice
      /\ Channel(d) /\ ToSet(d) \subseteq OfDevice
  BY <1>1, <1>4
<1> HIDE DEF c, d
<1>6. Hits(<<c, d>>) = ToSet(c) \cup ToSet(d)
  BY DEF Hits
<1>7. OfDevice \cap OfApp = InScope
  <2>1. ASSUME NEW i \in OfDevice, i \in OfApp PROVE i \in InScope
    <3>1. PICK s \in screenshots : s.id = i /\ search.q.dev \in {AllDevices, s.dev}
      BY DEF OfDevice
    <3>2. PICK t \in screenshots : t.id = i /\ search.q.app \in {AllApps, t.app}
      BY <2>1 DEF OfApp
    <3>3. s = t
      BY <1>3, <3>1, <3>2, ImageSearchAssumption
    <3> QED BY <3>1, <3>2, <3>3 DEF InScope
  <2>2. InScope \subseteq OfDevice /\ InScope \subseteq OfApp
    BY DEF InScope, OfDevice, OfApp
  <2> QED BY <2>1, <2>2
<1>8. Hits(<<c, d>>) \cap OfApp = Hits(<<c, d>>) \cap InScope
  BY <1>5, <1>6, <1>7
<1> DEFINE kept == Keeping(Top(fused, MaxFused), OfApp)
<1>9. Ranked(60, <<c, d>>, OfApp, kept)
  BY <1>5, KeptOrder
<1>10. AnswerOf(fused) = Top(kept, MaxAnswers)
  BY DEF AnswerOf
<1> HIDE DEF kept
<1>11. Best(Top(kept, MaxAnswers), Hits(<<c, d>>) \cap OfApp, <<c, d>>)
  BY <1>5, <1>9, BestOfHits
<1>12. Best(Top(kept, MaxAnswers), Hits(<<c, d>>) \cap InScope, <<c, d>>)
  BY <1>8, <1>11
<1>13. InScope' = InScope
  BY <1>2, <1>3 DEF InScope
<1>14. AnswerSound'
  BY <1>2, <1>10, <1>12, <1>13 DEF AnswerSound
<1> QED BY <1>2, <1>14 DEF SearchInv

LEMMA SearchStep == ImageInv /\ SearchInv /\ [ImageNext]_imageVars => SearchInv'
<1> SUFFICES ASSUME ImageInv, SearchInv, [ImageNext]_imageVars PROVE SearchInv'
  OBVIOUS
<1>0. IsFiniteSet(screenshots) /\ screenshots \subseteq Shots /\ \A s \in screenshots : s.id \in Nat
  BY ShotsTyped DEF ImageInv
<1>1. ASSUME NEW h \in Handlers, NEW s \in Shots, StoreShot(h, s) PROVE SearchInv'
  <2>1. search.pc # "answered" /\ search' = search /\ screenshots' = screenshots \cup {s}
    BY <1>1 DEF StoreShot
  <2>2. {t.id : t \in Scoped(search.q)} \subseteq {t.id : t \in Scoped(search.q)}'
    BY <2>1 DEF Scoped, InPeriod
  <2> QED BY <2>1, <2>2 DEF SearchInv, AnswerSound, Channel
<1>2. CASE UNCHANGED <<screenshots, search>>
  BY <1>2 DEF SearchInv, AnswerSound, InScope, Scoped, InPeriod
<1>3. ASSUME NEW h \in Handlers, IndexShot(h) PROVE SearchInv'
  BY <1>2, <1>3 DEF IndexShot
<1>4. CASE RestartServer
  BY <1>4 DEF RestartServer, NoSearch, SearchInv, AnswerSound
<1>5. ASSUME NEW q \in Queries, Visual(q) PROVE SearchInv'
  <2>0. PICK found \in {{}, Found(q)} : \E hits \in BestFirst([s \in found |-> -Hamming(q.hash, s.hash)]) :
           search' = [pc |-> "visual", q |-> q, visual |-> Identified(hits)]
    BY <1>5 DEF Visual
  <2>1. PICK hits \in BestFirst([s \in found |-> -Hamming(q.hash, s.hash)]) :
           search' = [pc |-> "visual", q |-> q, visual |-> Identified(hits)]
    BY <2>0
  <2>2. hits \in SetToSeqs(found)
    BY DEF BestFirst
  <2>3. Channel(Identified(hits))
    BY <2>0, <2>2, FoundIs, ChannelIs, FS_EmptySet
  <2> QED BY <2>1, <2>3 DEF SearchInv, AnswerSound
<1>6. ASSUME NEW near \in SUBSET screenshots, NEW hits \in SetToSeqs(near), search.pc = "visual", Second(hits)
      PROVE  SearchInv'
  <2>1. search' = [pc |-> "semantic", q |-> search.q, visual |-> search.visual, semantic |-> Identified(hits)]
    BY <1>6 DEF Second
  <2>2. IsFiniteSet(near) /\ \A s \in near : s.id \in Nat
    BY <1>0, FS_Subset
  <2>3. Channel(Identified(hits))
    BY <2>2, ChannelIs
  <2>4. Channel(search.visual)
    BY <1>6 DEF SearchInv
  <2> QED BY <2>1, <2>3, <2>4 DEF SearchInv, AnswerSound
<1>7. CASE search.pc = "visual" /\ Semantic
  <2>0. PICK near \in SUBSET InPeriod(search.q) : \E hits \in SetToSeqs(near) : Second(hits)
    BY <1>7 DEF Semantic
  <2>1. PICK hits \in SetToSeqs(near) : Second(hits)
    BY <2>0
  <2>2. near \in SUBSET screenshots
    BY DEF InPeriod
  <2> QED BY <1>6, <1>7, <2>1, <2>2
<1>8. CASE search.pc = "visual" /\ Keyword
  <2>0. PICK matches \in SUBSET InPeriod(search.q) :
           \E hits \in BestFirst([s \in matches |-> s.ts]) : Second(hits)
    BY <1>8 DEF Keyword
  <2>1. PICK hits \in BestFirst([s \in matches |-> s.ts]) : Second(hits)
    BY <2>0
  <2>2. matches \in SUBSET screenshots /\ hits \in SetToSeqs(matches)
    BY DEF InPeriod, BestFirst
  <2> QED BY <1>6, <1>8, <2>1, <2>2
<1>9. ASSUME NEW q \in Queries, TextKeyword(q) PROVE SearchInv'
  <2>0. PICK matches \in SUBSET Scoped(q) : \E hits \in SetToSeqs(matches) :
           search' = [pc |-> "keyword", q |-> q, keyword |-> Identified(hits)]
    BY <1>9 DEF TextKeyword
  <2>1. PICK hits \in SetToSeqs(matches) :
           search' = [pc |-> "keyword", q |-> q, keyword |-> Identified(hits)]
    BY <2>0
  <2>2. IsFiniteSet(matches) /\ \A s \in matches : s.id \in Nat
    <3>1. matches \in SUBSET screenshots
      BY DEF Scoped, InPeriod
    <3> QED BY <1>0, <3>1, FS_Subset
  <2>3. Channel(Identified(hits)) /\ ToSet(Identified(hits)) \subseteq {s.id : s \in matches}
    BY <2>2, ChannelIs
  <2>4. {s.id : s \in matches} \subseteq {s.id : s \in Scoped(q)} /\ screenshots' = screenshots
    BY <1>9 DEF TextKeyword
  <2>5. {s.id : s \in Scoped(q)} \subseteq {s.id : s \in Scoped(search.q)}'
    BY <2>1, <2>4 DEF Scoped, InPeriod
  <2> QED BY <2>1, <2>3, <2>4, <2>5 DEF SearchInv, AnswerSound, Channel
<1>10. CASE Fuse
  BY <1>10, AnsweredByFusion
<1>11. CASE TextSemantic
  BY <1>11, AnsweredByText
<1>12. CASE UNCHANGED imageVars
  BY <1>2, <1>12 DEF imageVars
<1> QED BY <1>1, <1>3, <1>4, <1>5, <1>7, <1>8, <1>9, <1>10, <1>11, <1>12 DEF ImageNext

(* The table holds screenshots that were sent, the index has one tree for  *)
(* each day, and a handler is at work on one screenshot: whatever ingest,  *)
(* restarts and searches do.                                               *)
THEOREM ImageTypeCorrect == ImageSpec => []ImageTypeOK
<1>1. ImageInv => ImageTypeOK
  <2> SUFFICES ASSUME ImageInv PROVE ImageTypeOK
    OBVIOUS
  <2>1. DOMAIN index = Days
    BY DEF ImageInv, Holds
  <2>2. \A h \in Handlers : upload[h] # NoUpload => upload[h].shot \in Shots
    BY UploadsTyped DEF ImageInv
  <2> QED BY <2>1, <2>2 DEF ImageInv, ImageTypeOK
<1> QED BY <1>1, ImageInvariant, PTL

(* BKTree.range_search, pruning by the triangle inequality, finds exactly  *)
(* the stored screenshots within the radius and each of them once, however *)
(* PHashIndex.insert, replayed uploads and from_db have built the tree; but*)
(* for those whose handler is between the insertion in the database and    *)
(* the one in the index.                                                   *)
THEOREM IndexIsExact == ImageSpec => []IndexExact
BY ImageInvariant, IndexFollows, PTL

(* What search_by_image and retrieve_records return is in the scope asked  *)
(* for, in an order that no pair of channels contradicts, and leaves a hit *)
(* out only when the answer is full or hits were cut off after fusion;     *)
(* then every hit in the answer is as high in some channel.                *)
THEOREM AnswersAreSound == ImageSpec => []AnswerSound
<1>1. ImageInit => SearchInv
  BY DEF ImageInit, NoSearch, SearchInv, AnswerSound
<1>2. SearchInv => AnswerSound
  BY DEF SearchInv
<1> QED BY <1>1, <1>2, SearchStep, ImageInvariant, PTL DEF ImageSpec

(* Together: search over the index and fusion of what it finds are sound.  *)
THEOREM SearchIsSound == ImageSpec => []SearchSound
BY IndexIsExact, AnswersAreSound, PTL DEF SearchSound

(***************************************************************************)
(* Overview                                                                *)
(***************************************************************************)
LEMMA BisectIs ==
    ASSUME NEW seq \in Seq(Nat), \A i, j \in 1 .. Len(seq) : i < j => seq[i] <= seq[j], NEW x \in Nat
    PROVE  /\ Bisect(seq, x) \in 0 .. Len(seq)
           /\ \A k \in 1 .. Len(seq) : seq[k] < x <=> k <= Bisect(seq, x)
<1> DEFINE L == Len(seq)
           T == {k \in 1 .. L + 1 : k = L + 1 \/ ~(seq[k] < x)}
           m == Min(T)
<1>1. L \in Nat /\ DOMAIN seq = 1 .. L /\ \A k \in 1 .. L : seq[k] \in Nat
  OBVIOUS
<1>2. \A i, j \in 1 .. L : i < j => seq[i] <= seq[j]
  OBVIOUS
<1> HIDE DEF L
<1>3. T \subseteq Nat /\ L + 1 \in T
  BY <1>1
<1>4. m \in T /\ \A k \in T : m <= k
  <2> HIDE DEF T
  <2> QED BY <1>3, LeastOf
<1> HIDE DEF m
<1>5. m \in 1 .. L + 1
  BY <1>4
<1>6. ASSUME NEW k \in 1 .. L PROVE seq[k] < x <=> k <= m - 1
  <2>1. CASE k <= m - 1
    <3>1. ~(m <= k)
      BY <1>5, <2>1
    <3>2. k \notin T
      BY <1>4, <3>1
    <3>3. k \in 1 .. L + 1 /\ k # L + 1
      BY <1>1
    <3> QED BY <2>1, <3>2, <3>3
  <2>2. CASE ~(k <= m - 1)
    <3>1. m \in 1 .. L /\ m <= k
      BY <1>1, <1>5, <2>2
    <3>2. ~(seq[m] < x)
      BY <1>1, <1>4, <3>1
    <3>3. m = k \/ seq[m] <= seq[k]
      BY <1>2, <3>1
    <3>4. seq[m] \in Nat /\ seq[k] \in Nat
      BY <1>1, <3>1
    <3> QED BY <2>2, <3>2, <3>3, <3>4
  <2> QED BY <2>1, <2>2
<1>7. {i \in DOMAIN seq : seq[i] < x} = 1 .. m - 1
  BY <1>1, <1>5, <1>6
<1>8. Cardinality(1 .. m - 1) = m - 1
  BY <1>5, FS_Interval
<1>9. Bisect(seq, x) = m - 1
  BY <1>7, <1>8 DEF Bisect
<1> QED BY <1>1, <1>5, <1>6, <1>9 DEF L

(* A stretch of time, and a row that was read.                             *)
Stretch == {r \in [s : Nat, e : Nat] : r.s < r.e}
ReadRow == {r \in [s : Nat, e : Nat, ready : BOOLEAN] : r.s < r.e}

(* One after the other.                                                    *)
Apart(seq) == \A i, j \in 1 .. Len(seq) : i < j => seq[i].e <= seq[j].s

LEMMA RowTyped == \A r \in ReadRow : r.s \in Nat /\ r.e \in Nat /\ r.s < r.e /\ r.ready \in BOOLEAN
BY DEF ReadRow

LEMMA StretchTyped == \A r \in Stretch : r.s \in Nat /\ r.e \in Nat /\ r.s < r.e
BY DEF Stretch

LEMMA StartsAre ==
    ASSUME NEW T, \A t \in T : t.s \in Nat /\ t.e \in Nat /\ t.s < t.e, NEW seq \in Seq(T), Apart(seq)
    PROVE  /\ Starts(seq) \in Seq(Nat) /\ Len(Starts(seq)) = Len(seq)
           /\ Finishes(seq) \in Seq(Nat) /\ Len(Finishes(seq)) = Len(seq)
           /\ \A k \in 1 .. Len(seq) : Starts(seq)[k] = seq[k].s /\ Finishes(seq)[k] = seq[k].e
           /\ \A i, j \in 1 .. Len(seq) :
                 i < j => Starts(seq)[i] <= Starts(seq)[j] /\ Finishes(seq)[i] <= Finishes(seq)[j]
<1> DEFINE L == Len(seq)
<1>1. L \in Nat /\ DOMAIN seq = 1 .. L /\ \A k \in 1 .. L : seq[k] \in T
  OBVIOUS
<1>2. Apart(seq) <=> \A i, j \in 1 .. L : i < j => seq[i].e <= seq[j].s
  BY DEF Apart
<1> HIDE DEF L
<1>3. \A k \in 1 .. L : seq[k].s \in Nat /\ seq[k].e \in Nat /\ seq[k].s < seq[k].e
  BY <1>1
<1>4. Starts(seq) = [k \in 1 .. L |-> seq[k].s] /\ Finishes(seq) = [k \in 1 .. L |-> seq[k].e]
  BY <1>1 DEF Starts, Finishes
<1>5. Starts(seq) \in Seq(Nat) /\ Len(Starts(seq)) = L
  BY <1>1, <1>3, <1>4
<1>6. Finishes(seq) \in Seq(Nat) /\ Len(Finishes(seq)) = L
  BY <1>1, <1>3, <1>4
<1>7. \A k \in 1 .. L : Starts(seq)[k] = seq[k].s /\ Finishes(seq)[k] = seq[k].e
  BY <1>4
<1>8. \A i, j \in 1 .. L : i < j => seq[i].s <= seq[j].s /\ seq[i].e <= seq[j].e
  <2> SUFFICES ASSUME NEW i \in 1 .. L, NEW j \in 1 .. L, i < j
               PROVE  seq[i].s <= seq[j].s /\ seq[i].e <= seq[j].e
    OBVIOUS
  <2>1. seq[i].e <= seq[j].s
    BY <1>2
  <2>2. /\ seq[i].s \in Nat /\ seq[i].e \in Nat /\ seq[i].s < seq[i].e
        /\ seq[j].s \in Nat /\ seq[j].e \in Nat /\ seq[j].s < seq[j].e
    BY <1>3
  <2> QED BY <2>1, <2>2
<1> QED BY <1>5, <1>6, <1>7, <1>8 DEF L

(* x has taken the place after b.                                          *)
PutAfter(T, seq, b, x, out) ==
    /\ out \in Seq(T) /\ Len(out) = Len(seq) + 1
    /\ \A k \in 1 .. b : out[k] = seq[k]
    /\ out[b + 1] = x
    /\ \A k \in b + 2 .. Len(seq) + 1 : out[k] = seq[k - 1]

LEMMA InsertAtIs ==
    ASSUME NEW T, NEW seq \in Seq(T), NEW b \in 0 .. Len(seq), NEW x \in T
    PROVE  PutAfter(T, seq, b, x, InsertAt(seq, b + 1, x))
<1> DEFINE L == Len(seq)
           f == SubSeq(seq, 1, b)
           g == SubSeq(seq, b + 1, L)
           out == (f \o <<x>>) \o g
<1>1. L \in Nat /\ b \in Nat /\ b <= L /\ \A k \in 1 .. L : seq[k] \in T
  OBVIOUS
<1>2. InsertAt(seq, b + 1, x) = out
  <2>1. (b + 1) - 1 = b
    BY <1>1
  <2> QED BY <2>1 DEF InsertAt
<1> HIDE DEF L
<1>3. f \in Seq(T) /\ Len(f) = b /\ \A k \in 1 .. b : f[k] = seq[k]
  BY <1>1, SubSeqProperties DEF L
<1>4. g \in Seq(T) /\ Len(g) = L - b /\ \A k \in 1 .. L - b : g[k] = seq[b + k]
  <2>1. \A k \in b + 1 .. L : seq[k] \in T
    BY <1>1
  <2>2. g \in Seq(T) /\ Len(g) = (IF b + 1 <= L THEN L - (b + 1) + 1 ELSE 0)
    BY <1>1, <2>1, SubSeqProperties DEF L
  <2>3. \A k \in 1 .. L - (b + 1) + 1 : g[k] = seq[(b + 1) + k - 1]
    BY <1>1, <2>1, SubSeqProperties DEF L
  <2> HIDE DEF g
  <2>4. L - (b + 1) + 1 = L - b /\ (~(b + 1 <= L) => L - b = 0)
    BY <1>1
  <2>5. Len(g) = L - b
    BY <2>2, <2>4
  <2>6. ASSUME NEW k \in 1 .. L - b PROVE g[k] = seq[b + k]
    <3>1. (b + 1) + k - 1 = b + k
      BY <1>1
    <3> QED BY <2>3, <2>4, <3>1
  <2> QED BY <2>2, <2>5, <2>6
<1> DEFINE h == f \o <<x>>
<1> HIDE DEF f, g
<1>5. h \in Seq(T) /\ Len(h) = b + 1 /\ h[b + 1] = x /\ \A k \in 1 .. b : h[k] = f[k]
  <2>1. <<x>> \in Seq(T) /\ Len(<<x>>) = 1 /\ <<x>>[1] = x
    OBVIOUS
  <2>2. /\ h \in Seq(T) /\ Len(h) = b + 1
        /\ \A k \in 1 .. b + 1 : h[k] = IF k <= b THEN f[k] ELSE <<x>>[k - b]
    BY <1>3, <2>1, ConcatProperties
  <2> HIDE DEF h
  <2>3. b + 1 \in 1 .. b + 1 /\ ~(b + 1 <= b) /\ (b + 1) - b = 1
    BY <1>1
  <2>4. \A k \in 1 .. b : k \in 1 .. b + 1 /\ k <= b
    BY <1>1
  <2> QED BY <2>1, <2>2, <2>3, <2>4
<1> HIDE DEF h
<1>6. /\ out \in Seq(T) /\ Len(out) = (b + 1) + (L - b)
      /\ \A k \in 1 .. (b + 1) + (L - b) : out[k] = IF k <= b + 1 THEN h[k] ELSE g[k - (b + 1)]
  <2>1. out = h \o g
    BY DEF h
  <2> HIDE DEF out
  <2>2. /\ out \in Seq(T) /\ Len(out) = Len(h) + Len(g)
        /\ \A k \in 1 .. Len(h) + Len(g) : out[k] = IF k <= Len(h) THEN h[k] ELSE g[k - Len(h)]
    BY <1>4, <1>5, <2>1, ConcatProperties
  <2> QED BY <1>4, <1>5, <2>2
<1> HIDE DEF out
<1>7. out \in Seq(T) /\ Len(out) = L + 1 /\ (b + 1) + (L - b) = L + 1
  BY <1>1, <1>6
<1>8. ASSUME NEW k \in 1 .. b PROVE out[k] = seq[k]
  <2>1. k \in 1 .. L + 1 /\ k <= b + 1
    BY <1>1
  <2> QED BY <1>3, <1>5, <1>6, <1>7, <2>1
<1>9. out[b + 1] = x
  <2>1. b + 1 \in 1 .. L + 1
    BY <1>1
  <2> QED BY <1>5, <1>6, <1>7, <2>1
<1>10. ASSUME NEW k \in b + 2 .. L + 1 PROVE out[k] = seq[k - 1]
  <2>1. k \in 1 .. L + 1 /\ ~(k <= b + 1) /\ k - (b + 1) \in 1 .. L - b
    BY <1>1
  <2>2. out[k] = g[k - (b + 1)]
    BY <1>6, <1>7, <2>1
  <2>3. b + (k - (b + 1)) = k - 1
    BY <1>1
  <2> QED BY <1>4, <2>1, <2>2, <2>3
<1> QED BY <1>2, <1>7, <1>8, <1>9, <1>10 DEF L, PutAfter

LEMMA ClearIs ==
    ASSUME NEW seq \in Seq(ReadRow), Apart(seq), NEW row \in ReadRow
    PROVE  /\ Clear(seq, row) => /\ Inserted(seq, row) \in Seq(ReadRow) /\ Apart(Inserted(seq, row))
                                 /\ ToSet(Inserted(seq, row)) = ToSet(seq) \cup {row}
           /\ ~Clear(seq, row) => \E w \in ToSet(seq) : Overlap(row, w)
<1> DEFINE L == Len(seq)
           b == Bisect(Starts(seq), row.s)
           more == Inserted(seq, row)
<1>0. row.s \in Nat /\ row.e \in Nat /\ row.s < row.e
  BY RowTyped
<1>1. L \in Nat /\ DOMAIN seq = 1 .. L /\ \A k \in 1 .. L : seq[k] \in ReadRow
  OBVIOUS
<1>2. /\ Starts(seq) \in Seq(Nat) /\ Len(Starts(seq)) = L
      /\ \A k \in 1 .. L : Starts(seq)[k] = seq[k].s
      /\ \A i, j \in 1 .. L : i < j => Starts(seq)[i] <= Starts(seq)[j]
  BY RowTyped, StartsAre
<1>3. b \in 0 .. L /\ \A k \in 1 .. L : Starts(seq)[k] < row.s <=> k <= b
  BY <1>0, <1>2, BisectIs
<1>4. Clear(seq, row) <=> (b > 0 => seq[b].e <= row.s) /\ (b < L => seq[b + 1].s >= row.e)
  BY DEF Clear
<1>5. /\ more \in Seq(ReadRow) /\ Len(more) = L + 1
      /\ \A k \in 1 .. b : more[k] = seq[k]
      /\ more[b + 1] = row
      /\ \A k \in b + 2 .. L + 1 : more[k] = seq[k - 1]
  <2>1. more = InsertAt(seq, b + 1, row)
    BY DEF Inserted
  <2>2. b \in 0 .. Len(seq)
    BY <1>3
  <2> HIDE DEF b, more
  <2>3. PutAfter(ReadRow, seq, b, row, InsertAt(seq, b + 1, row))
    BY <2>2, InsertAtIs
  <2> HIDE DEF L
  <2> QED BY <2>1, <2>3 DEF L, PutAfter
<1>6. \A i, j \in 1 .. L : i < j => seq[i].e <= seq[j].s
  BY DEF Apart
<1> HIDE DEF L, b, more
<1>7. b \in Nat /\ b <= L /\ \A k \in 1 .. L : seq[k].s < row.s <=> k <= b
  BY <1>1, <1>2, <1>3
<1>8. \A k \in 1 .. L : seq[k].s \in Nat /\ seq[k].e \in Nat /\ seq[k].s < seq[k].e
  BY <1>1, RowTyped
<1>9. ASSUME ~Clear(seq, row) PROVE \E w \in ToSet(seq) : Overlap(row, w)
  <2>0. \A k \in 1 .. L : seq[k] \in ToSet(seq)
    BY <1>1 DEF ToSet
  <2>1. CASE b > 0 /\ ~(seq[b].e <= row.s)
    <3>1. b \in 1 .. L
      BY <1>1, <1>7, <2>1
    <3>2. seq[b].s < row.s
      BY <1>7, <3>1
    <3>3. seq[b].s \in Nat /\ seq[b].e \in Nat
      BY <1>8, <3>1
    <3>4. row.s < seq[b].e /\ seq[b].s < row.e
      BY <1>0, <2>1, <3>2, <3>3
    <3> QED BY <2>0, <3>1, <3>4 DEF Overlap
  <2>2. CASE b < L /\ ~(seq[b + 1].s >= row.e)
    <3>1. b + 1 \in 1 .. L /\ ~(b + 1 <= b)
      BY <1>1, <1>7, <2>2
    <3>2. ~(seq[b + 1].s < row.s)
      BY <1>7, <3>1
    <3>3. seq[b + 1].s \in Nat /\ seq[b + 1].e \in Nat /\ seq[b + 1].s < seq[b + 1].e
      BY <1>8, <3>1
    <3>4. row.s < seq[b + 1].e /\ seq[b + 1].s < row.e
      BY <1>0, <2>2, <3>2, <3>3
    <3> QED BY <2>0, <3>1, <3>4 DEF Overlap
  <2> QED BY <1>4, <1>9, <2>1, <2>2
<1>10. ASSUME Clear(seq, row) PROVE Apart(more)
  <2>1. \A k \in 1 .. b : seq[k].e <= row.s
    <3> SUFFICES ASSUME NEW k \in 1 .. b PROVE seq[k].e <= row.s
      OBVIOUS
    <3>1. k \in 1 .. L /\ b \in 1 .. L /\ b > 0 /\ (k = b \/ k < b)
      BY <1>1, <1>7
    <3>2. seq[b].e <= row.s
      BY <1>4, <1>10, <3>1
    <3>3. k = b \/ seq[k].e <= seq[b].s
      BY <1>6, <3>1
    <3>4. seq[k].e \in Nat /\ seq[b].s \in Nat /\ seq[b].e \in Nat /\ seq[b].s < seq[b].e
      BY <1>8, <3>1
    <3> QED BY <1>0, <3>2, <3>3, <3>4
  <2>2. \A k \in b + 1 .. L : row.e <= seq[k].s
    <3> SUFFICES ASSUME NEW k \in b + 1 .. L PROVE row.e <= seq[k].s
      OBVIOUS
    <3>1. k \in 1 .. L /\ b + 1 \in 1 .. L /\ b < L /\ (k = b + 1 \/ b + 1 < k)
      BY <1>1, <1>7
    <3>2. seq[b + 1].s >= row.e
      BY <1>4, <1>10, <3>1
    <3>3. k = b + 1 \/ seq[b + 1].e <= seq[k].s
      BY <1>6, <3>1
    <3>4. /\ seq[k].s \in Nat
          /\ seq[b + 1].s \in Nat /\ seq[b + 1].e \in Nat /\ seq[b + 1].s < seq[b + 1].e
      BY <1>8, <3>1
    <3> QED BY <1>0, <3>2, <3>3, <3>4
  <2> SUFFICES ASSUME NEW i \in 1 .. L + 1, NEW j \in 1 .. L + 1, i < j PROVE more[i].e <= more[j].s
    BY <1>1, <1>5 DEF Apart
  <2>3. \/ i \in 1 .. b /\ j \in 1 .. b
        \/ i \in 1 .. b /\ j = b + 1
        \/ i \in 1 .. b /\ j \in b + 2 .. L + 1
        \/ i = b + 1 /\ j \in b + 2 .. L + 1
        \/ i \in b + 2 .. L + 1 /\ j \in b + 2 .. L + 1
    BY <1>1, <1>7
  <2>4. CASE i \in 1 .. b /\ j \in 1 .. b
    <3>1. i \in 1 .. L /\ j \in 1 .. L
      BY <1>1, <1>7, <2>4
    <3> QED BY <1>5, <1>6, <2>4, <3>1
  <2>5. CASE i \in 1 .. b /\ j = b + 1
    BY <1>5, <2>1, <2>5
  <2>6. CASE i \in 1 .. b /\ j \in b + 2 .. L + 1
    <3>1. i \in 1 .. L /\ j - 1 \in 1 .. L /\ i < j - 1
      BY <1>1, <1>7, <2>6
    <3>2. more[i] = seq[i] /\ more[j] = seq[j - 1]
      BY <1>5, <2>6
    <3> QED BY <1>6, <3>1, <3>2
  <2>7. CASE i = b + 1 /\ j \in b + 2 .. L + 1
    <3>1. j - 1 \in b + 1 .. L
      BY <1>1, <1>7, <2>7
    <3>2. more[i] = row /\ more[j] = seq[j - 1]
      BY <1>5, <2>7
    <3> QED BY <2>2, <3>1, <3>2
  <2>8. CASE i \in b + 2 .. L + 1 /\ j \in b + 2 .. L + 1
    <3>1. i - 1 \in 1 .. L /\ j - 1 \in 1 .. L /\ i - 1 < j - 1
      BY <1>1, <1>7, <2>8
    <3>2. more[i] = seq[i - 1] /\ more[j] = seq[j - 1]
      BY <1>5, <2>8
    <3> QED BY <1>6, <3>1, <3>2
  <2> QED BY <2>3, <2>4, <2>5, <2>6, <2>7, <2>8
<1>11. ToSet(more) = ToSet(seq) \cup {row}
  <2>1. DOMAIN more = 1 .. L + 1
    BY <1>1, <1>5
  <2>2. ASSUME NEW k \in 1 .. L + 1 PROVE more[k] \in ToSet(seq) \cup {row}
    <3>1. \A n \in 1 .. L : seq[n] \in ToSet(seq)
      BY <1>1 DEF ToSet
    <3>2. \/ k \in 1 .. b /\ k \in 1 .. L
          \/ k = b + 1
          \/ k \in b + 2 .. L + 1 /\ k - 1 \in 1 .. L
      BY <1>1, <1>7
    <3> QED BY <1>5, <3>1, <3>2
  <2>3. ASSUME NEW n \in 1 .. L PROVE \E k \in 1 .. L + 1 : more[k] = seq[n]
    <3>1. CASE n <= b
      <4>1. n \in 1 .. b /\ n \in 1 .. L + 1
        BY <1>1, <1>7, <3>1
      <4> QED BY <1>5, <4>1
    <3>2. CASE ~(n <= b)
      <4>1. n + 1 \in b + 2 .. L + 1 /\ n + 1 \in 1 .. L + 1 /\ (n + 1) - 1 = n
        BY <1>1, <1>7, <3>2
      <4> QED BY <1>5, <4>1
    <3> QED BY <3>1, <3>2
  <2>4. b + 1 \in 1 .. L + 1
    BY <1>1, <1>7
  <2>5. ToSet(more) = {more[k] : k \in 1 .. L + 1} /\ ToSet(seq) = {seq[n] : n \in 1 .. L}
    BY <1>1, <2>1 DEF ToSet
  <2>6. ToSet(more) \subseteq ToSet(seq) \cup {row}
    BY <2>2, <2>5
  <2>7. row \in ToSet(more)
    BY <1>5, <2>4, <2>5
  <2>8. ToSet(seq) \subseteq ToSet(more)
    BY <2>3, <2>5
  <2> QED BY <2>6, <2>7, <2>8
<1> QED BY <1>5, <1>9, <1>10, <1>11 DEF more

(* A request as AskOverview lets it in, with what it has read.             *)
Requested(q) ==
    /\ q.start \in Nat /\ q.end \in Nat /\ q.start < q.end /\ q.now \in Nat
    /\ q.read \in Seq(ReadRow) /\ q.times \subseteq Nat /\ IsFiniteSet(q.times)

(* The rows in hand after n of those read.                                 *)
Picked(q, n, seq) ==
    /\ Apart(seq) /\ \A w \in ToSet(seq) : Usable(q, w)
    /\ \A m \in 1 .. n : Usable(q, q.read[m]) => \E w \in ToSet(seq) : Overlap(q.read[m], w)

LEMMA PickedGrows ==
    ASSUME NEW q, Requested(q), NEW n \in Nat, n + 1 <= Len(q.read), NEW seq \in Seq(ReadRow), Picked(q, n, seq)
    PROVE  LET row == q.read[n + 1]
               more == IF Usable(q, row) /\ Clear(seq, row) THEN Inserted(seq, row) ELSE seq
           IN  more \in Seq(ReadRow) /\ Picked(q, n + 1, more)
<1> DEFINE row == q.read[n + 1]
           more == IF Usable(q, row) /\ Clear(seq, row) THEN Inserted(seq, row) ELSE seq
<1>1. row \in ReadRow
  BY DEF Requested
<1>2. Apart(seq)
  BY DEF Picked
<1>3. \A m \in 1 .. n + 1 : m \in 1 .. n \/ m = n + 1
  OBVIOUS
<1> HIDE DEF row
<1>4. row.s < row.e /\ row.s \in Nat /\ row.e \in Nat
  BY <1>1, RowTyped
<1>5. Overlap(row, row)
  BY <1>4 DEF Overlap
<1>6. CASE Usable(q, row) /\ Clear(seq, row)
  <2>1. more \in Seq(ReadRow) /\ Apart(more) /\ ToSet(more) = ToSet(seq) \cup {row}
    BY <1>1, <1>2, <1>6, ClearIs
  <2> HIDE DEF more
  <2>2. \A w \in ToSet(more) : Usable(q, w)
    BY <1>6, <2>1 DEF Picked
  <2>3. ASSUME NEW m \in 1 .. n + 1, Usable(q, q.read[m]) PROVE \E w \in ToSet(more) : Overlap(q.read[m], w)
    BY <1>3, <1>5, <2>1, <2>3 DEF Picked, row
  <2> QED BY <2>1, <2>2, <2>3 DEF Picked, row, more
<1>7. CASE ~(Usable(q, row) /\ Clear(seq, row))
  <2>1. more = seq
    BY <1>7
  <2>2. Usable(q, row) => \E w \in ToSet(seq) : Overlap(row, w)
    BY <1>1, <1>2, <1>7, ClearIs
  <2> HIDE DEF more
  <2>3. ASSUME NEW m \in 1 .. n + 1, Usable(q, q.read[m]) PROVE \E w \in ToSet(seq) : Overlap(q.read[m], w)
    BY <1>3, <2>2, <2>3 DEF Picked, row
  <2>4. Picked(q, n + 1, seq)
    BY <1>2, <2>3 DEF Picked
  <2> QED BY <2>1, <2>4 DEF row, more
<1> QED BY <1>6, <1>7

LEMMA AvailableIs ==
    ASSUME NEW q, Requested(q)
    PROVE  Available(q) \in Seq(ReadRow) /\ Picked(q, Len(q.read), Available(q))
<1> DEFINE L == Len(q.read)
           V == Seq(ReadRow)
           Next1(n, v) == IF Usable(q, q.read[n]) /\ Clear(v, q.read[n]) THEN Inserted(v, q.read[n]) ELSE v
           good == {v \in V : Apart(v)}
           step == [n \in 1 .. L |-> [v \in good |-> Next1(n, v)]]
           Is(f) == f = [n \in 0 .. L |-> IF n = 0 THEN <<>> ELSE Next1(n, f[n - 1])]
           selected == CHOOSE f : Is(f)
<1>1. L \in Nat /\ \A n \in 1 .. L : q.read[n] \in ReadRow
  BY DEF Requested
<1>2. Available(q) = selected[L]
  BY DEF Available
<1> HIDE DEF L
<1>3. ASSUME NEW n \in 1 .. L, NEW v \in good PROVE step[n][v] = Next1(n, v) /\ step[n][v] \in good
  <2>1. step[n][v] = Next1(n, v)
    OBVIOUS
  <2>2. Next1(n, v) \in good
    BY <1>1, ClearIs
  <2> QED BY <2>1, <2>2
<1>4. step \in [1 .. L -> [good -> good]] /\ <<>> \in good
  <2>1. \A n \in 1 .. L : step[n] \in [good -> good]
    <3> SUFFICES ASSUME NEW n \in 1 .. L PROVE step[n] \in [good -> good]
      OBVIOUS
    <3>1. step[n] = [v \in good |-> Next1(n, v)]
      OBVIOUS
    <3>2. \A v \in good : Next1(n, v) \in good
      BY <1>3
    <3> HIDE DEF good, Next1, step
    <3> QED BY <3>1, <3>2
  <2>2. <<>> \in good
    BY DEF Apart
  <2> HIDE DEF good, Next1
  <2> QED BY <2>1, <2>2
<1>5. PICK f : Loop(L, good, <<>>, step, f)
  <2> HIDE DEF good, step
  <2> QED BY <1>1, <1>4, LoopExists
<1> HIDE DEF good, step
<1>6. Is(f)
  <2>0. DOMAIN f = 0 .. L /\ f = [n \in 0 .. L |-> f[n]]
    BY <1>5 DEF Loop
  <2> HIDE DEF Next1
  <2> SUFFICES ASSUME NEW n \in 0 .. L PROVE f[n] = IF n = 0 THEN <<>> ELSE Next1(n, f[n - 1])
    BY <2>0
  <2>1. n = 0 \/ n \in 1 .. L
    BY <1>1
  <2>2. n # 0 => n - 1 \in 0 .. L /\ f[n - 1] \in good
    BY <1>1, <1>5 DEF Loop
  <2> QED BY <1>3, <1>5, <2>1, <2>2 DEF Loop
<1>7. Is(selected)
  <2> HIDE DEF Is
  <2> QED BY <1>6
<1> HIDE DEF selected
<1>8. selected[0] = <<>> /\ \A n \in 1 .. L : selected[n] = Next1(n, selected[n - 1])
  <2> HIDE DEF Next1
  <2>1. \A n \in 0 .. L : selected[n] = IF n = 0 THEN <<>> ELSE Next1(n, selected[n - 1])
    BY <1>7
  <2>2. 0 \in 0 .. L /\ \A n \in 1 .. L : n \in 0 .. L /\ n # 0
    BY <1>1
  <2> HIDE DEF Is
  <2> QED BY <2>1, <2>2
<1> DEFINE M == {n \in Nat : n <= L => selected[n] \in V /\ Picked(q, n, selected[n])}
<1>9. 0 \in M
  <2>1. <<>> \in V /\ Picked(q, 0, <<>>)
    BY DEF Picked, Apart, ToSet
  <2> QED BY <1>8, <2>1
<1>10. ASSUME NEW n \in Nat, n \in M PROVE n + 1 \in M
  <2> SUFFICES ASSUME n + 1 <= L PROVE selected[n + 1] \in V /\ Picked(q, n + 1, selected[n + 1])
    OBVIOUS
  <2>1. n + 1 \in 1 .. L /\ (n + 1) - 1 = n /\ n <= L
    BY <1>1
  <2>2. selected[n] \in V /\ Picked(q, n, selected[n])
    BY <1>10, <2>1
  <2>3. selected[n + 1] = Next1(n + 1, selected[n])
    BY <1>8, <2>1
  <2> QED BY <2>2, <2>3, PickedGrows DEF L
<1>11. L \in M
  <2> HIDE DEF M
  <2> QED BY <1>1, <1>9, <1>10, AllOf
<1>12. selected[L] \in V /\ Picked(q, L, selected[L])
  BY <1>1, <1>11
<1> QED BY <1>2, <1>12 DEF L

(* What is returned: the first of them.                                    *)
LEMMA ReturnedIs ==
    ASSUME NEW q, Requested(q)
    PROVE  /\ Returned(q) \in Seq(ReadRow) /\ Apart(Returned(q))
           /\ Len(Returned(q)) = Lesser(MaxReturned, Len(Available(q)))
           /\ \A k \in 1 .. Len(Returned(q)) : /\ Returned(q)[k] = Available(q)[k]
                                               /\ Usable(q, Returned(q)[k])
<1> DEFINE all == Available(q)
           m == Lesser(MaxReturned, Len(all))
<1>1. all \in Seq(ReadRow) /\ Picked(q, Len(q.read), all)
  BY AvailableIs
<1>2. Returned(q) = SubSeq(all, 1, m)
  BY DEF Returned
<1> HIDE DEF all
<1>3. Len(all) \in Nat /\ \A k \in 1 .. Len(all) : all[k] \in ReadRow /\ all[k] \in ToSet(all)
  BY <1>1 DEF ToSet
<1>4. m \in Nat /\ m <= Len(all)
  BY <1>3, OverviewAssumption DEF Lesser
<1> HIDE DEF m
<1>5. SubSeq(all, 1, m) \in Seq(ReadRow) /\ Len(SubSeq(all, 1, m)) = m
      /\ \A k \in 1 .. m : SubSeq(all, 1, m)[k] = all[k]
  BY <1>3, <1>4, SubSeqProperties
<1>6. \A k \in 1 .. m : k \in 1 .. Len(all)
  BY <1>3, <1>4
<1>7. \A k \in 1 .. m : Usable(q, all[k])
  BY <1>1, <1>3, <1>6 DEF Picked
<1>8. \A i, j \in 1 .. m : i < j => all[i].e <= all[j].s
  BY <1>1, <1>6 DEF Picked, Apart
<1>9. Apart(Returned(q))
  BY <1>2, <1>5, <1>8 DEF Apart
<1> QED BY <1>2, <1>5, <1>7, <1>9 DEF m, all

(* The uncovered ranges come in order, and each lies between two windows.  *)
Bounded(q) == LET windows == Returned(q) IN [n \in 1 .. Len(windows) + 1 |-> Between(q, windows, n)]

GapList(q, n, gaps) ==
    /\ Apart(gaps)
    /\ ToSet(gaps) = {Bounded(q)[k] : k \in {j \in 1 .. n : Bounded(q)[j].s < Bounded(q)[j].e}}

LEMMA BoundsAre ==
    ASSUME NEW q, Requested(q)
    PROVE  LET R == Returned(q)
               L == Len(R)
               B == Bounded(q)
           IN  /\ L \in Nat /\ DOMAIN R = 1 .. L
               /\ \A k \in 1 .. L : /\ R[k].s \in Nat /\ R[k].e \in Nat /\ R[k].s < R[k].e
                                    /\ q.start <= R[k].s /\ R[k].e <= q.end
               /\ \A i, j \in 1 .. L : i < j => R[i].e <= R[j].s
               /\ \A n \in 1 .. L + 1 :
                     /\ B[n] = Between(q, R, n)
                     /\ B[n] \in [s : Nat, e : Nat] /\ q.start <= B[n].s /\ B[n].e <= q.end
                     /\ B[n].s = IF n = 1 THEN q.start ELSE R[n - 1].e
                     /\ B[n].e = IF n = L + 1 THEN q.end ELSE R[n].s
               /\ \A i, j \in 1 .. L + 1 : i < j => B[i].e <= B[j].s
               /\ \A n \in 1 .. L + 1, k \in 1 .. L : IF k < n THEN R[k].e <= B[n].s ELSE B[n].e <= R[k].s
<1> DEFINE R == Returned(q)
           L == Len(R)
           B == Bounded(q)
<1>1. /\ R \in Seq(ReadRow) /\ \A i, j \in 1 .. L : i < j => R[i].e <= R[j].s
      /\ \A k \in 1 .. L : Usable(q, R[k])
  BY ReturnedIs DEF Apart
<1>2. q.start \in Nat /\ q.end \in Nat /\ q.start < q.end /\ q.now \in Nat
  BY DEF Requested
<1> HIDE DEF R
<1>3. L \in Nat /\ DOMAIN R = 1 .. L /\ \A k \in 1 .. L : R[k] \in ReadRow
  BY <1>1
<1>4. B = [n \in 1 .. L + 1 |-> Between(q, R, n)]
  BY DEF Bounded, R
<1> HIDE DEF L, B
<1>5. ASSUME NEW k \in 1 .. L
      PROVE  /\ R[k].s \in Nat /\ R[k].e \in Nat /\ R[k].s < R[k].e
             /\ q.start <= R[k].s /\ R[k].e <= q.end
  <2>1. R[k].s \in Nat /\ R[k].e \in Nat /\ R[k].s < R[k].e
    BY <1>3, RowTyped
  <2>2. q.start <= R[k].s /\ R[k].e <= Lesser(q.end, q.now)
    BY <1>1 DEF Usable
  <2>3. Lesser(q.end, q.now) \in Nat /\ Lesser(q.end, q.now) <= q.end
    BY <1>2 DEF Lesser
  <2> QED BY <1>2, <2>1, <2>2, <2>3
<1>6. ASSUME NEW n \in 1 .. L + 1
      PROVE  /\ B[n] = Between(q, R, n)
             /\ B[n] \in [s : Nat, e : Nat] /\ q.start <= B[n].s /\ B[n].e <= q.end
             /\ B[n].s = IF n = 1 THEN q.start ELSE R[n - 1].e
             /\ B[n].e = IF n = L + 1 THEN q.end ELSE R[n].s
  <2>1. B[n] = Between(q, R, n)
    BY <1>4
  <2>2. n <= L <=> n # L + 1
    BY <1>3
  <2>3. B[n] = [s |-> IF n = 1 THEN q.start ELSE R[n - 1].e, e |-> IF n = L + 1 THEN q.end ELSE R[n].s]
    BY <2>1, <2>2 DEF Between, L
  <2>4. n # 1 => n - 1 \in 1 .. L
    BY <1>3
  <2>5. n # L + 1 => n \in 1 .. L
    BY <1>3
  <2>6. B[n].s = IF n = 1 THEN q.start ELSE R[n - 1].e
    BY <2>3
  <2>7. B[n].e = IF n = L + 1 THEN q.end ELSE R[n].s
    BY <2>3
  <2>8. B[n].s \in Nat /\ q.start <= B[n].s
    <3>1. CASE n = 1
      BY <1>2, <2>6, <3>1
    <3>2. CASE n # 1
      <4>1. q.start <= R[n - 1].s /\ R[n - 1].s < R[n - 1].e /\ R[n - 1].s \in Nat /\ R[n - 1].e \in Nat
        BY <1>5, <2>4, <3>2
      <4> QED BY <1>2, <2>6, <3>2, <4>1
    <3> QED BY <3>1, <3>2
  <2>9. B[n].e \in Nat /\ B[n].e <= q.end
    <3>1. CASE n = L + 1
      BY <1>2, <2>7, <3>1
    <3>2. CASE n # L + 1
      <4>1. R[n].e <= q.end /\ R[n].s < R[n].e /\ R[n].s \in Nat /\ R[n].e \in Nat
        BY <1>5, <2>5, <3>2
      <4> QED BY <1>2, <2>7, <3>2, <4>1
    <3> QED BY <3>1, <3>2
  <2>10. B[n] \in [s : Nat, e : Nat]
    BY <2>3, <2>8, <2>9
  <2> QED BY <2>1, <2>6, <2>7, <2>8, <2>9, <2>10
<1>7. ASSUME NEW n \in 1 .. L + 1, NEW k \in 1 .. L
      PROVE  IF k < n THEN R[k].e <= B[n].s ELSE B[n].e <= R[k].s
  <2>1. CASE k < n
    <3>1. n # 1 /\ n - 1 \in 1 .. L /\ (k = n - 1 \/ k < n - 1)
      BY <1>3, <2>1
    <3>2. B[n].s = R[n - 1].e
      BY <1>6, <3>1
    <3>3. k = n - 1 \/ R[k].e <= R[n - 1].s
      BY <1>1, <3>1
    <3>4. R[k].e \in Nat /\ R[n - 1].s \in Nat /\ R[n - 1].e \in Nat /\ R[n - 1].s < R[n - 1].e
      BY <1>5, <3>1
    <3>5. R[k].e <= B[n].s
      BY <3>2, <3>3, <3>4
    <3> QED BY <2>1, <3>5
  <2>2. CASE ~(k < n)
    <3>1. n # L + 1 /\ n \in 1 .. L /\ (k = n \/ n < k)
      BY <1>3, <2>2
    <3>2. B[n].e = R[n].s
      BY <1>6, <3>1
    <3>3. k = n \/ R[n].e <= R[k].s
      BY <1>1, <3>1
    <3>4. R[k].s \in Nat /\ R[n].s \in Nat /\ R[n].e \in Nat /\ R[n].s < R[n].e
      BY <1>5, <3>1
    <3>5. B[n].e <= R[k].s
      BY <3>2, <3>3, <3>4
    <3> QED BY <2>2, <3>5
  <2> QED BY <2>1, <2>2
<1>8. ASSUME NEW i \in 1 .. L + 1, NEW j \in 1 .. L + 1, i < j PROVE B[i].e <= B[j].s
  <2>1. i \in 1 .. L /\ i # L + 1
    BY <1>3, <1>8
  <2>2. B[i].e = R[i].s
    BY <1>6, <2>1
  <2>3. R[i].e <= B[j].s
    BY <1>7, <1>8, <2>1
  <2>4. R[i].s \in Nat /\ R[i].e \in Nat /\ R[i].s < R[i].e /\ B[j].s \in Nat
    <3>1. B[j] \in [s : Nat, e : Nat]
      BY <1>6
    <3> QED BY <1>5, <2>1, <3>1
  <2> QED BY <2>2, <2>3, <2>4
<1> QED BY <1>1, <1>3, <1>5, <1>6, <1>7, <1>8 DEF R, L, B

LEMMA GapsAre ==
    ASSUME NEW q, Requested(q)
    PROVE  Gaps(q) \in Seq(Stretch) /\ GapList(q, Len(Returned(q)) + 1, Gaps(q))
<1> DEFINE R == Returned(q)
           N == Len(R) + 1
           B == Bounded(q)
           V == Seq(Stretch)
           Next1(n, v) == IF B[n].s < B[n].e THEN Append(v, B[n]) ELSE v
           step == [n \in 1 .. N |-> [v \in V |-> Next1(n, v)]]
           Is(f) == f = [n \in 0 .. N |-> IF n = 0 THEN <<>>
                                          ELSE LET range == Between(q, R, n)
                                               IN  IF range.s < range.e THEN Append(f[n - 1], range) ELSE f[n - 1]]
           gaps == CHOOSE f : Is(f)
<1>1. /\ N \in Nat /\ \A n \in 1 .. N : B[n] = Between(q, R, n) /\ B[n] \in [s : Nat, e : Nat]
      /\ \A i, j \in 1 .. N : i < j => B[i].e <= B[j].s
  BY BoundsAre
<1>2. Gaps(q) = gaps[N]
  BY DEF Gaps
<1> HIDE DEF N, B, R
<1>3. \A n \in 1 .. N : B[n].s < B[n].e => B[n] \in Stretch
  BY <1>1 DEF Stretch
<1>4. \A n \in 1 .. N, v \in V : step[n][v] = Next1(n, v) /\ Next1(n, v) \in V
  BY <1>3
<1>5. step \in [1 .. N -> [V -> V]] /\ <<>> \in V
  <2>1. \A n \in 1 .. N : step[n] = [v \in V |-> Next1(n, v)]
    OBVIOUS
  <2>2. \A n \in 1 .. N : step[n] \in [V -> V]
    <3> HIDE DEF step, Next1, V
    <3> QED BY <1>4, <2>1
  <2>3. <<>> \in V
    OBVIOUS
  <2> HIDE DEF V, Next1
  <2> QED BY <2>2, <2>3
<1>6. PICK f : Loop(N, V, <<>>, step, f)
  <2> HIDE DEF V, step
  <2> QED BY <1>1, <1>5, LoopExists
<1> HIDE DEF V, step
<1>7. Is(f)
  <2>0. DOMAIN f = 0 .. N /\ f = [n \in 0 .. N |-> f[n]]
    BY <1>6 DEF Loop
  <2>1. ASSUME NEW n \in 0 .. N
        PROVE  f[n] = IF n = 0 THEN <<>>
                      ELSE LET range == Between(q, R, n)
                           IN  IF range.s < range.e THEN Append(f[n - 1], range) ELSE f[n - 1]
    <3>1. n = 0 \/ n \in 1 .. N
      BY <1>1
    <3>2. n # 0 => n - 1 \in 0 .. N /\ f[n - 1] \in V
      BY <1>1, <1>6 DEF Loop
    <3>3. n # 0 => f[n] = Next1(n, f[n - 1]) /\ B[n] = Between(q, R, n)
      <4> HIDE DEF Next1
      <4> QED BY <1>1, <1>4, <1>6, <3>1, <3>2 DEF Loop
    <3>4. n = 0 => f[n] = <<>>
      BY <1>6 DEF Loop
    <3> QED BY <3>3, <3>4
  <2> QED BY <2>0, <2>1
<1>8. Is(gaps)
  <2> HIDE DEF Is
  <2> QED BY <1>7
<1> HIDE DEF gaps
<1>9. gaps[0] = <<>> /\ \A n \in 1 .. N : gaps[n] = Next1(n, gaps[n - 1])
  <2>1. \A n \in 0 .. N : gaps[n] = IF n = 0 THEN <<>>
                                    ELSE LET range == Between(q, R, n)
                                         IN  IF range.s < range.e THEN Append(gaps[n - 1], range)
                                                                  ELSE gaps[n - 1]
    BY <1>8
  <2>2. 0 \in 0 .. N /\ \A n \in 1 .. N : n \in 0 .. N /\ n # 0
    BY <1>1
  <2> HIDE DEF Is
  <2> QED BY <1>1, <2>1, <2>2
<1> HIDE DEF Is
<1> DEFINE M == {n \in Nat : n <= N => gaps[n] \in Seq(Stretch) /\ GapList(q, n, gaps[n])}
<1>10. 0 \in M
  <2>1. <<>> \in Seq(Stretch) /\ GapList(q, 0, <<>>)
    BY DEF GapList, Apart, ToSet
  <2> QED BY <1>9, <2>1
<1>11. ASSUME NEW n \in Nat, n \in M PROVE n + 1 \in M
  <2> SUFFICES ASSUME n + 1 <= N PROVE gaps[n + 1] \in Seq(Stretch) /\ GapList(q, n + 1, gaps[n + 1])
    OBVIOUS
  <2> DEFINE old == gaps[n]
             new == gaps[n + 1]
             b == B[n + 1]
             L == Len(old)
  <2>1. n + 1 \in 1 .. N /\ (n + 1) - 1 = n /\ n <= N
    BY <1>1
  <2>2. old \in Seq(Stretch) /\ GapList(q, n, old)
    BY <1>11, <2>1
  <2>3. new = IF b.s < b.e THEN Append(old, b) ELSE old
    BY <1>9, <2>1
  <2>4. b.s < b.e => b \in Stretch
    BY <1>3, <2>1
  <2>5. \A k \in 1 .. n + 1 : k = n + 1 \/ k \in 1 .. n
    OBVIOUS
  <2>6. ToSet(old) = {B[k] : k \in {j \in 1 .. n : B[j].s < B[j].e}}
    BY <2>2 DEF GapList, B
  <2>7. \A i, j \in 1 .. L : i < j => old[i].e <= old[j].s
    BY <2>2 DEF GapList, Apart
  <2>8. L \in Nat /\ DOMAIN old = 1 .. L /\ \A i \in 1 .. L : old[i] \in ToSet(old)
    BY <2>2 DEF ToSet
  <2>9. \A w \in ToSet(old) : w.e <= b.s
    BY <1>1, <2>1, <2>6
  <2> HIDE DEF old, new, b
  <2>10. CASE b.s < b.e
    <3>1. new \in Seq(Stretch) /\ Len(new) = L + 1 /\ new[L + 1] = b /\ \A i \in 1 .. L : new[i] = old[i]
      BY <2>2, <2>3, <2>4, <2>8, <2>10
    <3>2. \A i, j \in 1 .. L + 1 : i < j => i \in 1 .. L /\ (j = L + 1 \/ j \in 1 .. L)
      BY <2>8
    <3>3. \A i, j \in 1 .. L + 1 : i < j => new[i].e <= new[j].s
      BY <2>7, <2>8, <2>9, <3>1, <3>2
    <3>4. ToSet(new) = ToSet(old) \cup {b}
      <4>1. DOMAIN new = 1 .. L + 1
        BY <2>8, <3>1
      <4>2. \A i \in 1 .. L + 1 : i = L + 1 \/ i \in 1 .. L
        BY <2>8
      <4>3. L + 1 \in 1 .. L + 1 /\ \A i \in 1 .. L : i \in 1 .. L + 1
        BY <2>8
      <4> HIDE DEF L
      <4> QED BY <2>8, <3>1, <4>1, <4>2, <4>3 DEF ToSet
    <3>5. ToSet(new) = {B[k] : k \in {j \in 1 .. n + 1 : B[j].s < B[j].e}}
      <4>1. {j \in 1 .. n + 1 : B[j].s < B[j].e} = {j \in 1 .. n : B[j].s < B[j].e} \cup {n + 1}
        BY <2>5, <2>10 DEF b
      <4> QED BY <2>6, <3>4, <4>1 DEF b
    <3>6. Apart(new)
      BY <3>1, <3>3 DEF Apart
    <3> QED BY <3>1, <3>5, <3>6 DEF GapList, new, B
  <2>11. CASE ~(b.s < b.e)
    <3>1. {j \in 1 .. n + 1 : B[j].s < B[j].e} = {j \in 1 .. n : B[j].s < B[j].e}
      BY <2>5, <2>11 DEF b
    <3> QED BY <2>2, <2>3, <2>11, <3>1 DEF GapList, new, B
  <2> QED BY <2>10, <2>11
<1>12. N \in M
  <2> HIDE DEF M
  <2> QED BY <1>1, <1>10, <1>11, AllOf
<1>13. gaps[N] \in Seq(Stretch) /\ GapList(q, N, gaps[N])
  BY <1>1, <1>12
<1> QED BY <1>2, <1>13 DEF N, R

LEMMA GapsBounded ==
    ASSUME NEW q, Requested(q)
    PROVE  LET G == Gaps(q)
               B == Bounded(q)
               N == Len(Returned(q)) + 1
           IN  /\ Len(G) \in Nat /\ DOMAIN G = 1 .. Len(G) /\ Apart(G)
               /\ \A i \in 1 .. Len(G) : /\ G[i].s \in Nat /\ G[i].e \in Nat /\ G[i].s < G[i].e
                                         /\ \E n \in 1 .. N : G[i] = B[n]
               /\ \A n \in 1 .. N : B[n].s < B[n].e => \E i \in 1 .. Len(G) : G[i] = B[n]
<1> DEFINE G == Gaps(q)
           B == Bounded(q)
           N == Len(Returned(q)) + 1
<1>1. /\ G \in Seq(Stretch) /\ Apart(G)
      /\ ToSet(G) = {B[k] : k \in {j \in 1 .. N : B[j].s < B[j].e}}
  BY GapsAre DEF GapList
<1> HIDE DEF G, B, N
<1>2. Len(G) \in Nat /\ DOMAIN G = 1 .. Len(G) /\ \A i \in 1 .. Len(G) : G[i] \in Stretch
  BY <1>1
<1>3. ToSet(G) = {G[i] : i \in 1 .. Len(G)}
  BY <1>2 DEF ToSet
<1>4. \A i \in 1 .. Len(G) : \E n \in 1 .. N : G[i] = B[n]
  BY <1>1, <1>3
<1>5. \A n \in 1 .. N : B[n].s < B[n].e => \E i \in 1 .. Len(G) : G[i] = B[n]
  BY <1>1, <1>3
<1> QED BY <1>1, <1>2, <1>4, <1>5, StretchTyped DEF G, B, N

(* The windows and the ranges between them cut the period into pieces.     *)
LEMMA PiecesAre ==
    ASSUME NEW q, Requested(q)
    PROVE  LET L == Len(Returned(q))
               M == Len(Gaps(q))
               P == Pieces(q)
           IN  /\ L \in Nat /\ M \in Nat /\ DOMAIN P = 1 .. L + M
               /\ \A i \in 1 .. L : P[i] = Returned(q)[i]
               /\ \A j \in 1 .. M : P[L + j] = Gaps(q)[j]
               /\ \A i \in 1 .. L + M : /\ P[i].s \in Nat /\ P[i].e \in Nat /\ P[i].s < P[i].e
                                        /\ q.start <= P[i].s /\ P[i].e <= q.end
               /\ \A i, j \in 1 .. L + M : i # j => P[i].e <= P[j].s \/ P[j].e <= P[i].s
               /\ \A t \in Nat : q.start <= t /\ t < q.end => \E i \in 1 .. L + M : Within(t, P[i])
<1> DEFINE R == Returned(q)
           G == Gaps(q)
           L == Len(R)
           M == Len(G)
           B == Bounded(q)
           P == Pieces(q)
<1>1. /\ L \in Nat /\ DOMAIN R = 1 .. L
      /\ \A k \in 1 .. L : /\ R[k].s \in Nat /\ R[k].e \in Nat /\ R[k].s < R[k].e
                           /\ q.start <= R[k].s /\ R[k].e <= q.end
      /\ \A i, j \in 1 .. L : i < j => R[i].e <= R[j].s
  BY BoundsAre
<1>2. /\ \A n \in 1 .. L + 1 :
            /\ B[n] \in [s : Nat, e : Nat] /\ q.start <= B[n].s /\ B[n].e <= q.end
            /\ B[n].s = IF n = 1 THEN q.start ELSE R[n - 1].e
            /\ B[n].e = IF n = L + 1 THEN q.end ELSE R[n].s
      /\ \A n \in 1 .. L + 1, k \in 1 .. L : IF k < n THEN R[k].e <= B[n].s ELSE B[n].e <= R[k].s
  BY BoundsAre
<1>3. /\ M \in Nat /\ DOMAIN G = 1 .. M /\ \A i, j \in 1 .. M : i < j => G[i].e <= G[j].s
      /\ \A i \in 1 .. M : /\ G[i].s \in Nat /\ G[i].e \in Nat /\ G[i].s < G[i].e
                           /\ \E n \in 1 .. L + 1 : G[i] = B[n]
      /\ \A n \in 1 .. L + 1 : B[n].s < B[n].e => \E i \in 1 .. M : G[i] = B[n]
  BY GapsBounded DEF Apart
<1>4. q.start \in Nat /\ q.end \in Nat /\ q.start < q.end
  BY DEF Requested
<1>5. /\ DOMAIN P = 1 .. L + M /\ \A i \in 1 .. L : P[i] = R[i]
      /\ \A j \in 1 .. M : P[L + j] = G[j]
  <2>1. P = R \o G
    BY DEF Pieces
  <2> DEFINE T == ReadRow \cup Stretch
  <2>2. ReadRow \subseteq T /\ Stretch \subseteq T
    OBVIOUS
  <2>3. R \in Seq(ReadRow) /\ G \in Seq(Stretch)
    BY ReturnedIs, GapsAre
  <2> HIDE DEF R, G, P, T
  <2>4. R \in Seq(T) /\ G \in Seq(T)
    BY <2>2, <2>3, SeqWider
  <2>5. /\ P \in Seq(T) /\ Len(P) = Len(R) + Len(G)
        /\ \A i \in 1 .. Len(R) + Len(G) : P[i] = IF i <= Len(R) THEN R[i] ELSE G[i - Len(R)]
    BY <2>1, <2>4, ConcatProperties
  <2>6. DOMAIN P = 1 .. L + M
    BY <2>5
  <2> HIDE DEF L, M
  <2>7. \A i \in 1 .. L : i \in 1 .. L + M /\ i <= L
    BY <1>1, <1>3
  <2>8. \A j \in 1 .. M : L + j \in 1 .. L + M /\ ~(L + j <= L) /\ (L + j) - L = j
    BY <1>1, <1>3
  <2>9. \A i \in 1 .. L + M : P[i] = IF i <= L THEN R[i] ELSE G[i - L]
    BY <2>5 DEF L, M
  <2> QED BY <2>6, <2>7, <2>8, <2>9
<1> HIDE DEF R, G, L, M, B, P
<1>6. \A i \in 1 .. L + M : i \in 1 .. L \/ (i - L \in 1 .. M /\ i = L + (i - L))
  BY <1>1, <1>3
<1>7. ASSUME NEW i \in 1 .. L + M
      PROVE  /\ P[i].s \in Nat /\ P[i].e \in Nat /\ P[i].s < P[i].e
             /\ q.start <= P[i].s /\ P[i].e <= q.end
  <2>1. CASE i \in 1 .. L
    BY <1>1, <1>5, <2>1
  <2>2. CASE i - L \in 1 .. M /\ i = L + (i - L)
    <3>1. P[i] = G[i - L]
      BY <1>5, <2>2
    <3>2. PICK n \in 1 .. L + 1 : G[i - L] = B[n]
      BY <1>3, <2>2
    <3>3. q.start <= G[i - L].s /\ G[i - L].e <= q.end
      BY <1>2, <3>2
    <3> QED BY <1>3, <2>2, <3>1, <3>3
  <2> QED BY <1>6, <2>1, <2>2
<1>8. ASSUME NEW k \in 1 .. L, NEW j \in 1 .. M PROVE R[k].e <= G[j].s \/ G[j].e <= R[k].s
  <2>1. PICK n \in 1 .. L + 1 : G[j] = B[n]
    BY <1>3
  <2>2. IF k < n THEN R[k].e <= B[n].s ELSE B[n].e <= R[k].s
    BY <1>2
  <2> QED BY <2>1, <2>2
<1>9. ASSUME NEW i \in 1 .. L + M, NEW j \in 1 .. L + M, i < j
      PROVE  P[i].e <= P[j].s \/ P[j].e <= P[i].s
  <2>1. CASE i \in 1 .. L /\ j \in 1 .. L
    BY <1>1, <1>5, <1>9, <2>1
  <2>2. CASE i \in 1 .. L /\ j - L \in 1 .. M /\ j = L + (j - L)
    <3>1. P[i] = R[i] /\ P[j] = G[j - L]
      BY <1>5, <2>2
    <3> QED BY <1>8, <2>2, <3>1
  <2>3. CASE i - L \in 1 .. M /\ j - L \in 1 .. M /\ i = L + (i - L) /\ j = L + (j - L)
    <3>1. P[i] = G[i - L] /\ P[j] = G[j - L]
      BY <1>5, <2>3
    <3>2. i - L < j - L
      BY <1>1, <1>9
    <3>3. G[i - L].e <= G[j - L].s
      BY <1>3, <2>3, <3>2
    <3> QED BY <3>1, <3>3
  <2>4. j \in 1 .. L => i \in 1 .. L
    BY <1>1, <1>9
  <2> QED BY <1>6, <2>1, <2>2, <2>3, <2>4
<1>10. \A i, j \in 1 .. L + M : i # j => P[i].e <= P[j].s \/ P[j].e <= P[i].s
  <2> SUFFICES ASSUME NEW i \in 1 .. L + M, NEW j \in 1 .. L + M, i # j
               PROVE  P[i].e <= P[j].s \/ P[j].e <= P[i].s
    OBVIOUS
  <2>1. i < j \/ j < i
    OBVIOUS
  <2> QED BY <1>9, <2>1
<1>11. ASSUME NEW t \in Nat, q.start <= t, t < q.end PROVE \E i \in 1 .. L + M : Within(t, P[i])
  <2> DEFINE T == {n \in 1 .. L + 1 : n = L + 1 \/ t < R[n].e}
             n == Min(T)
  <2>1. T \subseteq Nat /\ L + 1 \in T
    BY <1>1
  <2>2. n \in T /\ \A k \in T : n <= k
    <3> HIDE DEF T
    <3> QED BY <2>1, LeastOf
  <2> HIDE DEF n
  <2>3. n \in 1 .. L + 1
    BY <2>2
  <2>4. B[n].s <= t
    <3>1. CASE n = 1
      BY <1>2, <1>11, <2>3, <3>1
    <3>2. CASE n # 1
      <4>1. n - 1 \in 1 .. L /\ n - 1 \in 1 .. L + 1 /\ ~(n <= n - 1)
        BY <1>1, <2>3, <3>2
      <4>2. n - 1 \notin T
        BY <2>2, <4>1
      <4>3. ~(t < R[n - 1].e)
        BY <4>1, <4>2
      <4>4. B[n].s = R[n - 1].e /\ R[n - 1].e \in Nat
        BY <1>1, <1>2, <2>3, <3>2, <4>1
      <4> QED BY <4>3, <4>4
    <3> QED BY <3>1, <3>2
  <2>5. B[n].s \in Nat /\ B[n].e \in Nat
    <3>1. B[n] \in [s : Nat, e : Nat]
      BY <1>2, <2>3
    <3> QED BY <3>1
  <2>6. CASE t < B[n].e
    <3>1. B[n].s < B[n].e
      BY <2>4, <2>5, <2>6
    <3>2. PICK j \in 1 .. M : G[j] = B[n]
      BY <1>3, <2>3, <3>1
    <3>3. P[L + j] = B[n] /\ L + j \in 1 .. L + M
      BY <1>1, <1>3, <1>5, <3>2
    <3> QED BY <2>4, <2>6, <3>3 DEF Within
  <2>7. CASE ~(t < B[n].e)
    <3>1. n # L + 1
      BY <1>2, <1>11, <2>3, <2>7
    <3>2. n \in 1 .. L /\ n \in 1 .. L + M
      BY <1>1, <1>3, <2>3, <3>1
    <3>3. B[n].e = R[n].s /\ t < R[n].e
      BY <1>2, <2>2, <2>3, <3>1
    <3>4. R[n].s \in Nat
      BY <1>1, <3>2
    <3>5. P[n] = R[n]
      BY <1>5, <3>2
    <3>6. R[n].s <= t
      BY <2>7, <3>3, <3>4
    <3> QED BY <3>2, <3>3, <3>5, <3>6 DEF Within
  <2> QED BY <2>6, <2>7
<1> QED BY <1>1, <1>3, <1>5, <1>7, <1>10, <1>11 DEF R, G, L, M, P

LEMMA TiledIs ==
    ASSUME NEW q, Requested(q)
    PROVE  Tiled(q)
<1> DEFINE P == Pieces(q)
           K == Len(Returned(q)) + Len(Gaps(q))
           here(t) == {i \in DOMAIN P : Within(t, P[i])}
<1>1. /\ DOMAIN P = 1 .. K
      /\ \A i \in 1 .. K : /\ P[i].s \in Nat /\ P[i].e \in Nat /\ P[i].s < P[i].e
                           /\ q.start <= P[i].s /\ P[i].e <= q.end
      /\ \A i, j \in 1 .. K : i # j => P[i].e <= P[j].s \/ P[j].e <= P[i].s
      /\ \A t \in Nat : q.start <= t /\ t < q.end => \E i \in 1 .. K : Within(t, P[i])
  BY PiecesAre
<1>2. q.start \in Nat /\ q.end \in Nat
  BY DEF Requested
<1> HIDE DEF P, K
<1>3. ASSUME NEW t \in 0 .. MaxTime
      PROVE  Cardinality(here(t)) = IF q.start <= t /\ t < q.end THEN 1 ELSE 0
  <2>1. t \in Nat
    BY OverviewAssumption
  <2>2. CASE q.start <= t /\ t < q.end
    <3>1. PICK i \in 1 .. K : Within(t, P[i])
      BY <1>1, <2>1, <2>2
    <3>2. ASSUME NEW j \in 1 .. K, Within(t, P[j]), j # i PROVE FALSE
      <4>1. P[i].e <= P[j].s \/ P[j].e <= P[i].s
        BY <1>1, <3>2
      <4>2. P[i].s <= t /\ t < P[i].e /\ P[j].s <= t /\ t < P[j].e
        BY <3>1, <3>2 DEF Within
      <4>3. P[i].s \in Nat /\ P[i].e \in Nat /\ P[j].s \in Nat /\ P[j].e \in Nat
        BY <1>1
      <4> QED BY <2>1, <4>1, <4>2, <4>3
    <3>3. here(t) = {i}
      BY <1>1, <3>1, <3>2
    <3>4. Cardinality({i}) = 1
      BY FS_Singleton
    <3> QED BY <2>2, <3>3, <3>4
  <2>3. CASE ~(q.start <= t /\ t < q.end)
    <3>1. ASSUME NEW i \in 1 .. K, Within(t, P[i]) PROVE FALSE
      <4>1. P[i].s <= t /\ t < P[i].e
        BY <3>1 DEF Within
      <4>2. P[i].s \in Nat /\ P[i].e \in Nat /\ q.start <= P[i].s /\ P[i].e <= q.end
        BY <1>1
      <4> QED BY <1>2, <2>1, <2>3, <4>1, <4>2
    <3>2. here(t) = {}
      BY <1>1, <3>1
    <3>3. Cardinality({}) = 0
      BY FS_EmptySet
    <3> QED BY <2>3, <3>2, <3>3
  <2> QED BY <2>2, <2>3
<1> QED BY <1>1, <1>3 DEF Tiled, P

LEMMA NoneIsLeftOut ==
    ASSUME NEW q, Requested(q)
    PROVE  NoneLeftOut(q)
<1> DEFINE all == Available(q)
           R == Returned(q)
<1>1. all \in Seq(ReadRow) /\ Picked(q, Len(q.read), all)
  BY AvailableIs
<1>2. /\ R \in Seq(ReadRow) /\ Len(R) = Lesser(MaxReturned, Len(all))
      /\ \A k \in 1 .. Len(R) : R[k] = all[k]
  BY ReturnedIs
<1>3. MaxReturned \in Nat \ {0}
  BY OverviewAssumption
<1> SUFFICES ASSUME NEW i \in DOMAIN q.read, Usable(q, q.read[i])
             PROVE  \/ \E j \in DOMAIN R : Overlap(q.read[i], R[j])
                    \/ Len(all) > MaxReturned /\ q.read[i].e > Last(R).e
  BY DEF NoneLeftOut
<1> DEFINE row == q.read[i]
<1> HIDE DEF all, R
<1>4. i \in 1 .. Len(q.read) /\ row \in ReadRow
  BY DEF Requested
<1>5. Len(all) \in Nat /\ DOMAIN R = 1 .. Len(R) /\ ToSet(all) = {all[k] : k \in 1 .. Len(all)}
  BY <1>1, <1>2 DEF ToSet
<1>6. PICK j \in 1 .. Len(all) : Overlap(row, all[j])
  <2>1. \E w \in ToSet(all) : Overlap(row, w)
    BY <1>1, <1>4 DEF Picked
  <2> QED BY <1>5, <2>1
<1>7. CASE j <= Len(R)
  <2>1. j \in 1 .. Len(R)
    BY <1>2, <1>7
  <2> QED BY <1>2, <1>5, <1>6, <2>1
<1>8. CASE ~(j <= Len(R))
  <2>1. MaxReturned < Len(all) /\ Len(R) = MaxReturned /\ MaxReturned < j
    BY <1>2, <1>3, <1>5, <1>8 DEF Lesser
  <2>2. MaxReturned \in 1 .. Len(all) /\ MaxReturned \in 1 .. Len(R)
    BY <1>3, <1>5, <2>1
  <2>3. Last(R) = all[MaxReturned]
    BY <1>2, <2>1, <2>2 DEF Last
  <2>4. all[MaxReturned].e <= all[j].s
    BY <1>1, <2>1, <2>2 DEF Picked, Apart
  <2>5. all[j].s < row.e
    BY <1>6 DEF Overlap
  <2>6. all[j] \in ReadRow /\ all[MaxReturned] \in ReadRow
    BY <1>1, <2>2
  <2>7. all[j].s \in Nat /\ all[MaxReturned].e \in Nat /\ row.e \in Nat
    BY <1>4, <2>6, RowTyped
  <2> HIDE DEF row
  <2>8. row.e > Last(R).e /\ Len(all) > MaxReturned
    BY <1>3, <1>5, <2>1, <2>3, <2>4, <2>5, <2>7
  <2> QED BY <2>8 DEF row
<1> QED BY <1>7, <1>8

LEMMA GapRowsAre ==
    ASSUME NEW q, Requested(q)
    PROVE  GapRowsFound(q)
<1> DEFINE G == Gaps(q)
           M == Len(G)
<1>1. /\ M \in Nat /\ DOMAIN G = 1 .. M /\ Apart(G)
      /\ \A k \in 1 .. M : G[k].s \in Nat /\ G[k].e \in Nat /\ G[k].s < G[k].e
  BY GapsBounded
<1>2. G \in Seq(Stretch)
  BY GapsAre
<1> SUFFICES ASSUME NEW i \in DOMAIN q.read
             PROVE  InGap(G, q.read[i]) <=> \E j \in DOMAIN G : Overlap(q.read[i], G[j])
  BY DEF GapRowsFound
<1>3. q.read[i] \in ReadRow
  BY DEF Requested
<1> DEFINE row == q.read[i]
           b == Bisect(Finishes(G), row.s + 1)
<1>4. InGap(G, row) <=> b + 1 <= M /\ G[b + 1].s < row.e
  BY DEF InGap
<1> HIDE DEF G, row
<1>5. row.s \in Nat /\ row.e \in Nat /\ row.s < row.e /\ row.s + 1 \in Nat
  BY <1>3, RowTyped DEF row
<1>6. /\ Finishes(G) \in Seq(Nat) /\ Len(Finishes(G)) = M
      /\ \A k \in 1 .. M : Finishes(G)[k] = G[k].e
      /\ \A k, l \in 1 .. M : k < l => Finishes(G)[k] <= Finishes(G)[l]
  BY <1>1, <1>2, StretchTyped, StartsAre
<1>7. b \in 0 .. M /\ \A k \in 1 .. M : Finishes(G)[k] < row.s + 1 <=> k <= b
  BY <1>5, <1>6, BisectIs
<1> HIDE DEF b, M
<1>8. b \in Nat /\ b <= M /\ \A k \in 1 .. M : row.s < G[k].e <=> ~(k <= b)
  <2>1. \A k \in 1 .. M : G[k].e < row.s + 1 <=> k <= b
    BY <1>6, <1>7
  <2>2. \A k \in 1 .. M : G[k].e < row.s + 1 <=> ~(row.s < G[k].e)
    BY <1>1, <1>5
  <2> QED BY <1>1, <1>7, <2>1, <2>2
<1>9. ASSUME b + 1 <= M, G[b + 1].s < row.e PROVE \E j \in 1 .. M : Overlap(row, G[j])
  <2>1. b + 1 \in 1 .. M /\ ~(b + 1 <= b)
    BY <1>1, <1>8, <1>9
  <2>2. row.s < G[b + 1].e
    BY <1>8, <2>1
  <2> QED BY <1>9, <2>1, <2>2 DEF Overlap
<1>10. ASSUME NEW j \in 1 .. M, Overlap(row, G[j]) PROVE b + 1 <= M /\ G[b + 1].s < row.e
  <2>1. row.s < G[j].e /\ G[j].s < row.e
    BY <1>10 DEF Overlap
  <2>2. ~(j <= b)
    BY <1>8, <2>1
  <2>3. b + 1 \in 1 .. M /\ b + 1 <= M /\ (j = b + 1 \/ b + 1 < j)
    BY <1>1, <1>8, <2>2
  <2>4. j = b + 1 \/ G[b + 1].e <= G[j].s
    BY <1>1, <2>3 DEF Apart, M
  <2>5. G[b + 1].s \in Nat /\ G[b + 1].e \in Nat /\ G[b + 1].s < G[b + 1].e /\ G[j].s \in Nat
    BY <1>1, <2>3
  <2>6. G[b + 1].s < row.e
    BY <1>5, <2>1, <2>4, <2>5
  <2> QED BY <2>3, <2>6
<1>11. InGap(G, row) <=> \E j \in 1 .. M : Overlap(row, G[j])
  BY <1>4, <1>9, <1>10
<1> QED BY <1>1, <1>11 DEF row

LEMMA CoveredIs ==
    ASSUME NEW q, Requested(q), SummaryState(q) = "covered", NEW t \in q.times, NEW j \in DOMAIN Gaps(q)
    PROVE  ~Within(t, Gaps(q)[j])
<1> DEFINE R == Returned(q)
           G == Gaps(q)
           L == Len(R)
           M == Len(G)
           P == Pieces(q)
           C == {u \in q.times : \E i \in DOMAIN R : R[i].s <= u /\ u < R[i].e}
<1>1. IsFiniteSet(q.times) /\ q.times \subseteq Nat
  BY DEF Requested
<1>2. ~(Covered(q) < Cardinality(q.times))
  BY DEF SummaryState
<1>3. Covered(q) = Cardinality(C)
  BY DEF Covered
<1>4. /\ L \in Nat /\ M \in Nat /\ DOMAIN P = 1 .. L + M
      /\ \A i \in 1 .. L : P[i] = R[i]
      /\ \A k \in 1 .. M : P[L + k] = G[k]
      /\ \A i \in 1 .. L + M : P[i].s \in Nat /\ P[i].e \in Nat
      /\ \A i, k \in 1 .. L + M : i # k => P[i].e <= P[k].s \/ P[k].e <= P[i].s
  BY PiecesAre
<1>5. DOMAIN R = 1 .. L /\ DOMAIN G = 1 .. M
  BY BoundsAre, GapsBounded
<1> HIDE DEF R, G, L, M, P
<1>6. C = q.times
  <2>1. C \in SUBSET q.times
    OBVIOUS
  <2> HIDE DEF C
  <2>2. Cardinality(C) <= Cardinality(q.times) /\ (Cardinality(q.times) = Cardinality(C) => q.times = C) /\ IsFiniteSet(C)
    BY <1>1, <2>1, FS_Subset
  <2>3. Cardinality(C) \in Nat /\ Cardinality(q.times) \in Nat
    BY <1>1, <2>2, FS_CardinalityType
  <2> QED BY <1>2, <1>3, <2>2, <2>3
<1>7. PICK i \in 1 .. L : R[i].s <= t /\ t < R[i].e
  BY <1>5, <1>6
<1>8. j \in 1 .. M
  BY <1>5 DEF G
<1>9. i \in 1 .. L + M /\ L + j \in 1 .. L + M /\ i # L + j
  BY <1>4, <1>8
<1>10. P[i] = R[i] /\ P[L + j] = G[j]
  BY <1>4, <1>8
<1>11. P[i].e <= P[L + j].s \/ P[L + j].e <= P[i].s
  BY <1>4, <1>9
<1>12. P[i].s \in Nat /\ P[i].e \in Nat /\ P[L + j].s \in Nat /\ P[L + j].e \in Nat /\ t \in Nat
  BY <1>1, <1>4, <1>9
<1>13. ~(G[j].s <= t /\ t < G[j].e)
  BY <1>7, <1>10, <1>11, <1>12
<1> QED BY <1>13 DEF Within, G

(* A request that is being read, or is answered.                           *)
QueryType == [pc : {"reading", "answered"}, start : Nat, end : Nat, now : Nat, grain : 0 .. Coarse,
              read : Seq(ReadRow), changes : 0 .. MaxChanges, times : SUBSET Instants]

RequestSound ==
    query = NoQuery \/ /\ query \in QueryType /\ query.start < query.end
                       /\ query.pc = "reading" => query.grain \in 1 .. Coarse

OverviewInv ==
    /\ frames \subseteq Instants
    /\ status \in [Windows -> {"none", "pending", "ready"}]
    /\ RequestSound

LEMMA QueryTyped ==
    ASSUME query \in QueryType
    PROVE  /\ query.pc \in {"reading", "answered"} /\ query.start \in Nat /\ query.end \in Nat
           /\ query.now \in Nat /\ query.grain \in 0 .. Coarse /\ query.read \in Seq(ReadRow)
           /\ query.changes \in 0 .. MaxChanges /\ query.times \subseteq Instants
BY DEF QueryType

(* What a grain holds are rows of windows.                                 *)
LEMMA GrainIs ==
    ASSUME NEW q, NEW found \in OfGrain(q)
    PROVE  found \in Seq(ReadRow)
<1> DEFINE S == {v \in Windows : /\ v.grain = q.grain /\ status[v] # "none"
                                 /\ v.s < q.end /\ v.e > q.start}
           F == {[s |-> w.s, e |-> w.e, ready |-> status[w] = "ready"] : w \in S}
<1>1. ASSUME NEW w \in S PROVE [s |-> w.s, e |-> w.e, ready |-> status[w] = "ready"] \in ReadRow
  <2>1. MaxTime \in Nat /\ w.s \in 0 .. MaxTime /\ w.e \in w.s + 1 .. MaxTime
    BY OverviewAssumption
  <2>2. w.s \in Nat /\ w.e \in Nat /\ w.s < w.e
    BY <2>1
  <2> QED BY <2>2 DEF ReadRow
<1>2. F \subseteq ReadRow
  BY <1>1
<1>3. IsFiniteSet(S)
  BY OverviewAssumption, FS_Subset
<1> HIDE DEF S
<1>4. IsFiniteSet(F)
  <2> DEFINE f == [w \in S |-> [s |-> w.s, e |-> w.e, ready |-> status[w] = "ready"]]
  <2>1. f \in [S -> F]
    OBVIOUS
  <2>2. \A r \in F : \E w \in S : f[w] = r
    OBVIOUS
  <2> HIDE DEF f, F
  <2>3. f \in Surjection(S, F)
    BY <2>1, <2>2 DEF Surjection
  <2> QED BY <1>3, <2>3, FS_Surjection
<1>5. found \in SetToSeqs(F)
  BY DEF OfGrain, S
<1> HIDE DEF F
<1>6. Cardinality(F) \in Nat
  BY <1>4, FS_CardinalityType
<1>7. found \in [1 .. Cardinality(F) -> F]
  BY <1>5 DEF SetToSeqs
<1>8. found \in [1 .. Cardinality(F) -> ReadRow]
  BY <1>2, <1>7
<1> QED BY <1>6, <1>8

(* A change in the store, before the request or while it is read.          *)
LEMMA ChangeKeeps ==
    ASSUME RequestSound, MayChange
    PROVE  RequestSound'
<1>1. CASE UNCHANGED query
  BY <1>1 DEF RequestSound, NoQuery, QueryType, ReadRow, Instants
<1>2. CASE /\ query.pc = "reading" /\ query.changes < MaxChanges
           /\ query' = [query EXCEPT !.changes = @ + 1]
  <2>1. query \in QueryType /\ query.start < query.end /\ query.grain \in 1 .. Coarse
    BY <1>2 DEF RequestSound, NoQuery
  <2>2. query.changes + 1 \in 0 .. MaxChanges
    BY <1>2, <2>1, QueryTyped, OverviewAssumption
  <2>3. query' \in QueryType
    BY <1>2, <2>1, <2>2 DEF QueryType
  <2>4. query'.start = query.start /\ query'.end = query.end /\ query'.grain = query.grain
    BY <1>2, <2>1 DEF QueryType
  <2>5. (query \in QueryType)'
    BY <2>3 DEF QueryType, ReadRow, Instants
  <2> QED BY <2>1, <2>4, <2>5 DEF RequestSound
<1> QED BY <1>1, <1>2 DEF MayChange

LEMMA OverviewInvHolds == OverviewSpec => []OverviewInv
<1>1. OverviewInit => OverviewInv
  BY DEF OverviewInit, OverviewInv, RequestSound
<1>2. OverviewInv /\ [OverviewNext]_overviewVars => OverviewInv'
  <2> SUFFICES ASSUME OverviewInv, [OverviewNext]_overviewVars PROVE OverviewInv'
    OBVIOUS
  <2>1. ASSUME NEW t \in Instants, Captured(t) PROVE OverviewInv'
    BY <2>1, ChangeKeeps DEF OverviewInv, Captured, Instants
  <2>2. ASSUME NEW w \in Windows, Queue(w) PROVE OverviewInv'
    BY <2>2, ChangeKeeps DEF OverviewInv, Queue, Instants
  <2>3. ASSUME NEW w \in Windows, Narrate(w) PROVE OverviewInv'
    BY <2>3, ChangeKeeps DEF OverviewInv, Narrate, Instants
  <2>4. ASSUME NEW start \in 0 .. MaxTime, NEW end \in 0 .. MaxTime, NEW now \in Clocks,
               NEW grain \in 1 .. Coarse, AskOverview(start, end, now, grain)
        PROVE  OverviewInv'
    <3> DEFINE asked == [pc |-> "reading", start |-> start, end |-> end, now |-> now,
                         grain |-> grain, read |-> <<>>, changes |-> 0,
                         times |-> {t \in frames : start <= t /\ t < end}]
    <3>1. query' = asked /\ start < end /\ UNCHANGED <<frames, status>>
      BY <2>4 DEF AskOverview
    <3>2. start \in Nat /\ end \in Nat /\ now \in Nat /\ grain \in 0 .. Coarse /\ 0 \in 0 .. MaxChanges
      BY OverviewAssumption
    <3>3. asked.times \subseteq Instants /\ <<>> \in Seq(ReadRow)
      BY DEF OverviewInv
    <3>4. asked \in QueryType
      BY <3>2, <3>3 DEF QueryType
    <3>5. (query \in QueryType)'
      BY <3>1, <3>4 DEF QueryType, ReadRow, Instants
    <3>6. query'.start < query'.end /\ query'.grain \in 1 .. Coarse
      BY <3>1
    <3> QED BY <3>1, <3>5, <3>6 DEF OverviewInv, RequestSound, Instants
  <2>5. ASSUME ReadGrain PROVE OverviewInv'
    <3>1. query \in QueryType /\ query.start < query.end /\ query.grain \in 1 .. Coarse
      BY <2>5 DEF ReadGrain, OverviewInv, RequestSound, NoQuery
    <3>2. PICK found \in OfGrain(query) :
              query' = [query EXCEPT !.read = @ \o found, !.grain = @ - 1,
                                     !.pc = IF query.grain = 1 THEN "answered" ELSE "reading"]
      BY <2>5 DEF ReadGrain
    <3>3. found \in Seq(ReadRow) /\ query.read \in Seq(ReadRow)
      BY <3>1, GrainIs, QueryTyped
    <3>4. query.read \o found \in Seq(ReadRow)
      BY <3>3, ConcatProperties
    <3>5. query.grain - 1 \in 0 .. Coarse /\ (query.grain # 1 => query.grain - 1 \in 1 .. Coarse)
      BY <3>1, OverviewAssumption
    <3>6. query' \in QueryType
      BY <3>1, <3>2, <3>4, <3>5 DEF QueryType
    <3>7. /\ query'.start = query.start /\ query'.end = query.end /\ query'.grain = query.grain - 1
          /\ query'.pc = IF query.grain = 1 THEN "answered" ELSE "reading"
      BY <3>1, <3>2 DEF QueryType
    <3>8. (query \in QueryType)'
      BY <3>6 DEF QueryType, ReadRow, Instants
    <3>9. UNCHANGED <<frames, status>>
      BY <2>5 DEF ReadGrain
    <3> QED BY <3>1, <3>5, <3>7, <3>8, <3>9 DEF OverviewInv, RequestSound, Instants
  <2>6. CASE UNCHANGED overviewVars
    BY <2>6 DEF OverviewInv, RequestSound, overviewVars, NoQuery, QueryType, ReadRow, Instants
  <2> QED BY <2>1, <2>2, <2>3, <2>4, <2>5, <2>6 DEF OverviewNext
<1> QED BY <1>1, <1>2, PTL DEF OverviewSpec

(* Type correctness: what is in store, and what a request has read.        *)
THEOREM OverviewTypeCorrect == OverviewSpec => []OverviewTypeOK
<1>1. OverviewInv => OverviewTypeOK
  BY QueryTyped DEF OverviewInv, RequestSound, OverviewTypeOK
<1> QED BY <1>1, OverviewInvHolds, PTL

(* An overview cuts its period into returned windows and uncovered ranges, *)
(* leaves no ready window out without a cause, counts for the ranges just  *)
(* the rows that reach into them, and calls itself covered only when no    *)
(* captured record lies in a range: for every set of windows, overlapping  *)
(* or not, every limit, and rows that change while they are read.          *)
THEOREM OverviewIsHonest == OverviewSpec => []OverviewHonest
<1>1. OverviewInv => OverviewHonest
  <2> SUFFICES ASSUME OverviewInv, query.pc = "answered" PROVE OverviewHonest
    BY DEF OverviewHonest
  <2>1. query \in QueryType /\ query.start < query.end
    BY DEF OverviewInv, RequestSound, NoQuery
  <2>2. Instants \subseteq Nat /\ IsFiniteSet(Instants)
    <3>1. 0 \in Int /\ MaxTime - 1 \in Int
      BY OverviewAssumption
    <3>2. IsFiniteSet(0 .. MaxTime - 1)
      BY ONLY <3>1, FS_Interval
    <3>3. Instants \subseteq Nat
      BY ONLY <3>1 DEF Instants
    <3> QED BY <3>2, <3>3 DEF Instants
  <2>3. query.times \subseteq Nat /\ IsFiniteSet(query.times)
    BY <2>1, <2>2, QueryTyped, FS_Subset
  <2>4. Requested(query)
    BY <2>1, <2>3, QueryTyped DEF Requested
  <2>5. Tiled(query) /\ NoneLeftOut(query) /\ GapRowsFound(query)
    BY <2>4, TiledIs, NoneIsLeftOut, GapRowsAre
  <2>6. ASSUME SummaryState(query) = "covered", NEW t \in query.times, NEW j \in DOMAIN Gaps(query)
        PROVE  ~Within(t, Gaps(query)[j])
    BY <2>4, <2>6, CoveredIs
  <2> QED BY <2>5, <2>6 DEF OverviewHonest
<1> QED BY <1>1, OverviewInvHolds, PTL

(***************************************************************************)
(* Sums                                                                    *)
(***************************************************************************)
(* Induction over the subsets of a finite set.                             *)
LEMMA AllSubsets ==
    ASSUME NEW D, IsFiniteSet(D), NEW S,
           \A T \in SUBSET D : (\A x \in T : T \ {x} \in S) => T \in S
    PROVE  SUBSET D \subseteq S
<1> DEFINE N == {n \in Nat : \A T \in SUBSET D : Cardinality(T) = n => T \in S}
<1>1. \A T \in SUBSET D : IsFiniteSet(T) /\ Cardinality(T) \in Nat
  BY FS_Subset, FS_CardinalityType
<1>2. 0 \in N
  <2>1. ASSUME NEW T \in SUBSET D, Cardinality(T) = 0 PROVE T \in S
    <3>1. T = {}
      BY <1>1, <2>1, FS_EmptySet
    <3> QED BY <3>1
  <2> QED BY <2>1
<1>3. ASSUME NEW n \in Nat, n \in N PROVE n + 1 \in N
  <2> SUFFICES ASSUME NEW T \in SUBSET D, Cardinality(T) = n + 1 PROVE T \in S
    OBVIOUS
  <2>1. ASSUME NEW x \in T PROVE T \ {x} \in S
    <3>1. Cardinality(T \ {x}) = Cardinality(T) - 1
      BY <1>1, FS_RemoveElement
    <3>2. Cardinality(T \ {x}) = n
      BY <3>1
    <3> QED BY <1>3, <3>2
  <2> QED BY <2>1
<1> HIDE DEF N
<1>4. Nat \subseteq N
  BY <1>2, <1>3, AllOf
<1>5. ASSUME NEW T \in SUBSET D PROVE T \in S
  BY <1>1, <1>4 DEF N
<1> QED BY <1>5

(* What SumFunctionOnSet takes from a set first.                           *)
First(s) == CHOOSE x \in s : TRUE

(* A function that obeys its equation on the subsets of D.                 *)
SumsOf(f, D, g) ==
    /\ DOMAIN g = SUBSET D
    /\ \A s \in SUBSET D : g[s] = IF s = {} THEN 0 ELSE f[First(s)] + g[s \ {First(s)}]

LEMMA FirstIn == \A s : s # {} => First(s) \in s
BY DEF First

LEMMA SumsExist ==
    ASSUME NEW D, IsFiniteSet(D), NEW f \in [D -> Nat]
    PROVE  \E g : SumsOf(f, D, g)
<1> DEFINE Small(n) == {s \in SUBSET D : Cardinality(s) <= n}
           Part(n, g) == \A s \in Small(n) :
                             g[s] = IF s = {} THEN 0 ELSE f[First(s)] + g[s \ {First(s)}]
           S == {n \in Nat : \E g \in [SUBSET D -> Nat] : Part(n, g)}
<1>1. \A s \in SUBSET D : IsFiniteSet(s) /\ Cardinality(s) \in Nat
  BY FS_Subset, FS_CardinalityType
<1>2. ASSUME NEW s \in SUBSET D, s # {}
      PROVE  /\ First(s) \in s /\ s \ {First(s)} \in SUBSET D
             /\ Cardinality(s \ {First(s)}) = Cardinality(s) - 1
  <2>1. First(s) \in s
    BY <1>2, FirstIn
  <2> QED BY <1>1, <2>1, FS_RemoveElement
<1>3. 0 \in S
  <2> DEFINE g == [s \in SUBSET D |-> 0]
  <2>1. \A s \in Small(0) : s = {}
    BY <1>1, FS_EmptySet
  <2>2. g \in [SUBSET D -> Nat] /\ Part(0, g)
    BY <2>1
  <2> HIDE DEF g, Part
  <2> QED BY <2>2
<1>4. ASSUME NEW n \in Nat, n \in S PROVE n + 1 \in S
  <2>1. PICK g \in [SUBSET D -> Nat] : Part(n, g)
    BY <1>4
  <2> DEFINE h == [s \in SUBSET D |-> IF s = {} THEN 0
                                      ELSE IF s \in Small(n) THEN g[s]
                                      ELSE f[First(s)] + g[s \ {First(s)}]]
  <2>2. ASSUME NEW s \in SUBSET D PROVE h[s] \in Nat
    <3>1. s # {} => First(s) \in D /\ s \ {First(s)} \in SUBSET D
      BY <1>2
    <3>2. CASE s = {} \/ s \in Small(n)
      BY <3>2
    <3>3. CASE s # {} /\ s \notin Small(n)
      <4>1. h[s] = f[First(s)] + g[s \ {First(s)}]
        BY <3>3
      <4>2. f[First(s)] \in Nat /\ g[s \ {First(s)}] \in Nat
        BY <3>1, <3>3
      <4> QED BY <4>1, <4>2
    <3> QED BY <3>2, <3>3
  <2>3. ASSUME NEW s \in Small(n + 1), s # {}
        PROVE  h[s] = f[First(s)] + h[s \ {First(s)}]
    <3> DEFINE r == s \ {First(s)}
    <3>1. r \in SUBSET D /\ Cardinality(r) = Cardinality(s) - 1
      BY <1>2, <2>3
    <3>2. r \in Small(n)
      BY <1>1, <3>1
    <3>3. g[r] = IF r = {} THEN 0 ELSE f[First(r)] + g[r \ {First(r)}]
      BY <2>1, <3>2
    <3>4. h[r] = g[r]
      BY <3>1, <3>2, <3>3
    <3>5. h[s] = f[First(s)] + g[r]
      <4>1. CASE s \in Small(n)
        BY <2>1, <2>3, <4>1
      <4>2. CASE s \notin Small(n)
        BY <2>3, <4>2
      <4> QED BY <4>1, <4>2
    <3> QED BY <3>4, <3>5
  <2>4. h[{}] = 0 /\ h \in [SUBSET D -> Nat]
    BY <2>2
  <2> HIDE DEF h
  <2>5. Part(n + 1, h)
    BY <2>3, <2>4
  <2> HIDE DEF Part
  <2> QED BY <2>4, <2>5
<1>5. Cardinality(D) \in Nat
  BY <1>1
<1>6. Cardinality(D) \in S
  <2> HIDE DEF S
  <2> QED BY <1>3, <1>4, <1>5, AllOf
<1>7. PICK g \in [SUBSET D -> Nat] : Part(Cardinality(D), g)
  BY <1>6
<1>8. \A s \in SUBSET D : s \in Small(Cardinality(D))
  BY <1>1, FS_Subset
<1>9. SumsOf(f, D, g)
  BY <1>7, <1>8 DEF SumsOf
<1> QED BY <1>9

LEMMA SumsTyped ==
    ASSUME NEW D, IsFiniteSet(D), NEW f \in [D -> Nat], NEW g, SumsOf(f, D, g)
    PROVE  \A T \in SUBSET D : g[T] \in Nat
<1> DEFINE S == {T \in SUBSET D : g[T] \in Nat}
<1>1. ASSUME NEW T \in SUBSET D, \A x \in T : T \ {x} \in S PROVE T \in S
  <2>1. CASE T = {}
    <3>1. g[{}] = 0
      BY DEF SumsOf
    <3> QED BY <2>1, <3>1
  <2>2. CASE T # {}
    <3>1. First(T) \in T /\ f[First(T)] \in Nat /\ g[T \ {First(T)}] \in Nat
      BY <1>1, <2>2, FirstIn
    <3>2. g[T] = f[First(T)] + g[T \ {First(T)}]
      BY <2>2 DEF SumsOf
    <3> QED BY <3>1, <3>2
  <2> QED BY <2>1, <2>2
<1> HIDE DEF S
<1>2. SUBSET D \subseteq S
  BY <1>1, AllSubsets
<1> QED BY <1>2 DEF S

(* It does not matter what is taken first.                                 *)
LEMMA SumsStep ==
    ASSUME NEW D, IsFiniteSet(D), NEW f \in [D -> Nat], NEW g, SumsOf(f, D, g)
    PROVE  g[{}] = 0 /\ \A T \in SUBSET D : \A x \in T : g[T] = f[x] + g[T \ {x}]
<1> DEFINE S == {T \in SUBSET D : \A x \in T : g[T] = f[x] + g[T \ {x}]}
<1>1. ASSUME NEW T \in SUBSET D, \A x \in T : T \ {x} \in S PROVE T \in S
  <2> SUFFICES ASSUME NEW x \in T PROVE g[T] = f[x] + g[T \ {x}]
    OBVIOUS
  <2> DEFINE c == First(T)
             r == (T \ {c}) \ {x}
  <2>1. c \in T /\ g[T] = f[c] + g[T \ {c}]
    <3>1. T # {}
      OBVIOUS
    <3> QED BY <3>1, FirstIn DEF SumsOf
  <2> HIDE DEF c
  <2>2. CASE x = c
    BY <2>1, <2>2
  <2>3. CASE x # c
    <3>1. g[T \ {c}] = f[x] + g[r]
      <4>1. x \in T \ {c}
        BY <2>3
      <4> QED BY <1>1, <2>1, <4>1
    <3>2. g[T \ {x}] = f[c] + g[r]
      <4>1. c \in T \ {x} /\ (T \ {x}) \ {c} = r
        BY <2>1, <2>3
      <4> QED BY <1>1, <4>1
    <3>3. f[c] \in Nat /\ f[x] \in Nat
      BY <2>1
    <3>4. g[r] \in Nat /\ g[T] \in Nat
      BY SumsTyped
    <3> HIDE DEF r
    <3> QED BY <2>1, <3>1, <3>2, <3>3, <3>4
  <2> QED BY <2>2, <2>3
<1> HIDE DEF S
<1>2. SUBSET D \subseteq S
  BY <1>1, AllSubsets
<1>3. g[{}] = 0
  BY DEF SumsOf
<1> QED BY <1>2, <1>3 DEF S

(* The sum of the library is that function.                                *)
LEMMA SumIs ==
    ASSUME NEW D, IsFiniteSet(D), NEW f \in [D -> Nat], NEW g, SumsOf(f, D, g),
           NEW T \in SUBSET D, NEW e, \A x \in T : e[x] = f[x]
    PROVE  SumFunctionOnSet(e, T) = g[T]
<1> DEFINE Turn(it) == [s \in SUBSET T |-> IF s = {} THEN 0 ELSE e[First(s)] + it[s \ {First(s)}]]
           iter == CHOOSE it : it = Turn(it)
           h == [s \in SUBSET T |-> g[s]]
<1>1. SumFunctionOnSet(e, T) = iter[T]
  BY DEF SumFunctionOnSet, FoldFunctionOnSet, MapThenFoldSet, First
<1>2. ASSUME NEW s \in SUBSET T, s # {}
      PROVE  First(s) \in s /\ e[First(s)] = f[First(s)] /\ s \ {First(s)} \in SUBSET T
  <2>1. First(s) \in s
    BY <1>2, FirstIn
  <2> QED BY <2>1
<1>3. h = Turn(h)
  <2>1. ASSUME NEW s \in SUBSET T PROVE h[s] = Turn(h)[s]
    <3>1. s \in SUBSET D /\ h[s] = g[s]
      OBVIOUS
    <3>2. CASE s = {}
      BY <3>1, <3>2 DEF SumsOf
    <3>3. CASE s # {}
      <4>1. g[s] = f[First(s)] + g[s \ {First(s)}]
        BY <3>1, <3>3 DEF SumsOf
      <4>2. h[s \ {First(s)}] = g[s \ {First(s)}] /\ e[First(s)] = f[First(s)]
        BY <1>2, <3>3
      <4>3. Turn(h)[s] = e[First(s)] + h[s \ {First(s)}]
        BY <3>3
      <4> QED BY <3>1, <4>1, <4>2, <4>3
    <3> QED BY <3>2, <3>3
  <2>2. DOMAIN h = SUBSET T /\ DOMAIN Turn(h) = SUBSET T
    OBVIOUS
  <2>3. h = [s \in SUBSET T |-> h[s]] /\ Turn(h) = [s \in SUBSET T |-> Turn(h)[s]]
    OBVIOUS
  <2> HIDE DEF h, Turn
  <2> QED BY <2>1, <2>3
<1> HIDE DEF h, Turn
<1>4. iter = Turn(iter)
  BY <1>3
<1> HIDE DEF iter
<1> DEFINE S == {s \in SUBSET T : iter[s] = g[s]}
<1>5. ASSUME NEW s \in SUBSET T, \A x \in s : s \ {x} \in S PROVE s \in S
  <2>1. iter[s] = IF s = {} THEN 0 ELSE e[First(s)] + iter[s \ {First(s)}]
    BY <1>4 DEF Turn
  <2>2. g[s] = IF s = {} THEN 0 ELSE f[First(s)] + g[s \ {First(s)}]
    BY DEF SumsOf
  <2>3. CASE s = {}
    BY <2>1, <2>2, <2>3
  <2>4. CASE s # {}
    <3>1. iter[s \ {First(s)}] = g[s \ {First(s)}] /\ e[First(s)] = f[First(s)]
      BY <1>2, <1>5, <2>4
    <3> QED BY <2>1, <2>2, <2>4, <3>1
  <2> QED BY <2>3, <2>4
<1> HIDE DEF S
<1>6. SUBSET T \subseteq S
  BY <1>5, AllSubsets, FS_Subset
<1>7. T \in S
  BY <1>6
<1> QED BY <1>1, <1>7 DEF S

(* What a sum is, by any of its members.                                   *)
LEMMA SumSteps ==
    ASSUME NEW D, IsFiniteSet(D), NEW f \in [D -> Nat]
    PROVE  /\ SumFunctionOnSet(f, {}) = 0
           /\ \A T \in SUBSET D : SumFunctionOnSet(f, T) \in Nat
           /\ \A T \in SUBSET D : \A x \in T : SumFunctionOnSet(f, T) = f[x] + SumFunctionOnSet(f, T \ {x})
           /\ SumFunction(f) = SumFunctionOnSet(f, D)
<1>1. PICK g : SumsOf(f, D, g)
  BY SumsExist
<1>2. \A T \in SUBSET D : SumFunctionOnSet(f, T) = g[T]
  BY <1>1, SumIs
<1>3. g[{}] = 0 /\ \A T \in SUBSET D : \A x \in T : g[T] = f[x] + g[T \ {x}]
  BY <1>1, SumsStep
<1>4. \A T \in SUBSET D : g[T] \in Nat
  BY <1>1, SumsTyped
<1>5. SumFunctionOnSet(f, {}) = 0 /\ \A T \in SUBSET D : SumFunctionOnSet(f, T) \in Nat
  BY <1>2, <1>3, <1>4
<1>6. ASSUME NEW T \in SUBSET D, NEW x \in T
      PROVE  SumFunctionOnSet(f, T) = f[x] + SumFunctionOnSet(f, T \ {x})
  <2>1. T \ {x} \in SUBSET D
    OBVIOUS
  <2> QED BY <1>2, <1>3, <2>1
<1>7. SumFunction(f) = SumFunctionOnSet(f, D)
  BY DEF SumFunction
<1> QED BY <1>5, <1>6, <1>7

(* Equal terms, equal sums.                                                *)
LEMMA SumSame ==
    ASSUME NEW D, IsFiniteSet(D), NEW f \in [D -> Nat], NEW T \in SUBSET D,
           NEW e, \A x \in T : e[x] = f[x]
    PROVE  SumFunctionOnSet(e, T) = SumFunctionOnSet(f, T)
<1>1. PICK g : SumsOf(f, D, g)
  BY SumsExist
<1>2. SumFunctionOnSet(e, T) = g[T] /\ SumFunctionOnSet(f, T) = g[T]
  BY <1>1, SumIs
<1> QED BY <1>2

(* Whatever begins with 0 and grows as the sum does is the sum; whatever   *)
(* grows by no more is no more.                                            *)
LEMMA SumEquals ==
    ASSUME NEW D, IsFiniteSet(D), NEW f \in [D -> Nat], NEW F, F[{}] = 0,
           \A T \in SUBSET D : \A x \in T : F[T] = f[x] + F[T \ {x}]
    PROVE  F[D] = SumFunction(f)
<1> DEFINE S == {T \in SUBSET D : F[T] = SumFunctionOnSet(f, T)}
<1>1. /\ SumFunctionOnSet(f, {}) = 0 /\ SumFunction(f) = SumFunctionOnSet(f, D)
      /\ \A T \in SUBSET D : \A x \in T : SumFunctionOnSet(f, T) = f[x] + SumFunctionOnSet(f, T \ {x})
  BY SumSteps
<1>2. ASSUME NEW T \in SUBSET D, \A x \in T : T \ {x} \in S PROVE T \in S
  <2>1. CASE T = {}
    BY <1>1, <2>1
  <2>2. CASE T # {}
    <3>1. PICK x \in T : TRUE
      BY <2>2
    <3>2. F[T \ {x}] = SumFunctionOnSet(f, T \ {x})
      BY <1>2
    <3> QED BY <1>1, <3>1, <3>2
  <2> QED BY <2>1, <2>2
<1> HIDE DEF S
<1>3. SUBSET D \subseteq S
  BY <1>2, AllSubsets
<1>4. D \in S
  BY <1>3
<1> QED BY <1>1, <1>4 DEF S

LEMMA SumAtLeast ==
    ASSUME NEW D, IsFiniteSet(D), NEW f \in [D -> Nat], NEW F, F[{}] = 0,
           \A T \in SUBSET D : F[T] \in Nat,
           \A T \in SUBSET D : \A x \in T : F[T] <= f[x] + F[T \ {x}]
    PROVE  F[D] <= SumFunction(f)
<1> DEFINE S == {T \in SUBSET D : F[T] <= SumFunctionOnSet(f, T)}
<1>1. /\ SumFunctionOnSet(f, {}) = 0 /\ SumFunction(f) = SumFunctionOnSet(f, D)
      /\ \A T \in SUBSET D : \A x \in T : SumFunctionOnSet(f, T) = f[x] + SumFunctionOnSet(f, T \ {x})
      /\ \A T \in SUBSET D : SumFunctionOnSet(f, T) \in Nat
  BY SumSteps
<1>2. ASSUME NEW T \in SUBSET D, \A x \in T : T \ {x} \in S PROVE T \in S
  <2>1. CASE T = {}
    BY <1>1, <2>1
  <2>2. CASE T # {}
    <3>1. PICK x \in T : TRUE
      BY <2>2
    <3>2. F[T \ {x}] <= SumFunctionOnSet(f, T \ {x})
      BY <1>2
    <3>3. SumFunctionOnSet(f, T) = f[x] + SumFunctionOnSet(f, T \ {x})
      BY <1>1, <3>1
    <3>4. F[T] <= f[x] + F[T \ {x}]
      BY <3>1
    <3>5. T \ {x} \in SUBSET D /\ f[x] \in Nat
      OBVIOUS
    <3>6. F[T] \in Nat /\ F[T \ {x}] \in Nat /\ SumFunctionOnSet(f, T \ {x}) \in Nat
      BY <1>1, <3>5
    <3>7. F[T] <= SumFunctionOnSet(f, T)
      BY <3>2, <3>3, <3>4, <3>5, <3>6
    <3> QED BY <3>7
  <2> QED BY <2>1, <2>2
<1> HIDE DEF S
<1>3. SUBSET D \subseteq S
  BY <1>2, AllSubsets
<1>4. D \in S
  BY <1>3
<1> QED BY <1>1, <1>4 DEF S

(* The same terms by other names have the same sum.                        *)
LEMMA SumRenamed ==
    ASSUME NEW D, IsFiniteSet(D), NEW f \in [D -> Nat], NEW E, NEW h \in [E -> D],
           \A x, y \in E : h[x] = h[y] => x = y, \A d \in D : \E x \in E : h[x] = d
    PROVE  SumFunction([x \in E |-> f[h[x]]]) = SumFunction(f)
<1> DEFINE e == [x \in E |-> f[h[x]]]
           Image(T) == {h[x] : x \in T}
           F == [T \in SUBSET E |-> SumFunctionOnSet(f, Image(T))]
<1>1. IsFiniteSet(E)
  <2> DEFINE g == [d \in D |-> CHOOSE x \in E : h[x] = d]
  <2>1. \A d \in D : g[d] \in E /\ h[g[d]] = d
    OBVIOUS
  <2>2. g \in [D -> E]
    BY <2>1
  <2> HIDE DEF g
  <2>3. \A x \in E : \E d \in D : g[d] = x
    BY <2>1
  <2>4. g \in Surjection(D, E)
    BY <2>2, <2>3 DEF Surjection
  <2> QED BY <2>4, FS_Surjection
<1>2. e \in [E -> Nat] /\ \A x \in E : e[x] = f[h[x]]
  OBVIOUS
<1>3. /\ SumFunctionOnSet(f, {}) = 0 /\ SumFunction(f) = SumFunctionOnSet(f, D)
      /\ \A T \in SUBSET D : \A x \in T : SumFunctionOnSet(f, T) = f[x] + SumFunctionOnSet(f, T \ {x})
  BY SumSteps
<1> HIDE DEF e
<1>4. F[{}] = 0
  <2>1. Image({}) = {}
    OBVIOUS
  <2> HIDE DEF Image
  <2> QED BY <1>3, <2>1
<1>5. ASSUME NEW T \in SUBSET E, NEW x \in T PROVE F[T] = e[x] + F[T \ {x}]
  <2>1. Image(T) \in SUBSET D /\ h[x] \in Image(T) /\ Image(T \ {x}) = Image(T) \ {h[x]}
    OBVIOUS
  <2> HIDE DEF Image
  <2>2. SumFunctionOnSet(f, Image(T)) = f[h[x]] + SumFunctionOnSet(f, Image(T) \ {h[x]})
    BY <1>3, <2>1
  <2>3. e[x] = f[h[x]]
    BY <1>2
  <2>4. F[T] = SumFunctionOnSet(f, Image(T)) /\ F[T \ {x}] = SumFunctionOnSet(f, Image(T \ {x}))
    OBVIOUS
  <2> QED BY <2>1, <2>2, <2>3, <2>4
<1>6. F[E] = SumFunctionOnSet(f, D)
  <2>1. Image(E) = D
    OBVIOUS
  <2> HIDE DEF Image
  <2> QED BY <2>1
<1> HIDE DEF F
<1>7. F[E] = SumFunction(e)
  <2>1. e \in [E -> Nat]
    BY <1>2
  <2>2. \A T \in SUBSET E : \A x \in T : F[T] = e[x] + F[T \ {x}]
    BY <1>5
  <2> QED BY ONLY <1>1, <1>4, <2>1, <2>2, SumEquals
<1> QED BY <1>3, <1>6, <1>7 DEF e

(* The size of a union is at most the sum of the sizes, and is that sum    *)
(* when the sets have nothing in common.                                   *)
Cover(I, Q) == UNION {I[m] : m \in Q}

LEMMA UnionSteps ==
    ASSUME NEW K, IsFiniteSet(K), NEW I, \A m \in K : IsFiniteSet(I[m])
    PROVE  \A Q \in SUBSET K :
               /\ IsFiniteSet(Cover(I, Q)) /\ Cardinality(Cover(I, Q)) \in Nat
               /\ \A m \in Q : Cover(I, Q) = I[m] \cup Cover(I, Q \ {m})
<1> DEFINE S == {Q \in SUBSET K : IsFiniteSet(Cover(I, Q))}
<1>1. \A Q \in SUBSET K : \A m \in Q : Cover(I, Q) = I[m] \cup Cover(I, Q \ {m})
  BY DEF Cover
<1>2. ASSUME NEW Q \in SUBSET K, \A m \in Q : Q \ {m} \in S PROVE Q \in S
  <2>1. CASE Q = {}
    <3>1. Cover(I, Q) = {}
      BY <2>1 DEF Cover
    <3> QED BY <3>1, FS_EmptySet
  <2>2. CASE Q # {}
    <3>1. PICK m \in Q : TRUE
      BY <2>2
    <3>2. IsFiniteSet(Cover(I, Q \ {m})) /\ IsFiniteSet(I[m])
      BY <1>2
    <3>3. Cover(I, Q) = I[m] \cup Cover(I, Q \ {m})
      BY <1>1
    <3>4. IsFiniteSet(Cover(I, Q))
      BY <3>2, <3>3, FS_Union
    <3> QED BY <3>4
  <2> QED BY <2>1, <2>2
<1> HIDE DEF S
<1>3. SUBSET K \subseteq S
  BY <1>2, AllSubsets
<1>4. \A Q \in SUBSET K : IsFiniteSet(Cover(I, Q))
  BY <1>3 DEF S
<1>5. \A Q \in SUBSET K : Cardinality(Cover(I, Q)) \in Nat
  BY <1>4, FS_CardinalityType
<1> QED BY <1>1, <1>4, <1>5

LEMMA UnionAtMost ==
    ASSUME NEW K, IsFiniteSet(K), NEW f \in [K -> Nat], NEW I,
           \A m \in K : IsFiniteSet(I[m]) /\ Cardinality(I[m]) = f[m]
    PROVE  Cardinality(Cover(I, K)) <= SumFunction(f)
<1> DEFINE F == [Q \in SUBSET K |-> Cardinality(Cover(I, Q))]
<1>1. \A Q \in SUBSET K : /\ IsFiniteSet(Cover(I, Q)) /\ Cardinality(Cover(I, Q)) \in Nat
                          /\ \A m \in Q : Cover(I, Q) = I[m] \cup Cover(I, Q \ {m})
  <2>1. \A m \in K : IsFiniteSet(I[m])
    OBVIOUS
  <2> QED BY ONLY IsFiniteSet(K), <2>1, UnionSteps
<1>2. Cover(I, {}) = {}
  BY DEF Cover
<1>3. F[{}] = 0
  BY <1>2, FS_EmptySet
<1>4. ASSUME NEW Q \in SUBSET K, NEW m \in Q PROVE F[Q] <= f[m] + F[Q \ {m}]
  <2> DEFINE R == Q \ {m}
  <2>1. R \in SUBSET K /\ IsFiniteSet(I[m]) /\ Cardinality(I[m]) = f[m] /\ f[m] \in Nat
    OBVIOUS
  <2>2. IsFiniteSet(Cover(I, R)) /\ Cardinality(Cover(I, R)) \in Nat /\ Cover(I, Q) = I[m] \cup Cover(I, R)
    BY <1>1, <2>1
  <2> HIDE DEF R
  <2>3. /\ Cardinality(I[m] \cup Cover(I, R)) = Cardinality(I[m]) + Cardinality(Cover(I, R))
                                                          - Cardinality(I[m] \cap Cover(I, R))
        /\ Cardinality(I[m] \cap Cover(I, R)) \in Nat
    <3>1. IsFiniteSet(I[m] \cap Cover(I, R))
      BY <2>1, FS_Intersection
    <3> QED BY <2>1, <2>2, <3>1, FS_Union, FS_CardinalityType
  <2>4. Cardinality(Cover(I, Q)) <= f[m] + Cardinality(Cover(I, R))
    BY <2>1, <2>2, <2>3
  <2>5. F[Q] = Cardinality(Cover(I, Q)) /\ F[R] = Cardinality(Cover(I, R))
    BY <2>1
  <2> QED BY <2>4, <2>5 DEF R
<1>5. (\A Q \in SUBSET K : F[Q] \in Nat) /\ F[K] = Cardinality(Cover(I, K))
  BY <1>1
<1> HIDE DEF F
<1>6. F[K] <= SumFunction(f)
  BY <1>3, <1>4, <1>5, SumAtLeast
<1> QED BY <1>5, <1>6

LEMMA UnionIsSum ==
    ASSUME NEW K, IsFiniteSet(K), NEW f \in [K -> Nat], NEW I,
           \A m \in K : IsFiniteSet(I[m]) /\ Cardinality(I[m]) = f[m],
           \A m, k \in K : m # k => I[m] \cap I[k] = {}
    PROVE  Cardinality(Cover(I, K)) = SumFunction(f)
<1> DEFINE F == [Q \in SUBSET K |-> Cardinality(Cover(I, Q))]
<1>1. \A Q \in SUBSET K : /\ IsFiniteSet(Cover(I, Q)) /\ Cardinality(Cover(I, Q)) \in Nat
                          /\ \A m \in Q : Cover(I, Q) = I[m] \cup Cover(I, Q \ {m})
  <2>1. \A m \in K : IsFiniteSet(I[m])
    OBVIOUS
  <2> QED BY ONLY IsFiniteSet(K), <2>1, UnionSteps
<1>2. Cover(I, {}) = {}
  BY DEF Cover
<1>3. ASSUME NEW Q \in SUBSET K, NEW m \in Q PROVE I[m] \cap Cover(I, Q \ {m}) = {}
  BY DEF Cover
<1>4. F[{}] = 0
  BY <1>2, FS_EmptySet
<1>5. ASSUME NEW Q \in SUBSET K, NEW m \in Q PROVE F[Q] = f[m] + F[Q \ {m}]
  <2> DEFINE R == Q \ {m}
  <2>1. R \in SUBSET K /\ IsFiniteSet(I[m]) /\ Cardinality(I[m]) = f[m] /\ f[m] \in Nat
    OBVIOUS
  <2>2. IsFiniteSet(Cover(I, R)) /\ Cardinality(Cover(I, R)) \in Nat /\ Cover(I, Q) = I[m] \cup Cover(I, R)
    BY <1>1, <2>1
  <2>3. I[m] \cap Cover(I, R) = {}
    BY <1>3
  <2> HIDE DEF R
  <2>4. Cardinality(I[m] \cup Cover(I, R)) = Cardinality(I[m]) + Cardinality(Cover(I, R)) - Cardinality({})
    BY <2>1, <2>2, <2>3, FS_Union
  <2>5. Cardinality(Cover(I, Q)) = f[m] + Cardinality(Cover(I, R))
    BY <2>1, <2>2, <2>4, FS_EmptySet
  <2>6. F[Q] = Cardinality(Cover(I, Q)) /\ F[R] = Cardinality(Cover(I, R))
    BY <2>1
  <2> QED BY <2>5, <2>6 DEF R
<1>6. F[K] = Cardinality(Cover(I, K))
  OBVIOUS
<1> HIDE DEF F
<1>7. F[K] = SumFunction(f)
  BY <1>4, <1>5, SumEquals
<1> QED BY <1>6, <1>7

(***************************************************************************)
(* Time of records                                                         *)
(***************************************************************************)
Entry == [id : Nat, start : 0 .. LastInstant, end : Int, of : Profiles,
          cat : Labels \cup {Unclassified}]

LEMMA EntryTyped ==
    ASSUME NEW r \in Entry
    PROVE  /\ r.id \in Nat /\ r.start \in Nat /\ r.start <= LastInstant /\ r.end \in Int
           /\ Span(r) \in Nat /\ Span(r) <= Plausible
           /\ Until(r) \in Nat /\ Until(r) = r.start + Span(r)
<1>1. LastInstant \in Nat /\ Plausible \in Nat
  BY StatsAssumption
<1>2. r.id \in Nat /\ r.start \in 0 .. LastInstant /\ r.end \in Int
  BY DEF Entry
<1>3. Span(r) \in Nat /\ Span(r) <= Plausible
  BY <1>1, <1>2 DEF Span
<1> QED BY <1>1, <1>2, <1>3 DEF Until

LEMMA TimeSteps ==
    ASSUME NEW D, IsFiniteSet(D), D \subseteq Entry
    PROVE  /\ TimeOf({}) = 0
           /\ \A T \in SUBSET D : TimeOf(T) \in Nat
           /\ \A T \in SUBSET D : \A x \in T : TimeOf(T) = Span(x) + TimeOf(T \ {x})
<1> DEFINE f == [r \in D |-> Span(r)]
<1>1. f \in [D -> Nat]
  BY EntryTyped
<1>2. ASSUME NEW T \in SUBSET D PROVE TimeOf(T) = SumFunctionOnSet(f, T)
  <2> DEFINE e == [r \in T |-> Span(r)]
  <2>1. DOMAIN e = T /\ \A r \in T : e[r] = f[r]
    OBVIOUS
  <2>2. TimeOf(T) = SumFunctionOnSet(e, DOMAIN e)
    BY DEF TimeOf, SumFunction
  <2> HIDE DEF e, f
  <2> QED BY <1>1, <2>1, <2>2, SumSame
<1>3. \A x \in D : f[x] = Span(x)
  OBVIOUS
<1> HIDE DEF f
<1>4. /\ SumFunctionOnSet(f, {}) = 0 /\ \A T \in SUBSET D : SumFunctionOnSet(f, T) \in Nat
      /\ \A T \in SUBSET D : \A x \in T : SumFunctionOnSet(f, T) = f[x] + SumFunctionOnSet(f, T \ {x})
  BY ONLY IsFiniteSet(D), <1>1, SumSteps
<1>5. ASSUME NEW T \in SUBSET D, NEW x \in T PROVE TimeOf(T) = Span(x) + TimeOf(T \ {x})
  <2>1. T \ {x} \in SUBSET D /\ x \in D
    OBVIOUS
  <2> QED BY <1>2, <1>3, <1>4, <2>1
<1> QED BY <1>2, <1>4, <1>5

LEMMA TimeAdds ==
    ASSUME NEW D, IsFiniteSet(D), D \subseteq Entry, NEW A \in SUBSET D, NEW B \in SUBSET D,
           A \cap B = {}
    PROVE  TimeOf(A \cup B) = TimeOf(A) + TimeOf(B)
<1> DEFINE S == {T \in SUBSET D : A \cap T = {} => TimeOf(A \cup T) = TimeOf(A) + TimeOf(T)}
<1>1. /\ TimeOf({}) = 0 /\ \A T \in SUBSET D : TimeOf(T) \in Nat
      /\ \A T \in SUBSET D : \A x \in T : TimeOf(T) = Span(x) + TimeOf(T \ {x})
  BY TimeSteps
<1>2. ASSUME NEW T \in SUBSET D, \A x \in T : T \ {x} \in S PROVE T \in S
  <2> SUFFICES ASSUME A \cap T = {} PROVE TimeOf(A \cup T) = TimeOf(A) + TimeOf(T)
    OBVIOUS
  <2>1. CASE T = {}
    <3>1. A \cup T = A /\ TimeOf(A) \in Nat
      BY <1>1, <2>1
    <3> QED BY <1>1, <2>1, <3>1
  <2>2. CASE T # {}
    <3>1. PICK x \in T : TRUE
      BY <2>2
    <3> DEFINE R == T \ {x}
    <3>2. A \cap R = {} /\ R \in S /\ (A \cup T) \ {x} = A \cup R /\ x \in A \cup T
      BY <1>2
    <3>3. TimeOf(A \cup R) = TimeOf(A) + TimeOf(R)
      BY <3>2
    <3>4. A \cup T \in SUBSET D /\ A \cup R \in SUBSET D /\ R \in SUBSET D /\ x \in D
      OBVIOUS
    <3>5. TimeOf(A \cup T) = Span(x) + TimeOf(A \cup R) /\ TimeOf(T) = Span(x) + TimeOf(R)
      BY <1>1, <3>2, <3>4
    <3>6. TimeOf(A) \in Nat /\ TimeOf(R) \in Nat /\ Span(x) \in Nat
      BY <1>1, <3>4, EntryTyped
    <3> HIDE DEF R
    <3> QED BY <3>3, <3>5, <3>6
  <2> QED BY <2>1, <2>2
<1> HIDE DEF S
<1>3. SUBSET D \subseteq S
  BY <1>2, AllSubsets
<1> QED BY <1>3 DEF S

LEMMA TimeGrows ==
    ASSUME NEW D, IsFiniteSet(D), D \subseteq Entry, NEW B \in SUBSET D, NEW A \in SUBSET B
    PROVE  TimeOf(A) <= TimeOf(B) /\ TimeOf(A) \in Nat /\ TimeOf(B) \in Nat
<1>1. A \in SUBSET D /\ B \ A \in SUBSET D /\ A \cap (B \ A) = {} /\ A \cup (B \ A) = B
  OBVIOUS
<1>2. TimeOf(B) = TimeOf(A) + TimeOf(B \ A)
  BY <1>1, TimeAdds
<1>3. TimeOf(A) \in Nat /\ TimeOf(B \ A) \in Nat
  BY <1>1, TimeSteps
<1> QED BY <1>2, <1>3

(* The records that count for a metric.                                    *)
Counted(metric, M) == {r \in M : metric = "seconds_by_app" => r.of.app # NoApp}

(* All keys together have the time of all the records that count.          *)
LEMMA TotalIs ==
    ASSUME NEW M, IsFiniteSet(M), M \subseteq Entry, NEW metric \in Metrics
    PROVE  Total(ByKey(metric, M)) = TimeOf(Counted(metric, M))
<1> DEFINE key == [r \in M |-> KeyOf(metric, r)]
           with(Q) == {r \in M : key[r] \in Q}
           K == {key[r] : r \in M} \ (IF metric = "seconds_by_app" THEN {NoApp} ELSE {})
           f == [k \in K |-> TimeOf({r \in M : key[r] = k})]
           F == [Q \in SUBSET K |-> TimeOf(with(Q))]
<1>1. ByKey(metric, M) = f
  <2>1. {KeyOf(metric, r) : r \in M} = {key[r] : r \in M}
    OBVIOUS
  <2>2. \A k : {r \in M : KeyOf(metric, r) = k} = {r \in M : key[r] = k}
    OBVIOUS
  <2> HIDE DEF key
  <2> QED BY <2>1, <2>2 DEF ByKey
<1>2. \A r \in M : metric = "seconds_by_app" => key[r] = r.of.app
  BY DEF KeyOf
<1> HIDE DEF key
<1>3. IsFiniteSet(K)
  <2> DEFINE all == {key[r] : r \in M}
             h == [r \in M |-> key[r]]
  <2>1. h \in [M -> all] /\ \A k \in all : \E r \in M : h[r] = k
    OBVIOUS
  <2> HIDE DEF h, all
  <2>2. h \in Surjection(M, all)
    BY <2>1 DEF Surjection
  <2>3. IsFiniteSet(all)
    BY <2>2, FS_Surjection
  <2>4. K \in SUBSET all
    BY DEF all
  <2> HIDE DEF K
  <2> QED BY <2>3, <2>4, FS_Subset
<1>4. /\ TimeOf({}) = 0 /\ \A T \in SUBSET M : TimeOf(T) \in Nat
  BY TimeSteps
<1>5. f \in [K -> Nat]
  BY <1>4
<1>6. F[{}] = 0
  <2>1. with({}) = {}
    OBVIOUS
  <2> HIDE DEF with
  <2> QED BY <1>4, <2>1
<1>7. ASSUME NEW Q \in SUBSET K, NEW k \in Q PROVE F[Q] = f[k] + F[Q \ {k}]
  <2> DEFINE A == {r \in M : key[r] = k}
             B == with(Q \ {k})
  <2>1. A \in SUBSET M /\ B \in SUBSET M /\ A \cap B = {} /\ A \cup B = with(Q)
    OBVIOUS
  <2>2. f[k] = TimeOf(A) /\ F[Q] = TimeOf(with(Q)) /\ F[Q \ {k}] = TimeOf(B)
    OBVIOUS
  <2> HIDE DEF A, B, with, f, F
  <2>3. TimeOf(A \cup B) = TimeOf(A) + TimeOf(B)
    BY <2>1, TimeAdds
  <2> QED BY <2>1, <2>2, <2>3
<1>8. with(K) = Counted(metric, M)
  BY <1>2 DEF Counted
<1>9. F[K] = TimeOf(Counted(metric, M))
  BY <1>8
<1> HIDE DEF f, F, K, with
<1>10. F[K] = SumFunction(f)
  BY <1>3, <1>5, <1>6, <1>7, SumEquals
<1> QED BY <1>1, <1>9, <1>10 DEF Total

(***************************************************************************)
(* Active time                                                             *)
(***************************************************************************)
LEMMA MostOf ==
    ASSUME NEW S, S \subseteq Nat, S # {}, NEW b \in Nat, \A x \in S : x <= b
    PROVE  Max(S) \in S /\ \A y \in S : y <= Max(S)
<1> DEFINE B == {c \in Nat : \A x \in S : x <= c}
           m == Min(B)
<1>1. m \in B /\ \A y \in B : m <= y
  <2>1. b \in B /\ B \subseteq Nat
    OBVIOUS
  <2> HIDE DEF B
  <2> QED BY <2>1, LeastOf
<1> HIDE DEF m
<1>2. m \in Nat /\ \A x \in S : x <= m
  BY <1>1
<1>3. m \in S
  <2> SUFFICES ASSUME m \notin S PROVE FALSE
    OBVIOUS
  <2>1. PICK x \in S : TRUE
    OBVIOUS
  <2>2. m - 1 \in Nat
    BY <1>2, <2>1
  <2>3. ASSUME NEW y \in S PROVE y <= m - 1
    BY <1>2
  <2>4. m - 1 \in B
    BY <2>2, <2>3
  <2> QED BY <1>1, <1>2, <2>4
<1> QED BY <1>2, <1>3 DEF Max

(* What the segments of the intervals in the order of their starts are: of *)
(* two segments the first has ended when the second begins, and wherever   *)
(* one begins, a new number does.                                          *)
Segmented(n, begin, finish, g) ==
    /\ g \in [1 .. n -> Nat]
    /\ \A i, j \in 1 .. n : g[i] < g[j] => finish[i] < begin[j]
    /\ \A i, j, k \in 1 .. n : /\ begin[i] < begin[k] /\ begin[k] <= begin[j]
                               /\ \A h \in 1 .. k - 1 : finish[h] < begin[k]
                               => g[i] < g[j]

LEMMA SegmentsAre ==
    ASSUME NEW n \in Nat, NEW seq \in [1 .. n -> Entry],
           NEW begin \in [1 .. n -> Nat], NEW finish \in [1 .. n -> Nat],
           \A i \in 1 .. n : begin[i] = seq[i].start /\ finish[i] = Until(seq[i]),
           \A i, j \in 1 .. n : i < j => begin[i] <= begin[j]
    PROVE  Segmented(n, begin, finish, Segments(seq))
<1> DEFINE g == Segments(seq)
           first == {k \in 1 .. n : \A h \in 1 .. k - 1 : finish[h] < begin[k]}
           upto(i) == {k \in first : begin[k] <= begin[i]}
<1>1. g = [i \in 1 .. n |-> Cardinality(upto(i))]
  <2>1. DOMAIN seq = 1 .. n
    OBVIOUS
  <2>2. ASSUME NEW k \in 1 .. n PROVE Begins(seq, k) <=> \A h \in 1 .. k - 1 : finish[h] < begin[k]
    <3>1. \A h \in 1 .. k - 1 : h \in 1 .. n
      OBVIOUS
    <3>2. \A h \in 1 .. k - 1 : Until(seq[h]) = finish[h] /\ seq[k].start = begin[k]
      BY <3>1
    <3> QED BY <3>2 DEF Begins
  <2>3. first = {k \in DOMAIN seq : Begins(seq, k)}
    BY <2>1, <2>2
  <2> DEFINE at(i) == {k \in first : seq[k].start <= seq[i].start}
  <2>4. ASSUME NEW i \in 1 .. n PROVE at(i) = upto(i)
    OBVIOUS
  <2>5. g = [i \in 1 .. n |-> Cardinality(at(i))]
    <3> HIDE DEF first
    <3> QED BY <2>1, <2>3 DEF Segments
  <2> HIDE DEF g, at, upto
  <2> QED BY <2>4, <2>5
<1>2. \A i \in 1 .. n : IsFiniteSet(upto(i))
  <2>1. IsFiniteSet(1 .. n) /\ \A i \in 1 .. n : upto(i) \in SUBSET (1 .. n)
    BY FS_Interval
  <2> HIDE DEF upto
  <2> QED BY <2>1, FS_Subset
<1>3. \A i \in 1 .. n : g[i] = Cardinality(upto(i)) /\ Cardinality(upto(i)) \in Nat
  <2>1. \A i \in 1 .. n : g[i] = Cardinality(upto(i))
    BY <1>1
  <2> HIDE DEF g, upto
  <2> QED BY <1>2, <2>1, FS_CardinalityType
<1>4. g \in [1 .. n -> Nat]
  <2> HIDE DEF upto
  <2> QED BY <1>1, <1>3
<1> HIDE DEF g
<1>5. ASSUME NEW i \in 1 .. n, NEW j \in 1 .. n, g[i] < g[j] PROVE finish[i] < begin[j]
  <2>1. PICK k \in upto(j) : k \notin upto(i)
    <3> SUFFICES ASSUME upto(j) \subseteq upto(i) PROVE FALSE
      OBVIOUS
    <3> HIDE DEF upto
    <3>1. Cardinality(upto(j)) <= Cardinality(upto(i))
      BY <1>2, FS_Subset
    <3> QED BY <1>3, <1>5, <3>1
  <2>2. k \in 1 .. n /\ begin[k] <= begin[j] /\ ~(begin[k] <= begin[i])
    BY <2>1
  <2>3. i \in 1 .. k - 1
    <3>1. CASE k < i
      BY <2>2, <3>1
    <3>2. CASE k = i
      BY <2>2, <3>2
    <3> QED BY <2>2, <3>1, <3>2
  <2>4. finish[i] < begin[k]
    BY <2>1, <2>3
  <2>5. finish[i] \in Nat /\ begin[k] \in Nat /\ begin[j] \in Nat
    BY <2>2
  <2> QED BY <2>2, <2>4, <2>5
<1>6. ASSUME NEW i \in 1 .. n, NEW j \in 1 .. n, NEW k \in 1 .. n,
             begin[i] < begin[k], begin[k] <= begin[j], \A h \in 1 .. k - 1 : finish[h] < begin[k]
      PROVE  g[i] < g[j]
  <2>1. begin[i] \in Nat /\ begin[j] \in Nat /\ begin[k] \in Nat
    OBVIOUS
  <2>2. upto(i) \subseteq upto(j)
    BY <1>6, <2>1
  <2>3. k \in upto(j) /\ k \notin upto(i)
    BY <1>6, <2>1
  <2> HIDE DEF upto
  <2>4. Cardinality(upto(i)) <= Cardinality(upto(j)) /\ Cardinality(upto(i)) # Cardinality(upto(j))
    BY <1>2, <2>2, <2>3, FS_Subset
  <2> QED BY <1>3, <2>4
<1> QED BY <1>4, <1>5, <1>6 DEF Segmented, g

LEMMA ActiveIs ==
    ASSUME NEW S, IsFiniteSet(S), S \subseteq Entry
    PROVE  /\ Cardinality(Active(S)) <= TimeOf(S)
           /\ Disjoint(S) => Cardinality(Active(S)) = TimeOf(S)
<1> DEFINE I == [r \in S |-> r.start .. Until(r) - 1]
           f == [r \in S |-> Span(r)]
<1>1. \A r \in S : /\ r.start \in Nat /\ Until(r) \in Nat /\ Span(r) \in Nat /\ Span(r) <= Plausible
                   /\ Until(r) = r.start + Span(r) /\ r.start <= LastInstant
  BY EntryTyped
<1>2. ASSUME NEW r \in S PROVE IsFiniteSet(I[r]) /\ Cardinality(I[r]) = f[r]
  <2>1. r.start \in Int /\ Until(r) - 1 \in Int /\ I[r] = r.start .. Until(r) - 1 /\ f[r] = Span(r)
    BY <1>1
  <2>2. IsFiniteSet(I[r]) /\ Cardinality(I[r]) = IF r.start > Until(r) - 1 THEN 0
                                                 ELSE Until(r) - 1 - r.start + 1
    BY <2>1, FS_Interval
  <2> HIDE DEF I, f
  <2> QED BY <1>1, <2>1, <2>2
<1>3. Active(S) = Cover(I, S)
  <2>1. ASSUME NEW t \in Active(S) PROVE t \in Cover(I, S)
    <3>1. PICK r \in S : r.start <= t /\ t < Until(r)
      BY DEF Active
    <3>2. t \in Int
      BY DEF Active
    <3>3. t \in I[r]
      BY <1>1, <3>1, <3>2
    <3> QED BY <3>3 DEF Cover
  <2>2. ASSUME NEW t \in Cover(I, S) PROVE t \in Active(S)
    <3>1. PICK r \in S : t \in I[r]
      BY DEF Cover
    <3>2. t \in Int /\ r.start <= t /\ t < Until(r)
      BY <1>1, <3>1
    <3>3. t \in 0 .. LastInstant + Plausible
      BY <1>1, <3>2, StatsAssumption
    <3> QED BY <3>2, <3>3 DEF Active
  <2> QED BY <2>1, <2>2
<1>4. f \in [S -> Nat]
  BY <1>1
<1>5. TimeOf(S) = SumFunction(f)
  BY DEF TimeOf
<1>6. ASSUME Disjoint(S), NEW r \in S, NEW q \in S, r # q PROVE I[r] \cap I[q] = {}
  <2>1. Until(r) <= q.start \/ Until(q) <= r.start
    BY <1>6 DEF Disjoint
  <2>2. I[r] = r.start .. Until(r) - 1 /\ I[q] = q.start .. Until(q) - 1
    OBVIOUS
  <2> HIDE DEF I
  <2> QED BY <1>1, <2>1, <2>2
<1> HIDE DEF I, f
<1>7. Cardinality(Cover(I, S)) <= SumFunction(f)
  BY <1>2, <1>4, UnionAtMost
<1>8. ASSUME Disjoint(S) PROVE Cardinality(Cover(I, S)) = SumFunction(f)
  <2>1. \A r, q \in S : r # q => I[r] \cap I[q] = {}
    BY <1>6, <1>8
  <2> QED BY <1>2, <1>4, <2>1, UnionIsSum
<1> QED BY <1>3, <1>5, <1>7, <1>8

(* From where to where the segment of each one reaches.                    *)
Rising(n, begin) == \A i, j \in 1 .. n : i < j => begin[i] <= begin[j]
Reach(n, begin, finish, g, low, high) ==
    /\ \A i \in 1 .. n : low[i] <= begin[i] /\ finish[i] <= high[i]
    /\ \A i \in 1 .. n : \E j \in 1 .. n : g[j] = g[i] /\ begin[j] = low[i]
    /\ \A i \in 1 .. n : \E j \in 1 .. n : g[j] = g[i] /\ finish[j] = high[i]

(* The segments are disjoint stretches that make up the active time.       *)
LEMMA SegmentsCover ==
    ASSUME NEW n \in Nat, NEW begin \in [1 .. n -> Nat], NEW finish \in [1 .. n -> Nat], NEW g,
           NEW low \in [1 .. n -> Nat], NEW high \in [1 .. n -> Nat],
           Segmented(n, begin, finish, g), Rising(n, begin), Reach(n, begin, finish, g, low, high)
    PROVE  /\ \A t \in Nat : (\E i \in 1 .. n : low[i] <= t /\ t < high[i])
                                  <=> (\E i \in 1 .. n : begin[i] <= t /\ t < finish[i])
           /\ \A i, j \in 1 .. n : g[i] < g[j] => high[i] <= low[j]
<1>1. ASSUME NEW t \in Nat, NEW i \in 1 .. n, begin[i] <= t, t < finish[i]
      PROVE  low[i] <= t /\ t < high[i]
  <2>1. low[i] <= begin[i] /\ finish[i] <= high[i]
    BY DEF Reach
  <2>2. low[i] \in Nat /\ high[i] \in Nat /\ begin[i] \in Nat /\ finish[i] \in Nat
    OBVIOUS
  <2> QED BY <1>1, <2>1, <2>2
<1>2. ASSUME NEW t \in Nat, NEW m \in 1 .. n, low[m] <= t, t < high[m]
      PROVE  \E j \in 1 .. n : begin[j] <= t /\ t < finish[j]
  <2>1. PICK i \in 1 .. n : g[i] = g[m] /\ begin[i] = low[m]
    BY DEF Reach
  <2>2. PICK u \in 1 .. n : g[u] = g[m] /\ finish[u] = high[m]
    BY DEF Reach
  <2>3. begin[u] \in Nat
    OBVIOUS
  <2>4. CASE begin[u] <= t
    <3>1. t < finish[u]
      BY <1>2, <2>2
    <3> QED BY <2>4, <3>1
  <2>5. CASE ~(begin[u] <= t)
    <3> DEFINE V == {k \in 1 .. n : begin[k] > t}
               k == Min(V)
    <3>1. u \in V /\ V \subseteq Nat
      BY <2>3, <2>5
    <3>2. k \in V /\ \A x \in V : k <= x
      <4> HIDE DEF V
      <4> QED BY <3>1, LeastOf
    <3> HIDE DEF k
    <3>3. k \in 1 .. n /\ begin[k] > t /\ k <= u
      BY <3>1, <3>2
    <3>4. ASSUME NEW j \in 1 .. k - 1 PROVE j \in 1 .. n /\ begin[j] <= t
      <4>1. j \in 1 .. n /\ ~(k <= j)
        BY <3>3
      <4>2. j \notin V
        BY <3>2, <4>1
      <4>3. begin[j] \in Nat
        BY <4>1
      <4> QED BY <4>1, <4>2, <4>3
    <3> HIDE DEF V
    <3>5. CASE \E j \in 1 .. k - 1 : t < finish[j]
      BY <3>4, <3>5
    <3>6. CASE \A j \in 1 .. k - 1 : ~(t < finish[j])
      <4>1. ASSUME NEW j \in 1 .. k - 1 PROVE finish[j] < begin[k]
        <5>1. j \in 1 .. n
          BY <3>4
        <5>2. finish[j] \in Nat /\ begin[k] \in Nat
          BY <3>3, <5>1
        <5>3. ~(t < finish[j])
          BY <3>6
        <5>4. t \in Nat /\ begin[k] > t
          BY <3>3
        <5> QED BY ONLY <5>2, <5>3, <5>4
      <4>2. begin[i] < begin[k]
        <5>1. begin[i] \in Nat /\ begin[k] \in Nat
          BY <3>3
        <5> QED BY <1>2, <2>1, <3>3, <5>1
      <4>3. begin[k] <= begin[u]
        <5>1. k = u \/ k < u
          BY <3>3
        <5>2. begin[k] \in Nat
          BY <3>3
        <5> QED BY <3>3, <5>1, <5>2 DEF Rising
      <4>4. g[i] < g[u]
        BY <3>3, <4>1, <4>2, <4>3 DEF Segmented
      <4>5. g[m] \in Nat
        BY DEF Segmented
      <4>6. g[m] < g[m]
        BY <2>1, <2>2, <4>4
      <4> QED BY ONLY <4>5, <4>6
    <3> QED BY <3>5, <3>6
  <2> QED BY <2>4, <2>5
<1>3. ASSUME NEW i \in 1 .. n, NEW j \in 1 .. n, g[i] < g[j] PROVE high[i] <= low[j]
  <2>1. PICK u \in 1 .. n : g[u] = g[i] /\ finish[u] = high[i]
    BY DEF Reach
  <2>2. PICK v \in 1 .. n : g[v] = g[j] /\ begin[v] = low[j]
    BY DEF Reach
  <2>3. finish[u] < begin[v]
    BY <1>3, <2>1, <2>2 DEF Segmented
  <2>4. finish[u] \in Nat /\ begin[v] \in Nat
    OBVIOUS
  <2> QED BY <2>1, <2>2, <2>3, <2>4
<1>4. \A t \in Nat : (\E i \in 1 .. n : low[i] <= t /\ t < high[i])
                         <=> (\E i \in 1 .. n : begin[i] <= t /\ t < finish[i])
  BY <1>1, <1>2
<1> QED BY <1>3, <1>4

(* From where to where a segment reaches.                                  *)
Reaches(M, lo, hi) ==
    /\ lo \in Nat /\ hi \in Nat /\ lo <= hi /\ Length(M) = hi - lo
    /\ \A r \in M : lo <= r.start /\ Until(r) <= hi
    /\ \E r \in M : r.start = lo
    /\ \E r \in M : Until(r) = hi

LEMMA LengthIs ==
    ASSUME NEW M, M \subseteq Entry, M # {}
    PROVE  Reaches(M, Min({r.start : r \in M}), Max({Until(r) : r \in M}))
<1> DEFINE starts == {r.start : r \in M}
           untils == {Until(r) : r \in M}
           lo == Min(starts)
           hi == Max(untils)
<1>1. \A r \in M : /\ r.start \in Nat /\ Until(r) \in Nat /\ Until(r) <= LastInstant + Plausible
                   /\ r.start <= Until(r)
  <2>1. SUFFICES ASSUME NEW r \in M
                 PROVE  /\ r.start \in Nat /\ Until(r) \in Nat /\ Until(r) <= LastInstant + Plausible
                        /\ r.start <= Until(r)
    OBVIOUS
  <2>2. r \in Entry
    OBVIOUS
  <2>3. /\ r.start \in Nat /\ r.start <= LastInstant /\ Span(r) \in Nat /\ Span(r) <= Plausible
        /\ Until(r) \in Nat /\ Until(r) = r.start + Span(r)
    BY <2>2, EntryTyped
  <2>4. LastInstant \in Nat /\ Plausible \in Nat
    BY StatsAssumption
  <2> QED BY <2>3, <2>4
<1>2. starts \subseteq Nat /\ starts # {} /\ untils \subseteq Nat /\ untils # {}
  BY <1>1
<1>3. LastInstant + Plausible \in Nat /\ \A x \in untils : x <= LastInstant + Plausible
  BY <1>1, StatsAssumption
<1>4. Length(M) = hi - lo /\ lo = Min(starts) /\ hi = Max(untils)
  BY DEF Length
<1> HIDE DEF starts, untils, lo, hi
<1>5. lo \in starts /\ \A y \in starts : lo <= y
  BY <1>2, <1>4, LeastOf
<1>6. hi \in untils /\ \A y \in untils : y <= hi
  BY <1>2, <1>3, <1>4, MostOf
<1> USE DEF starts, untils
<1>7. PICK r \in M : r.start = lo
  BY <1>5
<1>8. \A q \in M : lo <= q.start /\ Until(q) <= hi
  BY <1>5, <1>6
<1>9. \E q \in M : Until(q) = hi
  BY <1>6
<1>10. lo \in Nat /\ hi \in Nat
  BY <1>2, <1>5, <1>6
<1>11. lo <= Until(r) /\ Until(r) <= hi /\ Until(r) \in Nat
  BY <1>1, <1>7, <1>8
<1> HIDE DEF starts, untils
<1>12. lo <= hi
  BY <1>10, <1>11
<1>13. Reaches(M, lo, hi)
  BY <1>4, <1>7, <1>8, <1>9, <1>10, <1>12 DEF Reaches
<1> QED BY <1>13 DEF lo, hi, starts, untils

(* The window functions compute the active time.                           *)
LEMMA WallIs ==
    ASSUME NEW S, IsFiniteSet(S), S \subseteq Entry, NEW seq \in ByStart(S)
    PROVE  WallTime(seq) = Cardinality(Active(S))
<1> DEFINE n == Len(seq)
           begin == [i \in 1 .. n |-> seq[i].start]
           finish == [i \in 1 .. n |-> Until(seq[i])]
           g == Segments(seq)
           part(m) == {seq[i] : i \in {j \in DOMAIN seq : g[j] = m}}
           K == Range(g)
           lo == [m \in K |-> Min({r.start : r \in part(m)})]
           hi == [m \in K |-> Max({Until(r) : r \in part(m)})]
           low == [i \in 1 .. n |-> lo[g[i]]]
           high == [i \in 1 .. n |-> hi[g[i]]]
           length == [m \in K |-> Length(part(m))]
           I == [m \in K |-> lo[m] .. hi[m] - 1]
<1>1. /\ n \in Nat /\ DOMAIN seq = 1 .. n /\ seq \in [1 .. n -> Entry] /\ S = {seq[i] : i \in 1 .. n}
      /\ \A i, j \in 1 .. n : i < j => seq[i].start <= seq[j].start
  <2>1. seq \in SetToSeqs(S) /\ \A i, j \in DOMAIN seq : i < j => seq[i].start <= seq[j].start
    BY DEF ByStart
  <2>2. seq \in Seq(S) /\ ToSet(seq) = S
    BY <2>1, SeqsOf
  <2>3. n \in Nat /\ DOMAIN seq = 1 .. n /\ \A i \in 1 .. n : seq[i] \in S
    BY <2>2
  <2>4. S = {seq[i] : i \in 1 .. n}
    BY <2>2, <2>3 DEF ToSet
  <2>5. seq = [i \in 1 .. n |-> seq[i]]
    BY <2>2
  <2>6. seq \in [1 .. n -> Entry]
    BY <2>3, <2>5
  <2> QED BY <2>1, <2>3, <2>4, <2>6
<1>2. begin \in [1 .. n -> Nat] /\ finish \in [1 .. n -> Nat]
  <2>1. ASSUME NEW i \in 1 .. n PROVE seq[i].start \in Nat /\ Until(seq[i]) \in Nat
    <3>1. seq[i] \in Entry
      BY <1>1
    <3> QED BY <3>1, EntryTyped
  <2> QED BY <2>1
<1>3. Segmented(n, begin, finish, g)
  <2>1. \A i \in 1 .. n : begin[i] = seq[i].start /\ finish[i] = Until(seq[i])
    OBVIOUS
  <2>2. \A i, j \in 1 .. n : i < j => begin[i] <= begin[j]
    BY <1>1
  <2>3. n \in Nat /\ seq \in [1 .. n -> Entry]
    BY <1>1
  <2> HIDE DEF n, begin, finish
  <2> QED BY <1>2, <2>1, <2>2, <2>3, SegmentsAre
<1>4. g \in [1 .. n -> Nat]
  BY <1>3 DEF Segmented
<1>5. K = {g[i] : i \in 1 .. n}
  <2>1. DOMAIN g = 1 .. n
    BY <1>4
  <2> HIDE DEF n, g
  <2> QED BY <2>1 DEF Range
<1>6. WallTime(seq) = SumFunction(length)
  BY DEF WallTime
<1>7. \A m \in K : part(m) \subseteq Entry /\ part(m) # {}
  <2>1. SUFFICES ASSUME NEW m \in K PROVE part(m) \subseteq Entry /\ part(m) # {}
    OBVIOUS
  <2>2. PICK i \in 1 .. n : g[i] = m
    BY <1>5
  <2>3. seq[i] \in part(m)
    BY <1>1, <2>2
  <2>4. part(m) \subseteq Entry
    BY <1>1
  <2> QED BY <2>3, <2>4
<1>8. \A m \in K : /\ lo[m] = Min({r.start : r \in part(m)}) /\ hi[m] = Max({Until(r) : r \in part(m)})
                   /\ length[m] = Length(part(m)) /\ I[m] = lo[m] .. hi[m] - 1
  OBVIOUS
<1>9. \A i \in 1 .. n : g[i] \in K /\ seq[i] \in part(g[i]) /\ low[i] = lo[g[i]] /\ high[i] = hi[g[i]]
  BY <1>1, <1>5
<1>10. \A m \in K : \A r \in part(m) : \E i \in 1 .. n : g[i] = m /\ r = seq[i]
  BY <1>1
<1>11. \A i \in 1 .. n : begin[i] = seq[i].start /\ finish[i] = Until(seq[i])
  OBVIOUS
<1>12. DOMAIN length = K /\ DOMAIN I = K /\ DOMAIN low = 1 .. n /\ DOMAIN high = 1 .. n
  OBVIOUS
<1>13. /\ low = [i \in 1 .. n |-> low[i]] /\ high = [i \in 1 .. n |-> high[i]]
       /\ length = [m \in K |-> length[m]]
  OBVIOUS
<1> HIDE DEF g, part, K, lo, hi, low, high, length, I, begin, finish, n
<1>14. ASSUME NEW m \in K
       PROVE  /\ lo[m] \in Nat /\ hi[m] \in Nat /\ lo[m] <= hi[m] /\ length[m] = hi[m] - lo[m]
              /\ \A r \in part(m) : lo[m] <= r.start /\ Until(r) <= hi[m]
              /\ \E r \in part(m) : r.start = lo[m]
              /\ \E r \in part(m) : Until(r) = hi[m]
  <2>1. part(m) \subseteq Entry /\ part(m) # {}
    BY <1>7
  <2>2. lo[m] = Min({r.start : r \in part(m)}) /\ hi[m] = Max({Until(r) : r \in part(m)})
    BY <1>8
  <2>3. length[m] = Length(part(m))
    BY <1>8
  <2>4. Reaches(part(m), lo[m], hi[m])
    BY <2>1, <2>2, LengthIs
  <2> QED BY <2>3, <2>4 DEF Reaches
<1>15. low \in [1 .. n -> Nat] /\ high \in [1 .. n -> Nat]
  <2>1. \A i \in 1 .. n : low[i] \in Nat /\ high[i] \in Nat
    BY <1>9, <1>14
  <2> QED BY <1>13, <2>1
<1>16. Reach(n, begin, finish, g, low, high)
  <2>1. ASSUME NEW i \in 1 .. n
        PROVE  /\ low[i] <= begin[i] /\ finish[i] <= high[i]
               /\ \E j \in 1 .. n : g[j] = g[i] /\ begin[j] = low[i]
               /\ \E j \in 1 .. n : g[j] = g[i] /\ finish[j] = high[i]
    <3>1. g[i] \in K /\ seq[i] \in part(g[i]) /\ low[i] = lo[g[i]] /\ high[i] = hi[g[i]]
      BY <1>9
    <3>2. lo[g[i]] <= seq[i].start /\ Until(seq[i]) <= hi[g[i]]
      BY <1>14, <3>1
    <3>3. PICK r \in part(g[i]) : r.start = lo[g[i]]
      BY <1>14, <3>1
    <3>4. PICK q \in part(g[i]) : Until(q) = hi[g[i]]
      BY <1>14, <3>1
    <3>5. PICK j \in 1 .. n : g[j] = g[i] /\ r = seq[j]
      BY <1>10, <3>1
    <3>6. PICK k \in 1 .. n : g[k] = g[i] /\ q = seq[k]
      BY <1>10, <3>1
    <3>7. begin[j] = low[i] /\ finish[k] = high[i]
      BY <1>11, <3>1, <3>3, <3>4, <3>5, <3>6
    <3>8. low[i] <= begin[i] /\ finish[i] <= high[i]
      BY <1>11, <3>1, <3>2
    <3> QED BY <3>5, <3>6, <3>7, <3>8
  <2> QED BY <2>1 DEF Reach
<1>17. Rising(n, begin)
  BY <1>1, <1>11 DEF Rising
<1>18. n \in Nat
  BY <1>1
<1>19. /\ \A t \in Nat : (\E i \in 1 .. n : low[i] <= t /\ t < high[i])
                              <=> (\E i \in 1 .. n : begin[i] <= t /\ t < finish[i])
       /\ \A i, j \in 1 .. n : g[i] < g[j] => high[i] <= low[j]
  BY <1>2, <1>3, <1>15, <1>16, <1>17, <1>18, SegmentsCover
<1>20. IsFiniteSet(K)
  <2>1. g \in Surjection(1 .. n, K)
    BY <1>4, <1>5 DEF Surjection
  <2>2. IsFiniteSet(1 .. n)
    BY <1>18, FS_Interval
  <2> QED BY <2>1, <2>2, FS_Surjection
<1>21. length \in [K -> Nat]
  <2>1. ASSUME NEW m \in K PROVE length[m] \in Nat
    BY <1>14
  <2> QED BY <1>13, <2>1
<1>22. \A m \in K : IsFiniteSet(I[m]) /\ Cardinality(I[m]) = length[m]
  <2>1. SUFFICES ASSUME NEW m \in K PROVE IsFiniteSet(I[m]) /\ Cardinality(I[m]) = length[m]
    OBVIOUS
  <2>2. I[m] = lo[m] .. hi[m] - 1
    BY <1>8
  <2>3. lo[m] \in Int /\ hi[m] - 1 \in Int /\ lo[m] <= hi[m] /\ length[m] = hi[m] - lo[m]
    BY <1>14
  <2>4. /\ IsFiniteSet(lo[m] .. hi[m] - 1)
        /\ Cardinality(lo[m] .. hi[m] - 1) = IF lo[m] > hi[m] - 1 THEN 0 ELSE hi[m] - 1 - lo[m] + 1
    BY <2>3, FS_Interval
  <2>5. lo[m] \in Nat /\ hi[m] \in Nat
    BY <1>14
  <2> QED BY <2>2, <2>3, <2>4, <2>5
<1>23. \A m, k \in K : m # k => I[m] \cap I[k] = {}
  <2>1. ASSUME NEW i \in 1 .. n, NEW j \in 1 .. n, g[i] < g[j] PROVE I[g[i]] \cap I[g[j]] = {}
    <3>1. high[i] <= low[j]
      BY <1>19, <2>1
    <3>2. hi[g[i]] <= lo[g[j]] /\ g[i] \in K /\ g[j] \in K
      BY <1>9, <3>1
    <3>3. I[g[i]] = lo[g[i]] .. hi[g[i]] - 1 /\ I[g[j]] = lo[g[j]] .. hi[g[j]] - 1
      BY <1>8, <3>2
    <3>4. hi[g[i]] \in Nat /\ lo[g[j]] \in Nat /\ lo[g[i]] \in Nat /\ hi[g[j]] \in Nat
      BY <1>14, <3>2
    <3> QED BY <3>2, <3>3, <3>4
  <2>2. SUFFICES ASSUME NEW m \in K, NEW k \in K, m # k PROVE I[m] \cap I[k] = {}
    OBVIOUS
  <2>3. PICK i \in 1 .. n : m = g[i]
    BY <1>5
  <2>4. PICK j \in 1 .. n : k = g[j]
    BY <1>5
  <2>5. g[i] < g[j] \/ g[j] < g[i]
    <3>1. g[i] \in Nat /\ g[j] \in Nat
      BY <1>4
    <3> QED BY <2>2, <2>3, <2>4, <3>1
  <2>6. I[g[i]] \cap I[g[j]] = {}
    <3>1. CASE g[i] < g[j]
      BY <2>1, <3>1
    <3>2. CASE g[j] < g[i]
      BY <2>1, <3>2
    <3> QED BY <2>5, <3>1, <3>2
  <2> QED BY <2>3, <2>4, <2>6
<1>24. Cardinality(Cover(I, K)) = SumFunction(length)
  BY <1>20, <1>21, <1>22, <1>23, UnionIsSum
<1>25. \A r \in S : \E i \in 1 .. n : r = seq[i]
  BY <1>1
<1>26. \A i \in 1 .. n : seq[i] \in S
  BY <1>1
<1>27. ASSUME NEW t \in Active(S) PROVE t \in Cover(I, K)
  <2>1. t \in Nat
    BY StatsAssumption DEF Active
  <2>2. PICK r \in S : r.start <= t /\ t < Until(r)
    BY DEF Active
  <2>3. PICK i \in 1 .. n : r = seq[i]
    BY <1>25
  <2>4. begin[i] <= t /\ t < finish[i]
    BY <1>11, <2>2, <2>3
  <2>5. PICK j \in 1 .. n : low[j] <= t /\ t < high[j]
    BY <1>19, <2>1, <2>4
  <2>6. g[j] \in K /\ lo[g[j]] <= t /\ t < hi[g[j]]
    BY <1>9, <2>5
  <2>7. hi[g[j]] \in Nat /\ lo[g[j]] \in Nat
    BY <1>14, <2>6
  <2>8. t \in lo[g[j]] .. hi[g[j]] - 1
    BY <2>1, <2>6, <2>7
  <2>9. t \in I[g[j]]
    BY <1>8, <2>6, <2>8
  <2> QED BY <2>6, <2>9 DEF Cover
<1>28. ASSUME NEW t \in Cover(I, K) PROVE t \in Active(S)
  <2>1. PICK m \in K : t \in I[m]
    BY DEF Cover
  <2>2. t \in lo[m] .. hi[m] - 1
    BY <1>8, <2>1
  <2>3. t \in Nat /\ lo[m] <= t /\ t < hi[m]
    <3>1. lo[m] \in Nat /\ hi[m] \in Nat
      BY <1>14
    <3> QED BY <2>2, <3>1
  <2>4. PICK j \in 1 .. n : m = g[j]
    BY <1>5
  <2>5. low[j] <= t /\ t < high[j]
    BY <1>9, <2>3, <2>4
  <2>6. PICK i \in 1 .. n : begin[i] <= t /\ t < finish[i]
    BY <1>19, <2>3, <2>5
  <2>7. seq[i] \in S /\ seq[i].start <= t /\ t < Until(seq[i])
    BY <1>11, <1>26, <2>6
  <2>8. t \in 0 .. LastInstant + Plausible
    <3>1. seq[i] \in Entry
      BY <2>7
    <3>2. /\ Until(seq[i]) = seq[i].start + Span(seq[i]) /\ seq[i].start \in Nat
          /\ seq[i].start <= LastInstant /\ Span(seq[i]) \in Nat /\ Span(seq[i]) <= Plausible
      BY <3>1, EntryTyped
    <3>3. LastInstant \in Nat /\ Plausible \in Nat
      BY StatsAssumption
    <3> QED BY <2>3, <2>7, <3>2, <3>3
  <2> QED BY <2>7, <2>8 DEF Active
<1>29. Active(S) = Cover(I, K)
  BY <1>27, <1>28
<1> QED BY <1>6, <1>24, <1>29

(* There is an order by the starts.                                        *)
LEMMA ByStartExists ==
    ASSUME NEW S, IsFiniteSet(S), S \subseteq Entry, \A x, y \in S : x # y => x.id # y.id
    PROVE  \E seq : seq \in ByStart(S)
<1> DEFINE Sooner(x, y) == x.start < y.start \/ (x.start = y.start /\ x.id < y.id)
           R == {z \in S \X S : Sooner(z[1], z[2])}
<1>1. \A x \in S : x.id \in Nat /\ x.start \in Nat
  BY EntryTyped
<1>2. \A x, y \in S : <<x, y>> \in R <=> Sooner(x, y)
  OBVIOUS
<1>3. \A x, y, z \in S : Sooner(x, y) /\ Sooner(y, z) => Sooner(x, z)
  BY <1>1
<1>4. \A x \in S : ~Sooner(x, x)
  BY <1>1
<1>5. \A x, y \in S : x # y => Sooner(x, y) \/ Sooner(y, x)
  BY <1>1
<1>6. \A x, y \in S : Sooner(x, y) => x.start <= y.start
  BY <1>1
<1> HIDE DEF R, Sooner
<1>7. /\ \A x, y, z \in S : <<x, y>> \in R /\ <<y, z>> \in R => <<x, z>> \in R
      /\ \A x \in S : <<x, x>> \notin R
      /\ \A x, y \in S : x # y => <<x, y>> \in R \/ <<y, x>> \in R
  BY <1>2, <1>3, <1>4, <1>5
<1>8. PICK seq : Arrangement(S, R, seq)
  BY <1>7, ArrangementExists
<1>9. seq \in SetToSeqs(S) /\ \A i, j \in DOMAIN seq : i < j => <<seq[i], seq[j]>> \in R
  BY <1>8 DEF Arrangement
<1>10. \A i \in DOMAIN seq : seq[i] \in S
  <2>1. seq \in Seq(S)
    BY <1>9, SeqsOf
  <2> QED BY <2>1
<1>11. \A i, j \in DOMAIN seq : i < j => seq[i].start <= seq[j].start
  BY <1>2, <1>6, <1>9, <1>10
<1> QED BY <1>9, <1>11 DEF ByStart

(***************************************************************************)
(* The numbers the agent is told                                           *)
(***************************************************************************)
(* What is stored of the day is what was there, unless something changed.  *)
StoredExact ==
    ~stale => \A metric \in DOMAIN digest : digest[metric] = ByKey(metric, StartedIn(0, DayEnd))
RecordTyped ==
    /\ record \in Seq(Entry) /\ Len(record) <= MaxEntries
    /\ \A i \in 1 .. Len(record) : /\ record[i].id = i /\ record[i].start \in 0 .. clock
                                   /\ record[i].end \in record[i].start - 1 .. clock
StatsTyped ==
    /\ clock \in 0 .. LastInstant
    /\ DOMAIN digest \subseteq Metrics /\ stale \in BOOLEAN /\ updates \in 0 .. MaxUpdates
    /\ deviceName \in [Registered -> DeviceNames]
StatsInv == StatsTyped /\ RecordTyped /\ StoredExact

LEMMA StartedTyped ==
    ASSUME RecordTyped, NEW from, NEW to
    PROVE  IsFiniteSet(StartedIn(from, to)) /\ StartedIn(from, to) \subseteq Entry
<1>1. IsFiniteSet(ToSet(record)) /\ ToSet(record) \subseteq Entry
  BY ToSetFinite DEF RecordTyped
<1>2. StartedIn(from, to) \subseteq ToSet(record)
  BY DEF StartedIn
<1> QED BY <1>1, <1>2, FS_Subset

LEMMA NoKeys == \A metric : ByKey(metric, {}) = <<>>
<1> SUFFICES ASSUME NEW metric PROVE ByKey(metric, {}) = <<>>
  OBVIOUS
<1> DEFINE K == {KeyOf(metric, r) : r \in {}} \ (IF metric = "seconds_by_app" THEN {NoApp} ELSE {})
           f == [k \in K |-> TimeOf({r \in {} : KeyOf(metric, r) = k})]
<1>1. ByKey(metric, {}) = f
  BY DEF ByKey
<1>2. K = {}
  OBVIOUS
<1>3. DOMAIN f = {} /\ f = [k \in DOMAIN f |-> f[k]]
  BY <1>2
<1> HIDE DEF f
<1>4. f = <<>>
  BY <1>3
<1> QED BY <1>1, <1>4

LEMMA StatsInitial == StatsInit => StatsInv
<1> SUFFICES ASSUME StatsInit PROVE StatsInv
  OBVIOUS
<1>1. /\ clock \in 0 .. LastInstant /\ record = <<>> /\ stale = FALSE /\ updates = 0
      /\ digest \in {NoDigest, DigestBeforeDevices} /\ deviceName \in [Registered -> DeviceNames]
  BY DEF StatsInit
<1>2. RecordTyped
  <2>1. record \in Seq(Entry) /\ Len(record) = 0
    BY <1>1
  <2>2. MaxEntries \in Nat
    BY StatsAssumption
  <2> QED BY <2>1, <2>2 DEF RecordTyped
<1>3. DOMAIN digest \subseteq Metrics /\ \A metric \in DOMAIN digest : digest[metric] = <<>>
  <2>1. CASE digest = NoDigest
    BY <2>1 DEF NoDigest
  <2>2. CASE digest = DigestBeforeDevices
    BY <2>2 DEF DigestBeforeDevices
  <2> QED BY <1>1, <2>1, <2>2
<1>4. StatsTyped
  <2>1. stale \in BOOLEAN
    BY <1>1
  <2>2. updates \in 0 .. MaxUpdates
    BY <1>1, StatsAssumption
  <2> QED BY <1>1, <1>3, <2>1, <2>2 DEF StatsTyped
<1>5. ASSUME NEW metric \in DOMAIN digest
      PROVE  digest[metric] = ByKey(metric, StartedIn(0, DayEnd))
  <2>1. ToSet(record) = {}
    BY <1>1 DEF ToSet
  <2>2. StartedIn(0, DayEnd) = {}
    BY <2>1 DEF StartedIn
  <2> QED BY <1>3, <2>2, NoKeys
<1>6. StoredExact
  BY <1>5 DEF StoredExact
<1> QED BY <1>2, <1>4, <1>6 DEF StatsInv

LEMMA StatsStep == StatsInv /\ [StatsNext]_statsVars => StatsInv'
<1> SUFFICES ASSUME StatsInv, [StatsNext]_statsVars PROVE StatsInv'
  OBVIOUS
<1>1. /\ clock \in 0 .. LastInstant /\ DOMAIN digest \subseteq Metrics /\ stale \in BOOLEAN
      /\ updates \in 0 .. MaxUpdates /\ LastInstant \in Nat /\ MaxUpdates \in Nat
      /\ deviceName \in [Registered -> DeviceNames]
  BY StatsAssumption DEF StatsInv, StatsTyped
<1>2. /\ record \in Seq(Entry) /\ Len(record) <= MaxEntries /\ Len(record) \in Nat
      /\ DOMAIN record = 1 .. Len(record)
      /\ \A i \in 1 .. Len(record) : /\ record[i].id = i /\ record[i].start \in 0 .. clock
                                     /\ record[i].end \in record[i].start - 1 .. clock
  BY DEF StatsInv, RecordTyped
<1>3. \A i \in 1 .. Len(record) : record[i] \in Entry
  BY <1>2
<1>4. ASSUME NEW start \in 0 .. LastInstant, NEW p \in Profiles, Arrives(start, p)
      PROVE  StatsInv'
  <2> DEFINE r == [id |-> Len(record) + 1, start |-> start, end |-> start, of |-> p,
                   cat |-> Unclassified]
  <2>1. /\ Len(record) < MaxEntries /\ start <= clock /\ record' = Append(record, r)
        /\ stale' = TRUE /\ clock' = clock /\ digest' = digest /\ updates' = updates
        /\ deviceName' = deviceName
    BY <1>4 DEF Arrives
  <2>2. r \in Entry
    BY <1>1, <1>2 DEF Entry
  <2>3. r.id = Len(record) + 1 /\ r.start = start /\ r.end = start
    OBVIOUS
  <2> HIDE DEF r
  <2>4. /\ record' \in Seq(Entry) /\ Len(record') = Len(record) + 1
        /\ record'[Len(record) + 1] = r
        /\ \A i \in 1 .. Len(record) : record'[i] = record[i]
    BY <1>2, <2>1, <2>2
  <2>5. MaxEntries \in Nat
    BY StatsAssumption
  <2>6. Len(record') <= MaxEntries
    BY <1>2, <2>1, <2>4, <2>5
  <2>7. ASSUME NEW i \in 1 .. Len(record')
        PROVE  /\ record'[i].id = i /\ record'[i].start \in 0 .. clock'
               /\ record'[i].end \in record'[i].start - 1 .. clock'
    <3>1. CASE i = Len(record) + 1
      <4>1. /\ record'[i].id = i /\ record'[i].start = start /\ record'[i].end = start
        BY <2>3, <2>4, <3>1
      <4> QED BY <1>1, <2>1, <4>1
    <3>2. CASE i # Len(record) + 1
      <4>1. i \in 1 .. Len(record)
        BY <1>2, <2>4, <3>2
      <4> QED BY <1>2, <2>1, <2>4, <4>1
    <3> QED BY <3>1, <3>2
  <2>8. RecordTyped'
    BY <2>4, <2>6, <2>7 DEF RecordTyped
  <2>9. StatsTyped' /\ StoredExact'
    BY <1>1, <2>1 DEF StatsTyped, StoredExact
  <2> QED BY <2>8, <2>9 DEF StatsInv
<1>5. ASSUME NEW i \in DOMAIN record, NEW r \in Entry, r.id = i, r.start \in 0 .. clock,
             r.end \in r.start - 1 .. clock, Changed(i, r)
      PROVE  StatsInv'
  <2>1. /\ record' = [record EXCEPT ![i] = r] /\ updates < MaxUpdates /\ updates' = updates + 1
        /\ stale' = TRUE /\ clock' = clock /\ digest' = digest /\ deviceName' = deviceName
    BY <1>5 DEF Changed
  <2>2. i \in 1 .. Len(record)
    BY <1>2
  <2>3. /\ record' \in Seq(Entry) /\ Len(record') = Len(record) /\ record'[i] = r
        /\ \A j \in 1 .. Len(record) : j # i => record'[j] = record[j]
    BY <1>2, <2>1, <2>2
  <2>4. ASSUME NEW j \in 1 .. Len(record')
        PROVE  /\ record'[j].id = j /\ record'[j].start \in 0 .. clock'
               /\ record'[j].end \in record'[j].start - 1 .. clock'
    <3>1. CASE j = i
      BY <1>5, <2>1, <2>3, <3>1
    <3>2. CASE j # i
      BY <1>2, <2>1, <2>3, <3>2
    <3> QED BY <3>1, <3>2
  <2>5. RecordTyped'
    BY <1>2, <2>3, <2>4 DEF RecordTyped
  <2>6. StatsTyped' /\ StoredExact'
    BY <1>1, <2>1 DEF StatsTyped, StoredExact
  <2> QED BY <2>5, <2>6 DEF StatsInv
<1>6. ASSUME NEW i \in DOMAIN record, NEW end \in -1 .. LastInstant, Closes(i, end)
      PROVE  StatsInv'
  <2> DEFINE r == [record[i] EXCEPT !.end = end]
  <2>1. end \in record[i].start - 1 .. clock /\ Changed(i, r)
    BY <1>6 DEF Closes
  <2>2. record[i] \in Entry /\ record[i].id = i /\ record[i].start \in 0 .. clock
    BY <1>2, <1>3
  <2>3. r \in Entry /\ r.id = record[i].id /\ r.start = record[i].start /\ r.end = end
    BY <2>2 DEF Entry
  <2> HIDE DEF r
  <2>4. r.id = i /\ r.start \in 0 .. clock /\ r.end \in r.start - 1 .. clock
    BY <2>1, <2>2, <2>3
  <2> QED BY <1>5, <2>1, <2>3, <2>4
<1>7. ASSUME NEW i \in DOMAIN record, NEW cat \in Labels, Labelled(i, cat)
      PROVE  StatsInv'
  <2> DEFINE r == [record[i] EXCEPT !.cat = cat]
  <2>1. Changed(i, r)
    BY <1>7 DEF Labelled
  <2>2. /\ record[i] \in Entry /\ record[i].id = i /\ record[i].start \in 0 .. clock
        /\ record[i].end \in record[i].start - 1 .. clock
    BY <1>2, <1>3
  <2>3. r \in Entry /\ r.id = record[i].id /\ r.start = record[i].start /\ r.end = record[i].end
    BY <2>2 DEF Entry
  <2> HIDE DEF r
  <2>4. r.id = i /\ r.start \in 0 .. clock /\ r.end \in r.start - 1 .. clock
    BY <2>2, <2>3
  <2> QED BY <1>5, <2>1, <2>3, <2>4
<1>8. ASSUME \/ Passes \/ UNCHANGED statsVars
             \/ \E dev \in Registered, name \in DeviceNames : Renamed(dev, name)
      PROVE  StatsInv'
  <2>1. /\ clock' \in 0 .. LastInstant /\ clock <= clock' /\ record' = record /\ digest' = digest
        /\ stale' = stale /\ updates' \in 0 .. MaxUpdates
    BY <1>1, <1>8 DEF Passes, Renamed, statsVars
  <2>5. deviceName' \in [Registered -> DeviceNames]
    BY <1>1, <1>8 DEF Passes, Renamed, statsVars
  <2>6. StartedIn(0, DayEnd)' = StartedIn(0, DayEnd)
    BY <2>1 DEF StartedIn
  <2>7. StatsTyped'
    BY <1>1, <2>1, <2>5 DEF StatsTyped
  <2>8. StoredExact'
    BY <2>1, <2>6 DEF StatsInv, StoredExact, ByKey, KeyOf, TimeOf
  <2>2. StatsTyped' /\ StoredExact'
    BY <2>7, <2>8
  <2>3. ASSUME NEW i \in 1 .. Len(record)
        PROVE  /\ record[i].id = i /\ record[i].start \in 0 .. clock'
               /\ record[i].end \in record[i].start - 1 .. clock'
    <3>1. /\ record[i].id = i /\ record[i].start \in 0 .. clock
          /\ record[i].end \in record[i].start - 1 .. clock
      BY <1>2
    <3> QED BY <1>1, <2>1, <3>1
  <2>4. RecordTyped'
    BY <1>2, <2>1, <2>3 DEF RecordTyped
  <2> QED BY <2>2, <2>4 DEF StatsInv
<1>9. ASSUME Rollup
      PROVE  StatsInv'
  <2>1. /\ updates < MaxUpdates /\ updates' = updates + 1
        /\ digest' = [metric \in Metrics |-> ByKey(metric, StartedIn(0, DayEnd))]
        /\ stale' = FALSE /\ clock' = clock /\ record' = record /\ deviceName' = deviceName
    BY <1>9 DEF Rollup
  <2>2. RecordTyped'
    BY <2>1 DEF StatsInv, RecordTyped
  <2>3. DOMAIN digest' = Metrics
    BY <2>1
  <2>4. StatsTyped'
    <3>1. stale' \in BOOLEAN
      BY <2>1
    <3>2. updates' \in 0 .. MaxUpdates /\ clock' \in 0 .. LastInstant
      BY <1>1, <2>1
    <3> QED BY <1>1, <2>1, <2>3, <3>1, <3>2 DEF StatsTyped
  <2>5. StartedIn(0, DayEnd)' = StartedIn(0, DayEnd)
    BY <2>1 DEF StartedIn
  <2>6. StoredExact'
    BY <2>1, <2>3, <2>5 DEF StoredExact, ByKey, KeyOf, TimeOf
  <2> QED BY <2>2, <2>4, <2>6 DEF StatsInv
<1> QED BY <1>4, <1>6, <1>7, <1>8, <1>9 DEF StatsNext

(* No sequence of arrivals, changes and rollups takes a variable of the    *)
(* statistics out of its type, for any number of records.                  *)
THEOREM StatsTypeCorrect == StatsSpec => []StatsTypeOK
<1>1. StatsInv => StatsTypeOK
  <2> SUFFICES ASSUME StatsInv PROVE StatsTypeOK
    OBVIOUS
  <2>1. record \in Seq(Entry) /\ DOMAIN record = 1 .. Len(record)
    BY DEF StatsInv, RecordTyped
  <2>2. \A i \in DOMAIN record : /\ record[i].of \in Profiles
                                 /\ record[i].cat \in Labels \cup {Unclassified}
    <3>1. ASSUME NEW i \in DOMAIN record PROVE record[i] \in Entry
      BY <2>1
    <3> QED BY <3>1 DEF Entry
  <2> QED BY <2>1, <2>2 DEF StatsInv, StatsTyped, RecordTyped, StatsTypeOK
<1> QED BY <1>1, StatsInitial, StatsStep, PTL DEF StatsSpec

-----------------------------------------------------------------------------
LEMMA MatchingTyped ==
    ASSUME StatsInv, NEW p, NEW dev
    PROVE  /\ IsFiniteSet(Matching(p, dev)) /\ Matching(p, dev) \subseteq Entry
           /\ \A x, y \in Matching(p, dev) : x # y => x.id # y.id
<1>1. RecordTyped
  BY DEF StatsInv
<1>2. IsFiniteSet(StartedIn(p.from, p.to)) /\ StartedIn(p.from, p.to) \subseteq Entry
  BY <1>1, StartedTyped
<1>3. Matching(p, dev) \subseteq StartedIn(p.from, p.to)
  BY DEF Matching, OnMachine
<1>4. Matching(p, dev) \subseteq ToSet(record)
  BY <1>3 DEF StartedIn
<1>5. \A x, y \in ToSet(record) : x # y => x.id # y.id
  <2>1. \A i \in DOMAIN record : record[i].id = i
    BY <1>1 DEF RecordTyped
  <2> QED BY <2>1 DEF ToSet
<1>6. IsFiniteSet(Matching(p, dev))
  BY <1>2, <1>3, FS_Subset
<1> QED BY <1>2, <1>3, <1>4, <1>5, <1>6

(* One device has one label; several with labels of their own keep their   *)
(* time under these.                                                       *)
LEMMA OneLabel ==
    ASSUME NEW ms, NEW dev, DOMAIN ms = {dev}
    PROVE  {answer[deviceName[dev]] : answer \in ByLabel(ms)} = {ms[dev]}
<1> DEFINE n == deviceName[dev]
           f == [x \in {n} |-> dev]
           fs == {g \in [{n} -> {dev}] : \A x \in {n} : deviceName[g[x]] = x}
<1>1. {deviceName[d] : d \in DOMAIN ms} = {n}
  OBVIOUS
<1>2. ByLabel(ms) = {[x \in {n} |-> ms[last[x]]] : last \in fs}
  <2>1. fs = {g \in [{n} -> DOMAIN ms] : \A x \in {n} : deviceName[g[x]] = x}
    OBVIOUS
  <2> DEFINE labels == {deviceName[d] : d \in DOMAIN ms}
  <2>2. ByLabel(ms) = {[x \in labels |-> ms[last[x]]] :
                           last \in {g \in [labels -> DOMAIN ms] : \A x \in labels : deviceName[g[x]] = x}}
    BY DEF ByLabel
  <2>3. labels = {n}
    BY <1>1
  <2> HIDE DEF labels, fs, n
  <2> QED BY <2>1, <2>2, <2>3
<1>3. f \in fs /\ \A g \in fs : g[n] = dev
  <2>1. f \in [{n} -> {dev}] /\ \A x \in {n} : f[x] = dev /\ x = n
    OBVIOUS
  <2>2. \A x \in {n} : deviceName[f[x]] = x
    <3> HIDE DEF f
    <3> QED BY <2>1
  <2>3. f \in fs
    <3> HIDE DEF f
    <3> QED BY <2>1, <2>2
  <2>4. \A g \in [{n} -> {dev}] : g[n] = dev
    OBVIOUS
  <2>5. fs \subseteq [{n} -> {dev}]
    OBVIOUS
  <2> HIDE DEF f, fs, n
  <2> QED BY <2>3, <2>4, <2>5
<1> HIDE DEF fs, f
<1>4. ASSUME NEW answer \in ByLabel(ms) PROVE answer[n] = ms[dev]
  <2>1. PICK g \in fs : answer = [x \in {n} |-> ms[g[x]]]
    BY <1>2
  <2> QED BY <1>3, <2>1
<1>5. \E answer : answer \in ByLabel(ms)
  BY <1>2, <1>3
<1> HIDE DEF n
<1>6. {answer[n] : answer \in ByLabel(ms)} = {ms[dev]}
  BY <1>4, <1>5
<1> QED BY <1>6 DEF n

LEMMA LabelsKeepTotal ==
    ASSUME NEW ms, IsFiniteSet(DOMAIN ms), ms \in [DOMAIN ms -> Nat],
           \A d, e \in DOMAIN ms : deviceName[d] = deviceName[e] => d = e,
           NEW answer \in ByLabel(ms)
    PROVE  Total(answer) = Total(ms)
<1> DEFINE D == DOMAIN ms
           labels == {deviceName[d] : d \in D}
<1>1. PICK f \in [labels -> D] : /\ \A n \in labels : deviceName[f[n]] = n
                                 /\ answer = [n \in labels |-> ms[f[n]]]
  BY DEF ByLabel
<1>2. \A m, n \in labels : f[m] = f[n] => m = n
  BY <1>1
<1>3. ASSUME NEW d \in D PROVE \E n \in labels : f[n] = d
  <2>1. deviceName[d] \in labels
    OBVIOUS
  <2>2. f[deviceName[d]] \in D /\ deviceName[f[deviceName[d]]] = deviceName[d]
    BY <1>1, <2>1
  <2> QED BY <2>1, <2>2
<1>4. IsFiniteSet(D) /\ ms \in [D -> Nat]
  OBVIOUS
<1> HIDE DEF D, labels
<1>5. SumFunction([n \in labels |-> ms[f[n]]]) = SumFunction(ms)
  BY ONLY <1>1, <1>2, <1>3, <1>4, SumRenamed
<1> QED BY <1>1, <1>5 DEF Total

LEMMA ByKeyTyped ==
    ASSUME NEW M, IsFiniteSet(M), M \subseteq Entry
    PROVE  LET ms == ByKey("seconds_by_device", M)
           IN  /\ IsFiniteSet(DOMAIN ms) /\ ms \in [DOMAIN ms -> Nat]
               /\ \A d \in DOMAIN ms : \E r \in M : r.of.dev = d
<1> DEFINE K == {r.of.dev : r \in M}
           ms == ByKey("seconds_by_device", M)
           h == [r \in M |-> r.of.dev]
<1>1. \A r : KeyOf("seconds_by_device", r) = r.of.dev
  BY DEF KeyOf
<1>2. ms = [k \in K |-> TimeOf({r \in M : KeyOf("seconds_by_device", r) = k})]
  BY <1>1 DEF ByKey
<1>3. ASSUME NEW k PROVE TimeOf({r \in M : KeyOf("seconds_by_device", r) = k}) \in Nat
  <2>1. {r \in M : KeyOf("seconds_by_device", r) = k} \in SUBSET M
    OBVIOUS
  <2> QED BY <2>1, TimeSteps
<1>4. h \in [M -> K] /\ \A k \in K : \E r \in M : h[r] = k
  OBVIOUS
<1>5. IsFiniteSet(K)
  <2> HIDE DEF h, K
  <2>1. h \in Surjection(M, K)
    BY <1>4 DEF Surjection
  <2> QED BY <2>1, FS_Surjection
<1> HIDE DEF ms
<1>6. DOMAIN ms = K /\ ms \in [K -> Nat]
  BY <1>2, <1>3
<1>7. \A d \in K : \E r \in M : r.of.dev = d
  OBVIOUS
<1> HIDE DEF K
<1>8. /\ IsFiniteSet(DOMAIN ms) /\ ms \in [DOMAIN ms -> Nat]
      /\ \A d \in DOMAIN ms : \E r \in M : r.of.dev = d
  BY <1>5, <1>6, <1>7
<1> QED BY <1>8 DEF ms

LEMMA ActiveExact ==
    ASSUME StatsInv, NEW p, NEW dev
    PROVE  ActiveIsUnion(p, dev)
<1> DEFINE S == Matching(p, dev)
           walls == {WallTime(seq) : seq \in ByStart(S)}
<1>1. IsFiniteSet(S) /\ S \subseteq Entry /\ \A x, y \in S : x # y => x.id # y.id
  BY MatchingTyped
<1>2. walls = {Cardinality(Active(S))}
  <2> HIDE DEF S
  <2>1. PICK seq : seq \in ByStart(S)
    BY <1>1, ByStartExists
  <2>2. \A other \in ByStart(S) : WallTime(other) = Cardinality(Active(S))
    BY <1>1, WallIs
  <2> QED BY <2>1, <2>2
<1>3. /\ Cardinality(Active(S)) <= TimeOf(S)
      /\ Disjoint(S) => Cardinality(Active(S)) = TimeOf(S)
  <2> HIDE DEF S
  <2> QED BY <1>1, ActiveIs
<1>4. ASSUME S # {}, dev # AnyMachine
      PROVE  {answer[deviceName[dev]] : answer \in QueryStats("seconds_by_device", p, dev)} = {TimeOf(S)}
  <2> DEFINE ms == ByKey("seconds_by_device", S)
  <2>1. QueryStats("seconds_by_device", p, dev) = ByLabel(ms)
    BY <1>4 DEF QueryStats, FromDigest
  <2>2. \A r \in S : r.of.dev = dev
    BY <1>4 DEF Matching, OnMachine
  <2> HIDE DEF S
  <2>3. \A r : KeyOf("seconds_by_device", r) = r.of.dev
    BY DEF KeyOf
  <2>4. {KeyOf("seconds_by_device", r) : r \in S} = {dev}
    BY <1>4, <2>2, <2>3
  <2>5. {r \in S : KeyOf("seconds_by_device", r) = dev} = S
    BY <2>2, <2>3
  <2>6. ByKey("seconds_by_device", S)[dev] = TimeOf({r \in S : KeyOf("seconds_by_device", r) = dev})
    BY <2>4 DEF ByKey
  <2>7. DOMAIN ms = {dev} /\ ms[dev] = TimeOf(S)
    BY <2>4, <2>5, <2>6 DEF ByKey
  <2> HIDE DEF ms
  <2> QED BY <2>1, <2>7, OneLabel
<1>5. \A wall \in walls : wall <= TimeOf(S)
  BY <1>2, <1>3
<1>6. Disjoint(S) /\ S # {} /\ dev # AnyMachine =>
          walls = {answer[deviceName[dev]] : answer \in QueryStats("seconds_by_device", p, dev)}
  BY <1>2, <1>3, <1>4
<1> QED BY <1>2, <1>5, <1>6 DEF ActiveIsUnion

(* What is listed for a key grows with the records.                        *)
LEMMA KeyGrows ==
    ASSUME NEW B, IsFiniteSet(B), B \subseteq Entry, NEW A \in SUBSET B, NEW metric \in Metrics,
           NEW k \in DOMAIN ByKey(metric, A)
    PROVE  ByKey(metric, B)[k] >= ByKey(metric, A)[k]
<1> DEFINE of(S) == {r \in S : KeyOf(metric, r) = k}
           none == IF metric = "seconds_by_app" THEN {NoApp} ELSE {}
           keys(S) == {KeyOf(metric, r) : r \in S} \ none
<1>1. /\ ByKey(metric, A) = [x \in keys(A) |-> TimeOf({r \in A : KeyOf(metric, r) = x})]
      /\ ByKey(metric, B) = [x \in keys(B) |-> TimeOf({r \in B : KeyOf(metric, r) = x})]
  BY DEF ByKey
<1>2. k \in keys(A)
  BY <1>1
<1>3. keys(A) \subseteq keys(B)
  OBVIOUS
<1> HIDE DEF keys
<1>4. ByKey(metric, A)[k] = TimeOf(of(A)) /\ ByKey(metric, B)[k] = TimeOf(of(B))
  BY <1>1, <1>2, <1>3
<1>5. of(A) \in SUBSET of(B) /\ of(B) \in SUBSET B
  OBVIOUS
<1> HIDE DEF of
<1>6. TimeOf(of(A)) <= TimeOf(of(B)) /\ TimeOf(of(A)) \in Nat /\ TimeOf(of(B)) \in Nat
  BY <1>5, TimeGrows
<1> QED BY <1>4, <1>6

LEMMA NoneMissingEver ==
    ASSUME StatsInv, NEW p \in Periods, NEW dev, NEW metric \in Metrics
    PROVE  NoneMissing(metric, p, dev)
<1> DEFINE counted == {r \in Matching(p, dev) : metric = "seconds_by_app" => r.of.app # NoApp}
           listed == IF metric = "seconds_by_app" THEN AppBreakdown(p, dev) ELSE CategoryStats(p, dev)
           live == ByKey(metric, counted)
<1>1. /\ IsFiniteSet(Matching(p, dev)) /\ Matching(p, dev) \subseteq Entry
      /\ IsFiniteSet(Matching(Inclusive(p), dev)) /\ Matching(Inclusive(p), dev) \subseteq Entry
  BY MatchingTyped
<1>2. counted = Counted(metric, Matching(p, dev))
  BY DEF Counted
<1> DEFINE ms == IF FromDigest(metric, p, dev) THEN digest[metric] ELSE ByKey(metric, Matching(p, dev))
<1>3. ASSUME ~(stale /\ FromDigest(metric, p, dev)) PROVE ms = ByKey(metric, Matching(p, dev))
  <2>1. CASE FromDigest(metric, p, dev)
    <3>1. /\ dev = AnyMachine /\ p.from = 0 /\ p.to = DayEnd /\ metric \in DOMAIN digest
          /\ ms = digest[metric] /\ ~stale
      BY <1>3, <2>1 DEF FromDigest
    <3>2. Matching(p, dev) = StartedIn(0, DayEnd)
      BY <3>1 DEF Matching, OnMachine
    <3>3. digest[metric] = ByKey(metric, StartedIn(0, DayEnd))
      BY <3>1 DEF StatsInv, StoredExact
    <3> QED BY <3>1, <3>2, <3>3
  <2>2. CASE ~FromDigest(metric, p, dev)
    BY <2>2
  <2> QED BY <2>1, <2>2
<1>4. QueryStats(metric, p, dev) = IF metric = "seconds_by_device" THEN ByLabel(ms) ELSE {ms}
  BY DEF QueryStats
<1>10. Total(ByKey(metric, Matching(p, dev))) = TimeOf(counted)
  <2> HIDE DEF counted
  <2> QED BY <1>1, <1>2, TotalIs
<1>11. ASSUME ~(stale /\ FromDigest(metric, p, dev)),
              ~(metric = "seconds_by_device" /\ Namesakes(counted)),
              NEW answer \in QueryStats(metric, p, dev)
       PROVE  Total(answer) = TimeOf(counted)
  <2>1. CASE metric # "seconds_by_device"
    <3> HIDE DEF counted, ms
    <3> QED BY <1>3, <1>4, <1>10, <1>11, <2>1
  <2>2. CASE metric = "seconds_by_device"
    <3>1. counted = Matching(p, dev)
      BY <2>2
    <3>2. ms = ByKey("seconds_by_device", Matching(p, dev)) /\ answer \in ByLabel(ms)
      <4> HIDE DEF counted, ms
      <4> QED BY <1>3, <1>4, <1>11, <2>2
    <3>3. /\ IsFiniteSet(DOMAIN ms) /\ ms \in [DOMAIN ms -> Nat]
          /\ \A d \in DOMAIN ms : \E r \in Matching(p, dev) : r.of.dev = d
      <4> HIDE DEF counted, ms
      <4> QED BY <1>1, <3>2, ByKeyTyped
    <3>4. ~Namesakes(Matching(p, dev))
      <4> HIDE DEF counted, ms
      <4> QED BY <1>11, <2>2, <3>1
    <3> HIDE DEF counted, ms
    <3>5. \A d, e \in DOMAIN ms : deviceName[d] = deviceName[e] => d = e
      BY <3>3, <3>4 DEF Namesakes
    <3>6. Total(answer) = Total(ms)
      BY ONLY <3>2, <3>3, <3>5, LabelsKeepTotal
    <3> QED BY <1>10, <2>2, <3>2, <3>6
  <2> QED BY <2>1, <2>2
<1>5. \/ \A answer \in QueryStats(metric, p, dev) : Total(answer) = TimeOf(counted)
      \/ stale /\ FromDigest(metric, p, dev)
      \/ metric = "seconds_by_device" /\ Namesakes(counted)
  <2> HIDE DEF counted
  <2> QED BY <1>11
<1>6. Matching(p, dev) \subseteq Matching(Inclusive(p), dev)
  <2>1. p.from \in Int /\ p.to \in Int /\ Inclusive(p).from = p.from /\ Inclusive(p).to = p.to + 1
    BY StatsAssumption DEF Inclusive
  <2>2. ASSUME NEW r \in StartedIn(p.from, p.to) PROVE r \in StartedIn(p.from, p.to + 1)
    <3>1. r \in ToSet(record) /\ p.from <= r.start /\ r.start < p.to
      BY DEF StartedIn
    <3>2. r \in Entry
      BY StartedTyped DEF StatsInv
    <3>3. r.start \in Nat
      BY <3>2, EntryTyped
    <3>4. r.start < p.to + 1
      BY <2>1, <3>1, <3>3
    <3> QED BY <3>1, <3>4 DEF StartedIn
  <2> QED BY <2>1, <2>2 DEF Matching, OnMachine
<1>7. counted \in SUBSET Matching(Inclusive(p), dev)
  BY <1>6
<1>8. ASSUME metric # "seconds_by_device", NEW k \in DOMAIN live PROVE listed[k] >= live[k]
  <2>1. metric = "seconds_by_app" \/ metric = "seconds_by_category"
    BY <1>8 DEF Metrics
  <2>2. listed = ByKey(metric, Matching(Inclusive(p), dev))
    BY <2>1 DEF AppBreakdown, CategoryStats
  <2> HIDE DEF counted, listed
  <2>3. ByKey(metric, Matching(Inclusive(p), dev))[k] >= live[k]
    BY <1>1, <1>7, KeyGrows
  <2> QED BY <2>2, <2>3
<1>9. metric # "seconds_by_device" => \A k \in DOMAIN live : listed[k] >= live[k]
  <2> HIDE DEF listed, live
  <2> QED BY <1>8
<1> QED BY <1>5, <1>9 DEF NoneMissing

(* Whatever period, device and metric the agent asks for, however many     *)
(* records there are and in whatever order SQLite reads equal starts: the  *)
(* active time is what the records cover, overlaps once; the times by key  *)
(* add up to all the time there is, but for what changed after a rollup    *)
(* and by device but for devices with one name; and the breakdowns have no *)
(* less for any key.                                                       *)
THEOREM StatsAreExact == StatsSpec => []StatsExact
<1>1. StatsInv => StatsExact
  <2> SUFFICES ASSUME StatsInv, NEW p \in Periods, NEW dev \in DeviceScopes
               PROVE  ActiveIsUnion(p, dev) /\ \A metric \in Metrics : NoneMissing(metric, p, dev)
    BY DEF StatsExact
  <2> QED BY ActiveExact, NoneMissingEver
<1> QED BY <1>1, StatsInitial, StatsStep, PTL DEF StatsSpec
=============================================================================
