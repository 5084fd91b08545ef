--------------------------- MODULE VLMHealthGate ---------------------------
(***************************************************************************)
(* The circuit breaker the analysis workers share: they ask it before they *)
(* claim a task and tell it how their VLM calls ended.  The heartbeat is   *)
(* awaited outside the gate's lock, so that its answer may arrive after    *)
(* the gate has woken, or has fallen asleep again; so may the reports of   *)
(* calls that were let through before.                                     *)
(***************************************************************************)
EXTENDS Naturals, Sequences, FiniteSets

CONSTANTS Workers,           \* the vlm_concurrency consumers
          FailThreshold,     \* fail_threshold
          RecoverThreshold   \* recover_threshold

ASSUME GateAssumption ==
    /\ IsFiniteSet(Workers)
    /\ FailThreshold \in Nat \ {0} /\ RecoverThreshold \in Nat \ {0}

VARIABLES state,      \* _state: "healthy" or "sleeping"
          failures,   \* _consecutive_failures
          successes,  \* _consecutive_probe_successes
          cooling,    \* the clock has not reached _next_probe_at
          worker,     \* where each worker is between acquire and its report
          up,         \* the VLM endpoint answers
          called,     \* history: workers that called the VLM in this sleep
          beats       \* history: the last heartbeats answered in this sleep

gate == <<state, failures, successes, cooling>>
history == <<called, beats>>
vars == <<gate, worker, up, history>>

Goto(w, pc) == worker' = [worker EXCEPT ![w] = pc]
LastOf(s) == IF Len(s) > RecoverThreshold THEN Tail(s) ELSE s

-----------------------------------------------------------------------------
Init == /\ state = "healthy" /\ failures = 0 /\ successes = 0 /\ cooling = FALSE
        /\ worker = [w \in Workers |-> "idle"]
        /\ up \in BOOLEAN
        /\ called = {} /\ beats = <<>>

(* Mistakes the properties below must notice (each stands in for the       *)
(* definition it is named after).                                          *)
StartProbeForgets(w) ==
    /\ worker[w] = "idle" /\ state = "sleeping" /\ ~cooling
    /\ cooling' = TRUE /\ successes' = 0
    /\ Goto(w, IF up THEN "probing" ELSE "lost")
    /\ UNCHANGED <<state, failures, up, history>>

(* _transition *)
Wake == /\ state' = "healthy"
        /\ failures' = IF state = "healthy" THEN failures ELSE 0
        /\ successes' = IF state = "healthy" THEN successes + 1 ELSE 0

Sleep == /\ state' = "sleeping" /\ successes' = 0 /\ cooling' = TRUE
         /\ called' = {} /\ beats' = <<>>

(* acquire; while it sleeps and cools, it returns False and changes nothing. *)
AcquireHealthy(w) ==
    /\ worker[w] = "idle" /\ state = "healthy"
    /\ Goto(w, "cleared")
    /\ UNCHANGED <<gate, up, history>>

StartProbe(w) ==
    /\ worker[w] = "idle" /\ state = "sleeping" /\ ~cooling
    /\ cooling' = TRUE
    /\ Goto(w, IF up THEN "probing" ELSE "lost")
    /\ UNCHANGED <<state, failures, successes, up, history>>

(* Two more such mistakes. *)
HeartbeatOkClears(w) ==
    /\ worker[w] = "probing"
    /\ IF successes + 1 >= RecoverThreshold THEN Wake
       ELSE successes' = successes + 1 /\ UNCHANGED <<state, failures>>
    /\ Goto(w, "cleared")
    /\ beats' = IF state = "sleeping" THEN LastOf(Append(beats, "ok")) ELSE beats
    /\ UNCHANGED <<cooling, up, called>>

HeartbeatFailForgiven(w) ==
    /\ worker[w] = "lost"
    /\ Goto(w, "idle")
    /\ beats' = IF state = "sleeping" THEN LastOf(Append(beats, "fail")) ELSE beats
    /\ UNCHANGED <<gate, up, called>>

(* The second half of acquire, with whatever the gate is by now. *)
HeartbeatOk(w) ==
    /\ worker[w] = "probing"
    /\ IF successes + 1 >= RecoverThreshold
       THEN Wake /\ Goto(w, "cleared")
       ELSE /\ successes' = successes + 1 /\ UNCHANGED <<state, failures>>
            /\ Goto(w, "idle")
    /\ beats' = IF state = "sleeping" THEN LastOf(Append(beats, "ok")) ELSE beats
    /\ UNCHANGED <<cooling, up, called>>

HeartbeatFail(w) ==
    /\ worker[w] = "lost"
    /\ successes' = 0
    /\ Goto(w, "idle")
    /\ beats' = IF state = "sleeping" THEN LastOf(Append(beats, "fail")) ELSE beats
    /\ UNCHANGED <<state, failures, cooling, up, called>>

-----------------------------------------------------------------------------
(* After acquire returned True: nothing to claim, no image, a claim that   *)
(* raises; or a VLM call, even when the gate has fallen asleep since.      *)
NoCall(w) ==
    /\ worker[w] = "cleared"
    /\ Goto(w, "idle")
    /\ UNCHANGED <<gate, up, history>>

Call(w) ==
    /\ worker[w] = "cleared"
    /\ Goto(w, "calling")
    /\ called' = IF state = "sleeping" THEN called \cup {w} ELSE called
    /\ UNCHANGED <<gate, up, beats>>

ReportSuccess(w) ==
    /\ worker[w] = "calling"
    /\ failures' = 0
    /\ Goto(w, "idle")
    /\ UNCHANGED <<state, successes, cooling, up, history>>

ReportFailure(w) ==
    /\ worker[w] = "calling"
    /\ failures' = failures + 1
    /\ IF state = "healthy" /\ failures + 1 >= FailThreshold THEN Sleep
       ELSE UNCHANGED <<state, successes, cooling, history>>
    /\ Goto(w, "idle")
    /\ UNCHANGED up

-----------------------------------------------------------------------------
(* probe_interval_s passes; a heartbeat (30 s per attempt, and retried by  *)
(* the API client) may still be on its way.                                *)
IntervalElapses ==
    /\ cooling /\ cooling' = FALSE
    /\ UNCHANGED <<state, failures, successes, worker, up, history>>

(* The endpoint goes down, with some of the heartbeats on their way.       *)
EndpointDown ==
    /\ up /\ up' = FALSE
    /\ \E lost \in SUBSET {w \in Workers : worker[w] = "probing"} :
          worker' = [w \in Workers |-> IF w \in lost THEN "lost" ELSE worker[w]]
    /\ UNCHANGED <<gate, history>>

EndpointUp == /\ ~up /\ up' = TRUE
              /\ UNCHANGED <<gate, worker, history>>

WorkerStep(w) ==
    \/ AcquireHealthy(w) \/ StartProbe(w) \/ HeartbeatOk(w) \/ HeartbeatFail(w)
    \/ NoCall(w) \/ Call(w) \/ ReportSuccess(w) \/ ReportFailure(w)

Next == \/ \E w \in Workers : WorkerStep(w)
        \/ IntervalElapses \/ EndpointDown \/ EndpointUp

(* A worker asks again every half interval, calls and heartbeats time out. *)
Fairness == /\ \A w \in Workers : WF_vars(WorkerStep(w))
            /\ WF_vars(IntervalElapses)

Spec == Init /\ [][Next]_vars
FairSpec == Spec /\ Fairness

-----------------------------------------------------------------------------
Answers == {"ok", "fail"}

(* The failures counted never exceed the threshold by as many as there are *)
(* workers: a sleeping gate still counts the calls it had let through.     *)
TypeOK ==
    /\ state \in {"healthy", "sleeping"}
    /\ failures \in 0 .. FailThreshold + Cardinality(Workers) - 1
    /\ successes \in Nat
    /\ cooling \in BOOLEAN /\ up \in BOOLEAN
    /\ worker \in [Workers -> {"idle", "probing", "lost", "cleared", "calling"}]
    /\ called \subseteq Workers
    /\ beats \in Seq(Answers)

(* While the gate sleeps no worker calls the VLM twice: each may use the   *)
(* True it got before the gate fell asleep, none gets another one, however *)
(* the answers of slow heartbeats are ordered.                             *)
OneCallPerSleep ==
    [][\A w \in Workers : state = "sleeping" /\ Call(w) => w \notin called]_vars

(* The gate wakes only when the last recover_threshold heartbeats answered *)
(* since it fell asleep, by whichever worker, all succeeded.               *)
WakesOnRecovery ==
    [][state = "sleeping" /\ state' = "healthy"
         => Len(beats') = RecoverThreshold /\ \A i \in DOMAIN beats' : beats'[i] = "ok"]_vars

(* An endpoint that stays up is used again: the gate cannot sleep for ever *)
(* although probes overlap, fail late, and reports keep arriving.          *)
ReopensEventually == <>[]up => []<>(state = "healthy")
=============================================================================
