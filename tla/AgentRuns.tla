------------------------------ MODULE AgentRuns ------------------------------
(***************************************************************************)
(* Runs of the tool-calling agent: the report scheduler makes a report of  *)
(* every scope in turn, browsers ask for reports and chat beside it.  A    *)
(* run asks the model, executes the tools it calls, feeds the results back *)
(* and asks again, a bounded number of times; a report is stored at its    *)
(* end.  One tool writes: apply_label sets a record's category and adds an *)
(* audit row, as POST /v1/feedback does beside it.  Browsers hang up, the  *)
(* model and the tools fail, and the server restarts at any await.  The    *)
(* workers' own choice of a category is in AnalysisPipeline.               *)
(***************************************************************************)
EXTENDS Integers, Sequences

CONSTANTS Browsers,       \* clients of the SSE routes
          Sched,          \* the report scheduler
          Scopes,         \* the keys of SCOPE_HOURS, in order
          Chat,           \* the scope of a run that is no report
          Categories,
          Unset,          \* no category, no report, nothing in hand
          NoRow,          \* the category of a record without analysis row
          MaxIterations,  \* max_iterations
          MaxCalls,       \* bound: tool calls of one turn
          MaxRequests,    \* bound: runs that browsers start
          MaxRestarts     \* bound: restarts of the server

ScopeSet == {Scopes[i] : i \in 1 .. Len(Scopes)}

ASSUME AgentAssumption ==
    /\ Sched \notin Browsers
    /\ Scopes \in Seq(ScopeSet) /\ Len(Scopes) > 0 /\ Chat \notin ScopeSet
    /\ Unset \notin Categories \cup {"whole", "failed"}
    /\ NoRow \notin Categories \cup {Unset}
    /\ MaxIterations \in Nat \ {0} /\ MaxCalls \in Nat \ {0}
    /\ MaxRequests \in Nat /\ MaxRestarts \in Nat

Runs == Browsers \cup {Sched}

VARIABLES pc,        \* what a run waits for
          scope,     \* what it is about
          turn,      \* turns with tool calls so far
          calls,     \* tool calls of this turn that have no result yet
          failed,    \* history: the last call of the model failed
          held,      \* the label in hand: its category, the one before
          told,      \* the last event of the run
          stored,    \* history: the run inserted a report
          round,     \* the scopes the scheduler has yet to do
          category,  \* category_final of the record that labels are about
          audited,   \* the category of the newest row of an edit of it
          unrecorded,\* history: the label it has will get no row
          latest,    \* what get_latest_report finds for a scope
          requests, restarts

local == <<turn, calls, failed, held>>
run == <<pc, scope, local, told, stored>>
label == <<category, audited, unrecorded>>
vars == <<run, round, label, latest, requests, restarts>>

Stages == {"idle", "prefetch", "model", "tools", "setLabel", "addAudit",
           "final", "insert", "report", "feedback"}
Ends == {"none", "done", "report", "error", "gone"}
Label == [before : Categories \cup {Unset}, after : Categories \cup {Unset}]
IsReport(r) == scope[r] # Chat

Init ==
    /\ pc = [r \in Runs |-> "idle"] /\ scope = [r \in Runs |-> Chat]
    /\ turn = [r \in Runs |-> 0] /\ calls = [r \in Runs |-> 0]
    /\ failed = [r \in Runs |-> FALSE] /\ held = [r \in Runs |-> Unset]
    /\ told = [r \in Runs |-> "none"] /\ stored = [r \in Runs |-> FALSE]
    /\ round = <<>>
    /\ category \in {Unset, NoRow} /\ audited = Unset /\ unrecorded = FALSE
    /\ latest = [s \in ScopeSet |-> Unset]
    /\ requests = 0 /\ restarts = 0

-----------------------------------------------------------------------------
Goto(r, stage) == pc' = [pc EXCEPT ![r] = stage]

(* A fresh AgentRunner: a report prefetches first, a chat asks at once.    *)
Begin(r, s) ==
    /\ pc[r] = "idle"
    /\ Goto(r, IF s = Chat THEN "model" ELSE "prefetch")
    /\ scope' = [scope EXCEPT ![r] = s]
    /\ told' = [told EXCEPT ![r] = "none"]
    /\ stored' = [stored EXCEPT ![r] = FALSE]
    /\ UNCHANGED <<local, label, latest, restarts>>

Browse(b) ==
    /\ requests < MaxRequests /\ requests' = requests + 1
    /\ \E s \in ScopeSet \cup {Chat} : Begin(b, s)
    /\ UNCHANGED round

(* The scheduler wakes up after its delay, and takes the scopes in order.  *)
WakeScheduler ==
    /\ pc[Sched] = "idle" /\ round = <<>> /\ round' = Scopes
    /\ UNCHANGED <<run, label, latest, requests, restarts>>

NextScope ==
    /\ round # <<>> /\ round' = Tail(round)
    /\ Begin(Sched, Head(round))
    /\ UNCHANGED requests

-----------------------------------------------------------------------------
Step(r) == UNCHANGED <<scope, requests, restarts>>
Keep == UNCHANGED <<failed, held, told, stored, round, label, latest>>

(* Grounding data is a hint: a failure only leaves it out.                 *)
Prefetch(r) ==
    /\ Step(r) /\ pc[r] = "prefetch" /\ Goto(r, "model")
    /\ Keep /\ UNCHANGED <<turn, calls>>

(* The model answers with tool calls; when the budget of turns is spent,   *)
(* the tools are dropped and it is asked a last time.                      *)
CallTools(r) ==
    /\ Step(r) /\ pc[r] = "model" /\ Goto(r, "tools")
    /\ \E n \in 1 .. MaxCalls : calls' = [calls EXCEPT ![r] = n]
    /\ turn' = [turn EXCEPT ![r] = @ + 1]
    /\ Keep

AskAgain(r) ==
    /\ Step(r) /\ pc[r] = "tools" /\ calls[r] = 0
    /\ Goto(r, IF turn[r] < MaxIterations THEN "model" ELSE "final")
    /\ Keep /\ UNCHANGED <<turn, calls>>

(* A tool that reads, is unknown, gets bad arguments or fails.             *)
ReadTool(r) ==
    /\ Step(r) /\ pc[r] = "tools" /\ calls[r] > 0
    /\ calls' = [calls EXCEPT ![r] = @ - 1]
    /\ Keep /\ UNCHANGED <<pc, turn>>

(* apply_label: three reads, then two transactions.  An exception in any   *)
(* of them becomes a result that says so.                                  *)
Current == IF category = NoRow THEN Unset ELSE category

StartLabel(r) ==
    /\ Step(r) /\ pc[r] = "tools" /\ calls[r] > 0 /\ Goto(r, "setLabel")
    /\ \E c \in Categories :
          held' = [held EXCEPT ![r] = [before |-> Current, after |-> c]]
    /\ UNCHANGED <<turn, calls, failed, told, stored, round, label, latest>>

WriteLabel(r) ==
    /\ category' = held[r].after
    /\ UNCHANGED <<audited, stored, latest>>

(* A mistake: an edit only adds its row.                                   *)
WriteRow(r) ==
    /\ IF held[r].after = Unset THEN UNCHANGED <<audited, unrecorded>>
       ELSE audited' = held[r].after /\ unrecorded' = FALSE
    /\ UNCHANGED <<category, stored, latest>>

(* insert_feedback: an edit sets the category again, if there is a row to  *)
(* update; a confirmation has no category to set.                          *)
WriteAudit(r) ==
    /\ IF held[r].after = Unset THEN UNCHANGED label
       ELSE /\ audited' = held[r].after /\ unrecorded' = FALSE
            /\ category' = IF category = NoRow THEN NoRow ELSE held[r].after
    /\ UNCHANGED <<stored, latest>>

SetLabel(r) ==
    /\ Step(r) /\ pc[r] = "setLabel" /\ Goto(r, "addAudit")
    /\ WriteLabel(r) /\ unrecorded' = FALSE
    /\ UNCHANGED <<turn, calls, failed, held, told, round>>

Answer(r) ==
    /\ Goto(r, "tools") /\ calls' = [calls EXCEPT ![r] = @ - 1]
    /\ held' = [held EXCEPT ![r] = Unset]

AddAudit(r) ==
    /\ Step(r) /\ pc[r] = "addAudit" /\ WriteAudit(r) /\ Answer(r)
    /\ UNCHANGED <<turn, failed, told, round>>

(* A label that was set gets no row.                                       *)
Pending(S) == \E r \in S : pc[r] = "addAudit" /\ held[r].after = category
Forget(S) == unrecorded' = (unrecorded \/ Pending(S))

LabelFails(r) ==
    /\ Step(r) /\ pc[r] \in {"setLabel", "addAudit"} /\ Answer(r)
    /\ Forget({r})
    /\ UNCHANGED <<turn, failed, told, stored, round, category, audited, latest>>

-----------------------------------------------------------------------------
(* The end of a run: a chat is done, a report is stored and then told.  An *)
(* error is told and stores nothing; the scheduler goes on with the next   *)
(* scope.                                                                  *)
Over(r, end) ==
    /\ Goto(r, "idle") /\ told' = [told EXCEPT ![r] = end]
    /\ turn' = [turn EXCEPT ![r] = 0] /\ calls' = [calls EXCEPT ![r] = 0]
    /\ failed' = [failed EXCEPT ![r] = FALSE]
    /\ held' = [held EXCEPT ![r] = Unset]

Finish(r, fails) ==
    IF IsReport(r)
    THEN /\ Goto(r, "insert") /\ failed' = [failed EXCEPT ![r] = fails]
         /\ UNCHANGED <<turn, calls, held, told>>
    ELSE Over(r, "done")

(* Mistakes: an error event ends the stream and not the generator; an      *)
(* error ends the scheduler's whole round.                                 *)
AbortButStore(r) ==
    /\ Goto(r, IF IsReport(r) THEN "insert" ELSE "idle")
    /\ told' = [told EXCEPT ![r] = "error"]
    /\ UNCHANGED <<local, round>>
AbortRound(r) ==
    /\ Over(r, "error")
    /\ round' = IF r = Sched THEN <<>> ELSE round

Abort(r) == Over(r, "error") /\ UNCHANGED round

ModelAnswers(r) ==
    /\ Step(r) /\ pc[r] \in {"model", "final"} /\ Finish(r, FALSE)
    /\ UNCHANGED <<stored, round, label, latest>>

(* A failing model is an error, except on the forced last call, where the  *)
(* runner apologises and is done.                                          *)
ModelFails(r) ==
    /\ Step(r) /\ pc[r] = "model" /\ Abort(r)
    /\ UNCHANGED <<stored, label, latest>>

LastCallFails(r) ==
    /\ Step(r) /\ pc[r] = "final" /\ Finish(r, TRUE)
    /\ UNCHANGED <<stored, round, label, latest>>

WriteReport(r) ==
    /\ stored' = [stored EXCEPT ![r] = TRUE]
    /\ latest' = [latest EXCEPT ![scope[r]] =
                    IF failed[r] THEN "failed" ELSE "whole"]
    /\ UNCHANGED label

Insert(r) ==
    /\ Step(r) /\ pc[r] = "insert" /\ Goto(r, "report") /\ WriteReport(r)
    /\ UNCHANGED <<turn, calls, failed, held, told, round>>

Tell(r) ==
    /\ Step(r) /\ pc[r] = "report" /\ Over(r, "report")
    /\ UNCHANGED <<stored, round, label, latest>>

(* The insert raises: the scheduler logs it, a stream just breaks off.     *)
InsertFails(r) ==
    /\ Step(r) /\ pc[r] = "insert" /\ Over(r, "gone")
    /\ UNCHANGED <<stored, round, label, latest>>

(* POST /v1/feedback reads the category before and adds its row.           *)
PostFeedback(b) ==
    /\ pc[b] = "idle" /\ Goto(b, "feedback")
    /\ requests < MaxRequests /\ requests' = requests + 1
    /\ \E c \in Categories \cup {Unset} :
          held' = [held EXCEPT ![b] = [before |-> Current, after |-> c]]
    /\ scope' = [scope EXCEPT ![b] = Chat]
    /\ told' = [told EXCEPT ![b] = "none"]
    /\ stored' = [stored EXCEPT ![b] = FALSE]
    /\ UNCHANGED <<turn, calls, failed, round, label, latest, restarts>>

SaveFeedback(b) ==
    /\ Step(b) /\ pc[b] = "feedback"
    /\ \/ WriteAudit(b) /\ Over(b, "done")
       \/ Over(b, "error") /\ UNCHANGED <<label, stored, latest>>
    /\ UNCHANGED round

RunStep(r) ==
    \/ Prefetch(r) \/ CallTools(r) \/ AskAgain(r) \/ ReadTool(r)
    \/ StartLabel(r) \/ SetLabel(r) \/ AddAudit(r) \/ LabelFails(r)
    \/ ModelAnswers(r) \/ ModelFails(r) \/ LastCallFails(r)
    \/ Insert(r) \/ Tell(r) \/ InsertFails(r)

(* A browser that hangs up cancels its stream at an await.  A write that   *)
(* was under way is then either not begun, or done by the database's       *)
(* thread and committed with the next transaction.                         *)
HangUp(b) ==
    /\ Step(b) /\ pc[b] \notin {"idle", "feedback"} /\ Over(b, "gone")
    /\ \/ Forget({b}) /\ UNCHANGED <<category, audited, stored, latest>>
       \/ pc[b] = "setLabel" /\ WriteLabel(b) /\ unrecorded' = TRUE
       \/ pc[b] = "addAudit" /\ WriteAudit(b)
       \/ pc[b] = "insert" /\ WriteReport(b)
    /\ UNCHANGED round

Restart ==
    /\ restarts < MaxRestarts /\ restarts' = restarts + 1
    /\ pc' = [r \in Runs |-> "idle"]
    /\ told' = [r \in Runs |-> IF pc[r] = "idle" THEN told[r] ELSE "gone"]
    /\ turn' = [r \in Runs |-> 0] /\ calls' = [r \in Runs |-> 0]
    /\ failed' = [r \in Runs |-> FALSE] /\ held' = [r \in Runs |-> Unset]
    /\ round' = <<>> /\ Forget(Runs)
    /\ UNCHANGED <<scope, stored, category, audited, latest, requests>>

Next ==
    \/ WakeScheduler \/ NextScope \/ Restart
    \/ \E r \in Runs : RunStep(r)
    \/ \E b \in Browsers : Browse(b) \/ HangUp(b) \/ PostFeedback(b) \/ SaveFeedback(b)

(* The loop of the scheduler sleeps a bounded time, and what it awaits is  *)
(* bounded by timeouts.                                                    *)
Fairness == WF_vars(WakeScheduler) /\ WF_vars(NextScope) /\ WF_vars(RunStep(Sched))
Spec == Init /\ [][Next]_vars /\ Fairness

-----------------------------------------------------------------------------
(* The variables stay in their types; nobody is past the turns it has, and *)
(* a label is in hand exactly while apply_label is between its steps.      *)
TypeOK ==
    /\ pc \in [Runs -> Stages] /\ scope \in [Runs -> ScopeSet \cup {Chat}]
    /\ turn \in [Runs -> 0 .. MaxIterations]
    /\ calls \in [Runs -> 0 .. MaxCalls]
    /\ failed \in [Runs -> BOOLEAN] /\ held \in [Runs -> Label \cup {Unset}]
    /\ told \in [Runs -> Ends] /\ stored \in [Runs -> BOOLEAN]
    /\ round \in Seq(ScopeSet)
    /\ category \in Categories \cup {Unset, NoRow}
    /\ audited \in Categories \cup {Unset} /\ unrecorded \in BOOLEAN
    /\ latest \in [ScopeSet -> {Unset, "whole", "failed"}]
    /\ requests \in 0 .. MaxRequests /\ restarts \in 0 .. MaxRestarts

(* What a caller is told of a report is true: one that was told of a       *)
(* report can find it stored, one that was told of an error left nothing,  *)
(* however the runs, hang-ups and restarts interleave.                     *)
StoredIffTold ==
    \A r \in Runs :
        /\ told[r] = "report" => stored[r] /\ latest[scope[r]] # Unset
        /\ told[r] \in {"error", "done"} => ~stored[r]

(* The audit trail of an analysed record ends in the label that the record *)
(* has, whichever of the labels that agents and users set at the same time *)
(* came first; otherwise the label's own row is to come, or never came     *)
(* because its writer failed or was cut off.                               *)
TrailEndsInLabel ==
    audited # Unset /\ category # NoRow =>
        category = audited \/ unrecorded \/ Pending(Runs)

(* Every scope is reported on again and again, though any run of any scope *)
(* may fail every time.                                                    *)
EveryScopeRefreshed ==
    \A s \in ScopeSet : []<>(scope[Sched] = s /\ pc[Sched] = "model")

(* "prior classification for the before/after audit pair" (feedback.py):   *)
(* the label a row gives as the one before is the one its change replaces. *)
BeforeIsReplaced ==
    [][\A r \in Runs : pc[r] = "setLabel" /\ pc'[r] = "addAudit"
                         => held[r].before = Current]_vars

(* "user confirms or corrects a classification" (feedback.py): an accepted *)
(* correction is the record's label.                                       *)
FeedbackTakesEffect ==
    [][\A r \in Runs : pc[r] = "feedback" /\ told'[r] = "done"
                         => held[r].after \in {Unset, category'}]_vars

(* A run whose model failed ends in an error ("terminal failure",          *)
(* generate_stream) and no report of it is kept.                           *)
FailureIsAnError == \A s \in ScopeSet : latest[s] # "failed"
=============================================================================
