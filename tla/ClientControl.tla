---------------------------- MODULE ClientControl ----------------------------
(***************************************************************************)
(* The desktop client's controls: pausing and switching connections on and *)
(* off, each written to client.toml and applied under one lock; the        *)
(* selector, which probes the connections and keeps one of them; the ssh   *)
(* tunnels some of them need; and quitting.  Requests come from the tray   *)
(* and the local control page, probes are asked for by the periodic loop,  *)
(* by failed uploads and by a switched connection.  What the client        *)
(* uploads is in Delivery; here uploads only begin, succeed or fail.       *)
(***************************************************************************)
EXTENDS Integers, SequencesExt

CONSTANTS N,           \* connections, 1 .. N in order of priority
          Ssh,         \* those that need a tunnel
          Uploads,     \* the sender's workers, one for each entry of its window
          Null,        \* nothing
          MaxChanges,  \* bound: connections that come or go, tunnels that die
          MaxRequests, \* bound: requests of the user
          MaxFaults    \* bound: failing saves, missed probes, crashes

Endpoints == 1 .. N

Callers == {"startup", "loop", "control"} \cup Uploads
Flags == [Endpoints -> BOOLEAN]
Files == [paused : BOOLEAN, enabled : Flags]
Mutations == [kind : {"pause", "resume", "endpoint", "select"}, write : Files]
Selections == [who : Callers, todo : SUBSET Endpoints, known : SUBSET Endpoints,
               chosen : Endpoints \cup {Null}]

ASSUME ControlAssumption ==
    /\ N \in Nat \ {0} /\ Ssh \subseteq 1 .. N
    /\ Uploads \cap {"startup", "loop", "control"} = {}
    /\ Null \notin Endpoints \cup Mutations \cup Selections
    /\ MaxChanges \in Nat /\ MaxRequests \in Nat /\ MaxFaults \in Nat

VARIABLES file,      \* client.toml: the part the control panel owns
          paused,    \* config.privacy.paused
          enabled,   \* config.server.endpoints[i].enabled
          persisted, \* _pause_persisted
          op,        \* the mutation that holds _mutation_lock, or Null
          current,   \* EndpointSelector._current
          probing,   \* the select that holds its lock, or Null
          waiting,   \* who waits for that lock, in order
          tunnel,    \* the task of each tunnel: "none" when it has none
          phase,     \* starting, running, stopping, stopped
          reach,     \* connections that would answer /healthz
          uploading, \* workers with an entry that is not sent yet
          changes, requests, faults

controls == <<file, paused, enabled, persisted, op>>
selector == <<current, probing, waiting>>
bounds == <<changes, requests, faults>>
vars == <<controls, selector, tunnel, phase, reach, uploading, bounds>>

Some(flags) == \E e \in Endpoints : flags[e]
Healthy(e) == e \in reach /\ (e \in Ssh => tunnel[e] = "up")
AtWork == phase \in {"running", "stopping"}
Free(who) == /\ \A i \in DOMAIN waiting : waiting[i] # who
             /\ probing # Null => probing.who # who
Asked(who) == waiting' = Append(waiting, who)

(* What a start of the client does with the file it finds                  *)
Loaded ==
    /\ paused' = file.paused /\ enabled' = file.enabled /\ persisted' = TRUE
    /\ tunnel' = [e \in Endpoints |-> IF e \in Ssh /\ file.enabled[e]
                                      THEN "down" ELSE "none"]

Init ==
    /\ \E p \in BOOLEAN, f \in {g \in Flags : Some(g)} :
          /\ file = [paused |-> p, enabled |-> f]
          /\ paused = p /\ enabled = f
          /\ tunnel = [e \in Endpoints |-> IF e \in Ssh /\ f[e]
                                           THEN "down" ELSE "none"]
    /\ persisted = TRUE /\ op = Null
    /\ current = Null /\ probing = Null /\ waiting = <<"startup">>
    /\ phase = "starting" /\ reach \in SUBSET Endpoints /\ uploading = {}
    /\ changes = 0 /\ requests = 0 /\ faults = 0

-----------------------------------------------------------------------------
(* set_paused and set_endpoint_enabled under _mutation_lock                *)
Request(o) ==
    /\ phase = "running" /\ op = Null /\ requests < MaxRequests
    /\ requests' = requests + 1 /\ op' = o
    /\ UNCHANGED <<selector, tunnel, phase, reach, uploading, changes, faults>>

Write(p, flags) == [paused |-> p, enabled |-> flags]

(* Mistakes: ResumeAtOnce, ToProbeHigher and KeptAnyway each stand in for  *)
(* the definition that follows; a property below must notice.              *)

(* Pausing applies before it is saved ...                                  *)
Pause ==
    /\ ~(paused /\ persisted)
    /\ Request([kind |-> "pause", write |-> Write(TRUE, enabled)])
    /\ paused' = TRUE
    /\ UNCHANGED <<file, enabled, persisted>>

ResumeAtOnce ==
    /\ ~(~paused /\ persisted)
    /\ Request([kind |-> "resume", write |-> Write(FALSE, enabled)])
    /\ paused' = FALSE
    /\ UNCHANGED <<file, enabled, persisted>>

(* ... and resuming after.                                                 *)
Resume ==
    /\ ~(~paused /\ persisted)
    /\ Request([kind |-> "resume", write |-> Write(FALSE, enabled)])
    /\ UNCHANGED <<file, paused, enabled, persisted>>

(* Only a tunnel that was started with the client may be switched on.      *)
MayEnable(e) == e \in Ssh => tunnel[e] # "none"

SetEndpoint(e) ==
    LET flags == [enabled EXCEPT ![e] = ~@]
    IN  /\ ~enabled[e] => MayEnable(e)
        /\ Some(flags)
        /\ Request([kind |-> "endpoint", write |-> Write(paused, flags)])
        /\ UNCHANGED <<file, paused, enabled, persisted>>

(* save_control_state in its thread: the file is replaced as a whole.      *)
Saved ==
    /\ AtWork /\ op # Null /\ op.kind # "select" /\ file' = op.write
    /\ persisted' = TRUE
    /\ paused' = IF op.kind = "resume" THEN FALSE ELSE paused
    /\ IF op.kind = "endpoint"
       THEN /\ enabled' = op.write.enabled /\ Asked("control")
            /\ op' = [op EXCEPT !.kind = "select"]
       ELSE op' = Null /\ UNCHANGED <<enabled, waiting>>
    /\ UNCHANGED <<current, probing, tunnel, phase, reach, uploading, bounds>>

(* It may fail before or after the file was replaced.                      *)
SaveFails ==
    /\ AtWork /\ op # Null /\ op.kind # "select"
    /\ faults < MaxFaults /\ faults' = faults + 1
    /\ op' = Null /\ file' \in {file, op.write}
    /\ persisted' = IF op.kind = "endpoint" THEN persisted ELSE FALSE
    /\ UNCHANGED <<paused, enabled, selector, tunnel, phase, reach, uploading,
                   changes, requests>>

-----------------------------------------------------------------------------
(* EndpointSelector.select: who asks, what is probed, what is chosen       *)
LoopAsks ==
    /\ phase = "running" /\ Free("loop") /\ Asked("loop")
    /\ UNCHANGED <<controls, current, probing, tunnel, phase, reach, uploading, bounds>>

(* Uploads: nobody promises that there is anything to send.  One may fail  *)
(* over any connection, and over a dead one or none it can only fail; then *)
(* it asks for a selection and tries again.                                *)
Dead == current # Null => ~Healthy(current)

BeginUpload(u) ==
    /\ phase = "running" /\ u \notin uploading
    /\ uploading' = uploading \cup {u}
    /\ UNCHANGED <<controls, selector, tunnel, phase, reach, bounds>>

Uploaded(u) ==
    /\ AtWork /\ u \in uploading /\ Free(u) /\ ~Dead
    /\ uploading' = uploading \ {u}
    /\ UNCHANGED <<controls, selector, tunnel, phase, reach, bounds>>

SendFails(u) ==
    /\ AtWork /\ u \in uploading /\ Free(u) /\ Asked(u)
    /\ UNCHANGED <<controls, current, probing, tunnel, phase, reach, uploading, bounds>>

ToProbeHigher(who) ==
    IF current # Null /\ enabled[current]
    THEN {e \in Endpoints : enabled[e] /\ e < current}
    ELSE {e \in Endpoints : enabled[e]}

(* The loop looks only for something better than what it has.              *)
ToProbe(who) ==
    IF who = "loop" /\ current # Null /\ enabled[current]
    THEN {e \in Endpoints : enabled[e] /\ e < current}
    ELSE {e \in Endpoints : enabled[e]}

StartSelect ==
    /\ probing = Null /\ waiting # <<>>
    /\ waiting' = Tail(waiting)
    /\ probing' = [who |-> Head(waiting), todo |-> ToProbe(Head(waiting)),
                   known |-> {e \in Endpoints : enabled[e]}, chosen |-> Null]
    /\ UNCHANGED <<controls, current, tunnel, phase, reach, uploading, bounds>>

(* One probe: the first connection not asked yet; a slow one may be missed *)
Probe ==
    /\ probing # Null /\ probing.todo # {}
    /\ LET e == CHOOSE x \in probing.todo : \A y \in probing.todo : x <= y
           chosen == IF probing.chosen = Null THEN e ELSE probing.chosen
       IN  \/ /\ probing' = [probing EXCEPT !.todo = @ \ {e},
                                !.chosen = IF Healthy(e) THEN chosen ELSE @]
              /\ UNCHANGED faults
           \/ /\ Healthy(e) /\ faults < MaxFaults /\ faults' = faults + 1
              /\ probing' = [probing EXCEPT !.todo = @ \ {e}]
    /\ UNCHANGED <<controls, current, waiting, tunnel, phase, reach, uploading,
                   changes, requests>>

KeptAnyway == IF probing.chosen # Null THEN probing.chosen ELSE current

(* The first healthy one; otherwise the current one while it is enabled.   *)
Kept ==
    IF probing.chosen # Null THEN probing.chosen
    ELSE IF current \in probing.known THEN current ELSE Null

EndSelect ==
    /\ probing # Null /\ probing.todo = {}
    /\ current' = Kept /\ probing' = Null
    /\ op' = IF probing.who = "control" THEN Null ELSE op
    /\ phase' = IF probing.who = "startup" THEN "running" ELSE phase
    /\ UNCHANGED <<file, paused, enabled, persisted, waiting, tunnel, reach,
                   uploading, bounds>>

-----------------------------------------------------------------------------
(* SshTunnel.run: spawn, restart after it exits, end when told to stop     *)
SpawnTunnel(e) ==
    /\ phase = "running" /\ tunnel[e] = "down"
    /\ tunnel' = [tunnel EXCEPT ![e] = "up"]
    /\ UNCHANGED <<controls, selector, phase, reach, uploading, bounds>>

TunnelDies(e) ==
    /\ phase = "running" /\ tunnel[e] = "up"
    /\ changes < MaxChanges /\ changes' = changes + 1
    /\ tunnel' = [tunnel EXCEPT ![e] = "down"]
    /\ UNCHANGED <<controls, selector, phase, reach, uploading, requests, faults>>

TunnelEnds(e) ==
    /\ phase = "stopping" /\ tunnel[e] \in {"up", "down"}
    /\ tunnel' = [tunnel EXCEPT ![e] = "none"]
    /\ UNCHANGED <<controls, selector, phase, reach, uploading, bounds>>

ReachChanges(e) ==
    /\ phase \in {"starting", "running"}
    /\ changes < MaxChanges /\ changes' = changes + 1
    /\ reach' = IF e \in reach THEN reach \ {e} ELSE reach \cup {e}
    /\ UNCHANGED <<controls, selector, tunnel, phase, uploading, requests, faults>>

-----------------------------------------------------------------------------
(* request_shutdown and _watch_quit                                        *)
Quit ==
    /\ phase = "running" /\ requests < MaxRequests /\ requests' = requests + 1
    /\ phase' = "stopping"
    /\ UNCHANGED <<controls, selector, tunnel, reach, uploading, changes, faults>>

(* The sender is given three seconds, then cancelled: each of its workers, *)
(* wherever it waits.                                                      *)
CancelUpload(u) ==
    /\ phase = "stopping" /\ u \in uploading /\ uploading' = uploading \ {u}
    /\ \/ Free(u) /\ UNCHANGED <<probing, waiting>>
       \/ /\ \E i \in DOMAIN waiting : waiting[i] = u /\ waiting' = RemoveAt(waiting, i)
          /\ UNCHANGED probing
       \/ /\ probing # Null /\ probing.who = u /\ probing' = Null
          /\ UNCHANGED waiting
    /\ UNCHANGED <<controls, current, tunnel, phase, reach, bounds>>

Gone == /\ op' = Null /\ current' = Null /\ probing' = Null /\ waiting' = <<>>
        /\ phase' = "stopped" /\ uploading' = {}
        /\ UNCHANGED <<paused, enabled, persisted, reach, changes, requests>>

(* All tasks have ended; a save still under way ends with the process.     *)
Exit ==
    /\ phase = "stopping"
    /\ Free("loop") /\ uploading = {} /\ \A e \in Ssh : tunnel[e] = "none"
    /\ Gone
    /\ \/ UNCHANGED file
       \/ op # Null /\ op.kind # "select" /\ file' = op.write
    /\ UNCHANGED <<tunnel, faults>>

(* The process dies at any moment.                                         *)
Crash ==
    /\ phase # "stopped" /\ faults < MaxFaults /\ faults' = faults + 1
    /\ Gone /\ tunnel' = [e \in Endpoints |-> "none"]
    /\ UNCHANGED file

Start ==
    /\ phase = "stopped" /\ requests < MaxRequests /\ requests' = requests + 1
    /\ phase' = "starting" /\ Loaded /\ waiting' = <<"startup">>
    /\ UNCHANGED <<file, op, current, probing, reach, uploading, changes, faults>>

Next ==
    \/ Pause \/ Resume \/ (\E e \in Endpoints : SetEndpoint(e))
    \/ Saved \/ SaveFails
    \/ LoopAsks \/ StartSelect \/ Probe \/ EndSelect
    \/ \E u \in Uploads : BeginUpload(u) \/ Uploaded(u) \/ SendFails(u) \/ CancelUpload(u)
    \/ \E e \in Endpoints : SpawnTunnel(e) \/ TunnelDies(e) \/ TunnelEnds(e)
                            \/ ReachChanges(e)
    \/ Quit \/ Exit \/ Crash \/ Start

Spec == Init /\ [][Next]_vars

(* Every task of the client runs whenever it can; an upload under way over *)
(* a dead connection fails.                                                *)
Fairness ==
    /\ WF_vars(Saved) /\ WF_vars(LoopAsks)
    /\ \A u \in Uploads : WF_vars(Dead /\ SendFails(u)) /\ WF_vars(CancelUpload(u))
    /\ WF_vars(StartSelect \/ Probe \/ EndSelect)
    /\ \A e \in Ssh : WF_vars(SpawnTunnel(e)) /\ WF_vars(TunnelEnds(e))
    /\ WF_vars(Exit)

FairSpec == Spec /\ Fairness

-----------------------------------------------------------------------------
(* Every variable keeps its type; the lock of the mutations is held while  *)
(* the selection of a switched connection waits or runs.                   *)
TypeOK ==
    /\ file \in Files /\ paused \in BOOLEAN /\ persisted \in BOOLEAN
    /\ enabled \in Flags
    /\ op \in Mutations \cup {Null}
    /\ current \in Endpoints \cup {Null}
    /\ probing \in Selections \cup {Null}
    /\ waiting \in Seq(Callers)
    /\ tunnel \in [Endpoints -> {"none", "down", "up"}]
    /\ phase \in {"starting", "running", "stopping", "stopped"}
    /\ reach \subseteq Endpoints /\ uploading \subseteq Uploads
    /\ (~Free("control")) <=> (op # Null /\ op.kind = "select")

(* "A disk error can never accidentally re-enable capture"                 *)
(* (client/controller.py:219): a client captures only when its file says   *)
(* so, and what the panel shows as saved is what a restart would find.  A  *)
(* pause that could not be saved is shown as unsaved and ends with the     *)
(* session.                                                                *)
PauseIsSafe ==
    phase \in {"running", "stopping"} =>
        /\ ~paused => ~file.paused
        /\ persisted /\ op = Null => file.paused = paused

(* A connection switched off is not the active one, except until the       *)
(* selection that the switch itself asked for has ended: no probe that     *)
(* started earlier brings it back.                                         *)
DisabledNotActive ==
    current # Null /\ ~enabled[current] => op # Null /\ op.kind = "select"

(* The client always has a connection to try: the last one cannot be       *)
(* switched off, in the running client or in its file, and one that needs  *)
(* a tunnel is on only when the client keeps its tunnel.                   *)
AlwaysAConnection ==
    /\ Some(enabled) /\ Some(file.enabled)
    /\ phase = "running" => \A e \in Ssh : enabled[e] => tunnel[e] # "none"

Best == {e \in Endpoints : /\ enabled[e] /\ Healthy(e)
                           /\ \A d \in 1 .. e - 1 : ~(enabled[d] /\ Healthy(d))}

(* Once connections stop coming and going, the client uses the best one    *)
(* that works, coming from a better one that died as from a worse one; but *)
(* with nothing to send it may stay on a better one that died, which only  *)
(* an upload would notice.  A client told to quit does, whatever its tasks *)
(* are waiting for.                                                        *)
SettlesOnBest ==
    <>[](\/ phase = "stopped"
         \/ phase = "running" /\ \A e \in Best :
                current = e \/ (uploading = {} /\ current # Null /\ current < e))

(* client/controller.py:253: a resume that failed leaves the client "Still *)
(* paused because client.toml could not be updated."                       *)
FailedResumeStaysPaused ==
    [][op # Null /\ op.kind = "resume" /\ op' = Null /\ paused' /\ phase' # "stopped"
          => file' = file]_vars
=============================================================================
