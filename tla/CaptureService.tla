--------------------------- MODULE CaptureService ---------------------------
(***************************************************************************)
(* The capture loop of the client: one coroutine that samples the user's   *)
(* activity about once a second, opens a record when the window changes    *)
(* or a heartbeat is due, closes the one before, and a second task that    *)
(* takes the screenshot of a new window after a delay.  The loop gives up  *)
(* control at every await; while it waits the other task, the user, the    *)
(* clock and a shutdown go on.  The wall clock is the monotonic one: it    *)
(* is not set back while the client runs.                                  *)
(***************************************************************************)
EXTENDS Integers, Sequences

CONSTANTS Windows,      \* handles of windows
          NoWindow,     \* get_active_window returned None
          Null,         \* no record, no time, no task
          MaxGap,       \* _MAX_CONTINUOUS_OBSERVATION_GAP_S
          IdleAfter,    \* idle_threshold_s
          MinInterval,  \* min_capture_interval_s
          MaxInterval,  \* max_capture_interval_s
          Delay,        \* switch_capture_delay_s
          MaxTime,      \* bound: the clock
          MaxFaults     \* bound: failing backend calls

ASSUME CaptureAssumption ==
    /\ NoWindow \notin Windows /\ Windows \cap {"hidden", "idle"} = {}
    /\ Null \notin Windows \cup {NoWindow, "hidden", "idle"} \cup Int
    /\ MaxGap \in Nat /\ IdleAfter \in Nat \ {0} /\ Delay \in Nat
    /\ MinInterval \in Nat /\ MaxInterval \in Nat
    /\ MaxTime \in Nat /\ MaxFaults \in Nat

VARIABLES now,         \* the clock
          front,       \* the window in the foreground
          allowed,     \* should_capture: not paused, not excluded
          active,      \* IdleDetector._last_activity
          stage,       \* where the loop is
          tick,        \* the clock as this tick read it
          win,         \* the window this tick found
          lastTick,    \* _last_tick_monotonic and _last_tick_wall_ms
          isIdle,      \* _is_idle
          prev,        \* _prev_hwnd
          last,        \* _last_record_id: the record thought to be open
          lastCapture, \* _last_capture_ts
          shot,        \* the pending screenshot task
          records,     \* history: the records submitted, oldest first
          unclosed,    \* history: records whose close failed
          obs,         \* history: what each tick saw
          faults       \* failures so far

user == <<now, front, allowed, active>>
loop == <<tick, win, lastTick, isIdle, prev, obs>>
history == <<records, unclosed, faults>>
vars == <<user, stage, loop, last, lastCapture, shot, history>>

Times == 0 .. MaxTime
Record(w, ts) == [win |-> w, start |-> ts, end |-> Null]
Newest == Len(records)
Due == tick - lastCapture >= MaxInterval

(* Where the loop awaits, so that another task or a cancellation can run.  *)
Closing == {"gapClose", "idleClose", "switchClose", "beatClose"}
Awaits == Closing \cup {"asleep", "switchSubmit", "beatSubmit", "beatImage"}

Init ==
    /\ now = 0 /\ front \in Windows \cup {NoWindow} /\ allowed = TRUE
    /\ active = 0
    /\ stage = "asleep" /\ tick = -1 /\ win = Null /\ lastTick = Null
    /\ isIdle = FALSE /\ prev = Null /\ obs = [t \in Times |-> Null]
    /\ last = Null /\ lastCapture = -MaxInterval /\ shot = Null
    /\ records = <<>> /\ unclosed = {} /\ faults = 0

-----------------------------------------------------------------------------
(* The world: time passes, the user types, changes windows or pauses.      *)
World ==
    /\ stage # "stopped"
    /\ UNCHANGED <<stage, loop, last, lastCapture, shot, history>>

Pass == World /\ now < MaxTime /\ now' = now + 1
        /\ UNCHANGED <<front, allowed, active>>

Type == World /\ active # now /\ active' = now
        /\ UNCHANGED <<now, front, allowed>>

Look == World /\ front' \in Windows \cup {NoWindow} /\ allowed' \in BOOLEAN
        /\ (front' = NoWindow => allowed')   \* there is nothing to exclude
        /\ <<front, allowed>>' # <<front, allowed>>
        /\ UNCHANGED <<now, active>>

-----------------------------------------------------------------------------
(* _tick, up to its first await.                                           *)
StartTick ==
    /\ stage = "asleep" /\ now > tick
    /\ tick' = now
    /\ stage' = IF lastTick = Null THEN "observe"
                ELSE IF now - lastTick <= MaxGap THEN "observe"
                ELSE IF last = Null THEN "gapReset" ELSE "gapClose"
    /\ UNCHANGED <<user, win, lastTick, isIdle, prev, obs, last, lastCapture,
                   shot, history>>

(* Mistakes: GapResetKeepsWindow, CloseTimeTick, CloseTimeNow and          *)
(* BeatImageForgets each stand in for the definition that follows; a       *)
(* property below must notice the difference.                              *)
GapResetKeepsWindow ==
    /\ stage = "gapReset" /\ stage' = "observe"
    /\ last' = Null /\ shot' = Null
    /\ UNCHANGED <<user, tick, win, lastTick, isIdle, prev, obs, lastCapture,
                   history>>

(* After a gap: nothing is known, the pending screenshot is cancelled.     *)
GapReset ==
    /\ stage = "gapReset" /\ stage' = "observe"
    /\ last' = Null /\ prev' = Null /\ shot' = Null
    /\ UNCHANGED <<user, tick, win, lastTick, isIdle, obs, lastCapture,
                   history>>

View == IF front = NoWindow \/ ~allowed THEN "hidden" ELSE front

(* The rest of _tick up to the next await: idle, window, switch, heartbeat. *)
(* A window that must not be captured leaves the open record as it is.      *)
Observe ==
    LET idle == now - active >= IdleAfter
        after(closing, next) == IF last = Null THEN next ELSE closing
    IN  /\ stage = "observe"
        /\ lastTick' = tick /\ isIdle' = idle
        /\ win' = IF idle \/ View = "hidden" THEN Null ELSE View
        /\ obs' = [obs EXCEPT ![tick] = IF idle THEN "idle" ELSE View]
        /\ stage' = IF idle THEN IF isIdle THEN "asleep"
                                 ELSE after("idleClose", "asleep")
                    ELSE IF View = "hidden" THEN "asleep"
                    ELSE IF View # prev
                         THEN after("switchClose", "switchSubmit")
                    ELSE IF Due THEN after("beatClose", "beatSubmit")
                    ELSE "asleep"
        /\ UNCHANGED <<user, tick, prev, last, lastCapture, shot, history>>

CloseTimeTick == tick
CloseTimeNow == IF stage \in {"gapClose", "shutdown"} THEN lastTick ELSE now

(* Across a gap, and at shutdown, a record ends when it was last observed. *)
CloseTime == IF stage \in {"gapClose", "shutdown"} THEN lastTick ELSE tick

(* _safe_close_record: a failure is logged and swallowed.                  *)
Closed == records' = [records EXCEPT ![last].end = CloseTime]
SafeClose ==
    \/ Closed /\ UNCHANGED <<unclosed, faults>>
    \/ /\ faults < MaxFaults /\ faults' = faults + 1
       /\ unclosed' = unclosed \cup {last} /\ UNCHANGED records

CloseLast ==
    /\ stage \in Closing /\ SafeClose
    /\ stage' = CASE stage = "gapClose" -> "gapReset"
                  [] stage = "idleClose" -> "asleep"
                  [] stage = "switchClose" -> "switchSubmit"
                  [] stage = "beatClose" -> "beatSubmit"
    /\ last' = IF stage = "idleClose" THEN Null ELSE last
    /\ UNCHANGED <<user, loop, lastCapture, shot>>

Submitted == records' = Append(records, Record(win, tick))

(* submit_record returned: the screenshot of the window before is          *)
(* cancelled and that of the new one scheduled.                            *)
SwitchSubmit ==
    /\ stage = "switchSubmit" /\ stage' = "asleep"
    /\ Submitted /\ last' = Newest + 1 /\ prev' = win /\ win' = Null
    /\ shot' = [win |-> win, due |-> now + Delay]
    /\ UNCHANGED <<user, tick, lastTick, isIdle, obs, lastCapture, unclosed,
                   faults>>

BeatSubmit ==
    /\ stage = "beatSubmit" /\ stage' = "beatImage"
    /\ Submitted /\ lastCapture' = tick /\ win' = Null
    /\ UNCHANGED <<user, tick, lastTick, isIdle, prev, obs, last, shot,
                   unclosed, faults>>

BeatImageForgets ==
    /\ stage = "beatImage" /\ stage' = "asleep"
    /\ UNCHANGED <<user, loop, last, lastCapture, shot, history>>

(* The heartbeat's screenshot is done; only then is its record the last.   *)
BeatImage ==
    /\ stage = "beatImage" /\ stage' = "asleep" /\ last' = Newest
    /\ UNCHANGED <<user, loop, lastCapture, shot, history>>

-----------------------------------------------------------------------------
(* _delayed_screenshot and _save_screenshot, interleaved with the loop     *)
ShotDue == shot # Null /\ now >= shot.due /\ stage \in Awaits \cup {"shutdown"}
ShotWanted == front = shot.win /\ now - lastCapture >= MinInterval

TakeShot ==
    /\ ShotDue /\ ShotWanted
    /\ lastCapture' = now /\ shot' = Null
    /\ UNCHANGED <<user, stage, loop, last, history>>

SkipShot ==
    /\ ShotDue /\ ~ShotWanted /\ shot' = Null
    /\ UNCHANGED <<user, stage, loop, last, lastCapture, history>>

-----------------------------------------------------------------------------
(* What run's finally has left to do *)
Ended(r) == IF r = Null THEN "stopped" ELSE "shutdown"

(* A submit that fails, or a screenshot's, ends the capture.               *)
SubmitFails ==
    /\ stage \in {"switchSubmit", "beatSubmit", "beatImage"}
    /\ faults < MaxFaults /\ faults' = faults + 1
    /\ stage' = Ended(last)
    /\ UNCHANGED <<user, loop, last, lastCapture, shot, records, unclosed>>

(* The task is cancelled wherever it awaits; what the outbox had in hand   *)
(* may have been appended all the same.                                    *)
Stop ==
    /\ stage \in Awaits
    /\ stage' = Ended(last)
    /\ \/ UNCHANGED records
       \/ stage \in Closing /\ Closed
       \/ stage \in {"switchSubmit", "beatSubmit"} /\ Submitted
    /\ UNCHANGED <<user, loop, last, lastCapture, shot, unclosed, faults>>

Shutdown ==
    /\ stage = "shutdown" /\ stage' = "stopped"
    /\ SafeClose /\ shot' = Null
    /\ UNCHANGED <<user, loop, last, lastCapture>>

Next ==
    \/ Pass \/ Type \/ Look
    \/ StartTick \/ GapReset \/ Observe \/ CloseLast
    \/ SwitchSubmit \/ BeatSubmit \/ BeatImage
    \/ TakeShot \/ SkipShot
    \/ SubmitFails \/ Stop \/ Shutdown

Spec == Init /\ [][Next]_vars

-----------------------------------------------------------------------------
Stages == Awaits \cup {"observe", "gapReset", "shutdown", "stopped"}
Views == Windows \cup {"hidden"}

(* Every variable keeps its type; in particular the record the loop thinks *)
(* is open was submitted, and a loop that is to close one has one.         *)
TypeOK ==
    /\ now \in Times /\ active \in Times /\ active <= now
    /\ front \in Windows \cup {NoWindow} /\ allowed \in BOOLEAN
    /\ stage \in Stages
    /\ tick \in Times \cup {-1} /\ tick <= now
    /\ lastTick \in Times \cup {Null}
    /\ win \in Windows \cup {Null} /\ prev \in Windows \cup {Null}
    /\ isIdle \in BOOLEAN
    /\ records \in Seq([win : Windows, start : Times,
                        end : Times \cup {Null}])
    /\ last \in DOMAIN records \cup {Null}
    /\ stage \in Closing \cup {"shutdown"} => last # Null
    /\ stage \in {"switchClose", "switchSubmit", "beatClose", "beatSubmit"}
       => win # Null
    /\ stage = "beatImage" => records # <<>>
    /\ stage \in {"gapReset", "gapClose"} => lastTick # Null
    /\ lastCapture \in Times \cup {-MaxInterval}
    /\ shot = Null \/ shot \in [win : Windows, due : Nat]
    /\ unclosed \subseteq DOMAIN records
    /\ obs \in [Times -> Views \cup {"idle", Null}]
    /\ faults \in 0 .. MaxFaults

(* The records of a client follow one another: whatever ends a record, it  *)
(* ends before the next one starts and not before it started itself.       *)
OneAtATime ==
    \A i \in DOMAIN records : records[i].end # Null =>
        /\ records[i].start <= records[i].end
        /\ \A j \in DOMAIN records :
               i < j => records[i].end <= records[j].start

(* Between two ticks the only record left open is the one the loop will    *)
(* close next, unless closing it failed: none is forgotten on the way.     *)
OnlyLastOpen ==
    stage = "asleep" =>
        \A i \in DOMAIN records :
            records[i].end = Null => i = last \/ i \in unclosed

(* "One activity record covers only what was observed without a break"     *)
(* (devlogs/PLAN.md:62): no record spans two ticks further apart than the  *)
(* gap the loop allows itself, nor a tick that found the user idle.        *)
Spans(r, t, u) == r.end # Null /\ r.start <= t /\ u <= r.end
ObservedOnly ==
    \A i \in DOMAIN records :
        /\ \A t, u \in Times :
              /\ Spans(records[i], t, u) /\ u - t > MaxGap
              /\ obs[t] # Null /\ obs[u] # Null
              => \E v \in t + 1 .. u - 1 : obs[v] # Null
        /\ \A t \in Times : Spans(records[i], t, t) /\ obs[t] = "idle"
                            => t = records[i].end

(* After a tick that saw the user in a window, the open record is of that  *)
(* window.  Only after idling, when the user returns to the window, there  *)
(* may be none, and then the last screenshot is less than a heartbeat ago. *)
ActivityCovered ==
    stage = "asleep" /\ lastTick # Null /\ obs[lastTick] \in Windows =>
        IF last # Null THEN records[last].win = obs[lastTick]
        ELSE /\ lastTick - lastCapture < MaxInterval
             /\ \E t \in Times : obs[t] = "idle"

(* "Pausing applies immediately" (client/controller.py:219): no screenshot *)
(* is taken of what must not be captured.                                  *)
PausedAtOnce ==
    [][TakeShot => allowed]_vars
=============================================================================
