---------------------------- MODULE KillGesture ----------------------------
(***************************************************************************)
(* The two-stage Ctrl+X of the TUI: a first press stops the session and    *)
(* arms a confirmation, a second press within the window queues its        *)
(* removal behind the stop.  Keys are the sessions, each with its one      *)
(* "kill" key on the mutation runner.                                      *)
(*                                                                         *)
(* What a stop or a removal does to the provider is its outcome alone.     *)
(***************************************************************************)
EXTENDS JobRunner

CONSTANT NoSession

ASSUME GestureAssumption == /\ NoSession \notin Keys
                            /\ Jobs = {"stop", "remove"}

VARIABLES armed,     \* App.armed_kill: its session, and whether the window is open
          listed,    \* per session: what the newest listing shows
          cleared,   \* history: sessions stopped, or armed when already finished
          failed,    \* history: sessions whose stop failed since their last press
          panicked   \* history: sessions whose last stop panicked on its worker

history == <<cleared, failed, panicked>>
vars == <<inFlight, dependents, running, landed, armed, listed, cleared, failed, panicked>>

NotArmed == [session |-> NoSession, open |-> FALSE]
Arm(s) == armed' = [session |-> s, open |-> TRUE]

TypeOK ==
    /\ RunnerTypeOK
    /\ armed \in [session : Keys \cup {NoSession}, open : BOOLEAN]
    /\ listed \in [Keys -> {"active", "finished", "absent"}]
    /\ cleared \subseteq Keys
    /\ failed \subseteq Keys
    /\ panicked \subseteq Keys

Init ==
    /\ RunnerInit
    /\ armed = NotArmed
    /\ listed = [s \in Keys |-> "absent"]
    /\ cleared = {}
    /\ failed = {}
    /\ panicked = {}

-----------------------------------------------------------------------------
(* kill_stage: is this press the second one? *)

(* Mutant: a press on any session confirms the armed one *)
ConfirmedByAny(s) == armed.session # NoSession /\ armed.open

Confirmed(s) == armed.session = s /\ armed.open

(* Stop: a refused submission leaves the arm standing *)
PressStop(s) ==
    /\ ~ Confirmed(s)
    /\ listed[s] = "active"
    /\ Arm(s)
    /\ Submit(s, "stop") \/ (s \in inFlight /\ UNCHANGED runner)
    /\ failed' = failed \ {s}
    /\ UNCHANGED <<listed, cleared, panicked>>

(* Noop: a finished session is armed and not stopped again *)
PressFinished(s) ==
    /\ ~ Confirmed(s)
    /\ listed[s] = "finished"
    /\ Arm(s)
    /\ cleared' = cleared \cup {s}
    /\ failed' = failed \ {s}
    /\ UNCHANGED <<runner, listed, panicked>>

(* Remove *)
PressRemove(s) ==
    /\ Confirmed(s)
    /\ listed[s] # "absent"
    /\ armed' = NotArmed
    /\ SubmitAfterSuccess(s, "remove")
    /\ failed' = failed \ {s}
    /\ UNCHANGED <<listed, cleared, panicked>>

WindowCloses ==
    /\ armed.open
    /\ armed' = [armed EXCEPT !.open = FALSE]
    /\ UNCHANGED <<runner, listed, history>>

JobEnds(s) ==
    /\ Finish(s)
    /\ UNCHANGED <<armed, listed, history>>

(* Mutant: a failed stop leaves its confirmation standing *)
KeepArmed(r) == UNCHANGED armed

(* disarm_kill_for: only an error the stop itself returned carries the     *)
(* marker; the runner's report of a panic does not                         *)
Disarm(r) ==
    armed' = IF r.job = "stop" /\ r.outcome = "error" /\ armed.session = r.key
             THEN NotArmed ELSE armed

(* apply_mutation_result on one polled result *)
Land(r) ==
    /\ Poll(r)
    /\ Disarm(r)
    /\ cleared' = IF r.job = "stop" /\ r.outcome = "ok" THEN cleared \cup {r.key} ELSE cleared
    /\ failed' = IF r.job = "stop" /\ r.outcome # "ok" THEN failed \cup {r.key} ELSE failed
    /\ panicked' = IF r.job # "stop" THEN panicked
                   ELSE IF r.outcome = "panic" THEN panicked \cup {r.key}
                   ELSE panicked \ {r.key}
    /\ UNCHANGED listed

(* A listing may show anything: sessions resume, end and go elsewhere too *)
Listing ==
    /\ listed' \in [Keys -> {"active", "finished", "absent"}]
    /\ UNCHANGED <<runner, armed, history>>

Next ==
    \/ \E s \in Keys : PressStop(s) \/ PressFinished(s) \/ PressRemove(s) \/ JobEnds(s)
    \/ \E r \in landed : Land(r)
    \/ WindowCloses
    \/ Listing

Spec == Init /\ [][Next]_vars

-----------------------------------------------------------------------------
(* Safety: no removal runs for a session that was never stopped with       *)
(* success nor already finished when it was armed, whatever presses the    *)
(* sealed key refused or queued on the way (mutations.rs, poll: a          *)
(* dependent starts only after a success).  The one way around it is a     *)
(* stop that panicked: its confirmation stands and the key is free.        *)
OnlyClearedAreRemoved ==
    \A s \in Keys : running[s] = "remove" => s \in cleared \cup panicked

(* Safety: a stop that failed frees its key and takes the queued removal   *)
(* with it, a panic included; one that returned an error disarms too, so   *)
(* the next press retries the stop (disarm_kill_for).                      *)
FailedStopRetries ==
    \A s \in failed : /\ s \notin inFlight
                      /\ Confirmed(s) => s \in panicked

(* Claim of the README: "If stop fails, removal is discarded and           *)
(* confirmation is cleared, so the next press retries stop".  Violated by  *)
(* a stop that panics: the worker's report carries no failure marker.      *)
FailedStopForgets == \A s \in failed : ~ Confirmed(s) /\ s \notin inFlight
=============================================================================
