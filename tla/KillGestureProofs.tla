------------------------- MODULE KillGestureProofs -------------------------
(***************************************************************************)
(* The two-stage kill gesture never removes a session it did not stop, the *)
(* one exception being a stop that panicked.                               *)
(*                                                                         *)
(* The invariant follows the confirmation from the press that arms it to   *)
(* the removal: while it stands, or once a removal is queued, the session  *)
(* is cleared, its stop has still to be polled, or that stop panicked.     *)
(* What has panicked is only forgotten with the result of a later stop.    *)
(*                                                                         *)
(* The runner's own invariant comes first: for any keys and jobs it keeps  *)
(* every key sealed exactly while it is busy.  Its three properties are    *)
(* inductive only together: a poll frees a key safely because its result   *)
(* was the key's only one, and a submission finds no stale dependent       *)
(* because a key with one is sealed.                                       *)
(***************************************************************************)
EXTENDS KillGesture, TLAPS

RunnerInv ==
    /\ RunnerTypeOK
    /\ SealedWhileBusy
    /\ OneJobPerKey
    /\ NoOrphanDependent

LEMMA RunnerStarts == RunnerInit => RunnerInv
BY JobAssumption
   DEF RunnerInit, RunnerInv, RunnerTypeOK, SealedWhileBusy, OneJobPerKey,
       NoOrphanDependent, Pending

(* A submission seals a key that was free, so it had no worker, no result  *)
(* and no dependents entry.                                                *)
LEMMA SubmitKeeps ==
    ASSUME RunnerInv, NEW k \in Keys, NEW j \in Jobs, Submit(k, j)
    PROVE  RunnerInv'
<1>1. RunnerTypeOK'
  BY DEF RunnerInv, RunnerTypeOK, Submit, Start
<1>2. SealedWhileBusy'
  BY JobAssumption DEF RunnerInv, RunnerTypeOK, SealedWhileBusy, Pending, Submit, Start
<1>3. OneJobPerKey'
  BY DEF RunnerInv, RunnerTypeOK, SealedWhileBusy, OneJobPerKey, Pending, Submit, Start
<1>4. NoOrphanDependent'
  BY DEF RunnerInv, NoOrphanDependent, Submit, Start
<1>5. QED
  BY <1>1, <1>2, <1>3, <1>4 DEF RunnerInv

LEMMA QueueKeeps ==
    ASSUME RunnerInv, NEW k \in Keys, NEW j \in Jobs, Queue(k, j)
    PROVE  RunnerInv'
<1>1. RunnerTypeOK'
  BY DEF RunnerInv, RunnerTypeOK, Queue
<1>2. SealedWhileBusy' /\ OneJobPerKey'
  BY DEF RunnerInv, SealedWhileBusy, OneJobPerKey, Pending, Queue
<1>3. NoOrphanDependent'
  BY DEF RunnerInv, RunnerTypeOK, NoOrphanDependent, Queue
<1>4. QED
  BY <1>1, <1>2, <1>3 DEF RunnerInv

(* The worker's result takes its place: still one of the two per key.      *)
LEMMA FinishKeeps ==
    ASSUME RunnerInv, NEW k \in Keys, Finish(k)
    PROVE  RunnerInv'
<1>1. PICK outcome \in Outcomes :
        landed' = landed \cup {[key |-> k, job |-> running[k], outcome |-> outcome]}
  BY DEF Finish
<1> DEFINE new == [key |-> k, job |-> running[k], outcome |-> outcome]
<1>2. new \in Result /\ new.key = k
  BY DEF RunnerInv, RunnerTypeOK, Finish, Result
<1>3. landed' = landed \cup {new}
  BY <1>1
<1>4. \A other \in Keys : other # k => running'[other] = running[other]
  BY DEF RunnerInv, RunnerTypeOK, Finish
<1>5. running'[k] = NoJob /\ k \in inFlight
  BY DEF RunnerInv, RunnerTypeOK, SealedWhileBusy, Finish
<1>6. \A r \in landed : r.key # k
  BY DEF RunnerInv, OneJobPerKey, Pending, Finish
<1> HIDE DEF new
<1>7. RunnerTypeOK'
  BY <1>2, <1>3 DEF RunnerInv, RunnerTypeOK, Finish
<1>8. SealedWhileBusy'
  BY <1>2, <1>3, <1>4, <1>5 DEF RunnerInv, SealedWhileBusy, Pending, Finish
<1>9. OneJobPerKey'
  BY <1>2, <1>3, <1>4, <1>5, <1>6 DEF RunnerInv, OneJobPerKey, Pending
<1>10. NoOrphanDependent'
  BY DEF RunnerInv, NoOrphanDependent, Finish
<1>11. QED
  BY <1>7, <1>8, <1>9, <1>10 DEF RunnerInv

(* The polled result was the key's only one, and its worker is gone.       *)
LEMMA PollKeeps ==
    ASSUME RunnerInv, NEW r \in landed, Poll(r)
    PROVE  RunnerInv'
<1>1. r \in Result /\ r.key \in Keys /\ landed' = landed \ {r}
  BY DEF RunnerInv, RunnerTypeOK, Result, Poll
<1>2. running[r.key] = NoJob /\ r.key \in inFlight
  BY <1>1 DEF RunnerInv, OneJobPerKey, SealedWhileBusy, Pending
<1>3. ~ \E s \in landed' : s.key = r.key
  BY <1>1 DEF RunnerInv, OneJobPerKey
<1>4. \A k \in Keys : k # r.key => ((\E s \in landed' : s.key = k) <=> (\E s \in landed : s.key = k))
  BY <1>1
<1>5. \A s, t \in landed' : s.key = t.key => s = t
  BY <1>1 DEF RunnerInv, OneJobPerKey
<1>6. CASE Continues(r)
  <2>1. dependents[r.key] \in Jobs /\ HandOver(r)
    BY <1>6 DEF Poll, Continues
  <2>2. running' = [running EXCEPT ![r.key] = dependents[r.key]]
    BY <2>1 DEF HandOver, Start
  <2>3. /\ dependents' = [dependents EXCEPT ![r.key] = Taken]
        /\ inFlight' = inFlight
    BY <2>1 DEF HandOver
  <2>4. RunnerTypeOK'
    BY <1>1, <2>1, <2>2, <2>3 DEF RunnerInv, RunnerTypeOK
  <2>5. SealedWhileBusy'
    BY JobAssumption, <1>1, <1>2, <1>4, <2>1, <2>2, <2>3
       DEF RunnerInv, RunnerTypeOK, SealedWhileBusy, Pending
  <2>6. OneJobPerKey'
    BY <1>1, <1>3, <1>4, <1>5, <2>2 DEF RunnerInv, RunnerTypeOK, OneJobPerKey, Pending
  <2>7. NoOrphanDependent'
    BY <1>1, <1>2, <2>3 DEF RunnerInv, RunnerTypeOK, NoOrphanDependent
  <2>8. QED
    BY <2>4, <2>5, <2>6, <2>7 DEF RunnerInv
<1>7. CASE ~ Continues(r)
  <2>1. /\ dependents' = [dependents EXCEPT ![r.key] = NoJob]
        /\ inFlight' = inFlight \ {r.key}
        /\ running' = running
    BY <1>7 DEF Poll, Free
  <2>2. RunnerTypeOK'
    BY <1>1, <2>1 DEF RunnerInv, RunnerTypeOK
  <2>3. SealedWhileBusy'
    BY <1>1, <1>2, <1>3, <1>4, <2>1 DEF RunnerInv, SealedWhileBusy, Pending
  <2>4. OneJobPerKey'
    BY <1>1, <1>5, <2>1 DEF RunnerInv, OneJobPerKey, Pending
  <2>5. NoOrphanDependent'
    BY <1>1, <2>1 DEF RunnerInv, RunnerTypeOK, NoOrphanDependent
  <2>6. QED
    BY <2>2, <2>3, <2>4, <2>5 DEF RunnerInv
<1>8. QED
  BY <1>6, <1>7

LEMMA RunnerStutters == ASSUME RunnerInv, UNCHANGED runner PROVE RunnerInv'
BY DEF RunnerInv, RunnerTypeOK, SealedWhileBusy, OneJobPerKey, NoOrphanDependent,
       Pending, runner

LEMMA RunnerStepKeeps == ASSUME RunnerInv, [RunnerNext]_runner PROVE RunnerInv'
<1>1. CASE UNCHANGED runner
  BY <1>1, RunnerStutters
<1>2. CASE \E k \in Keys, j \in Jobs : SubmitAfterSuccess(k, j)
  BY <1>2, SubmitKeeps, QueueKeeps, RunnerStutters DEF SubmitAfterSuccess, Refused
<1>3. CASE \E k \in Keys : Finish(k)
  BY <1>3, FinishKeeps
<1>4. CASE \E r \in landed : Poll(r)
  BY <1>4, PollKeeps
<1>5. QED
  BY <1>1, <1>2, <1>3, <1>4 DEF RunnerNext

(* The inductive invariant as a theorem of the runner's specification.     *)
THEOREM RunnerInvariance == RunnerSpec => []RunnerInv
<1>1. RunnerInit => RunnerInv
  BY RunnerStarts
<1>2. RunnerInv /\ [RunnerNext]_runner => RunnerInv'
  BY RunnerStepKeeps
<1>3. QED
  BY <1>1, <1>2, PTL DEF RunnerSpec

(* A key is sealed while, and only while, its pipeline is busy: no result  *)
(* of a job, a panic included, leaves its key sealed for good, and no key  *)
(* is free under a running job (in_flight of the source).                  *)
THEOREM KeysAreSealedWhileBusy == RunnerSpec => [](SealedWhileBusy /\ OneJobPerKey)
<1>1. RunnerInv => SealedWhileBusy /\ OneJobPerKey
  BY DEF RunnerInv
<1>2. QED
  BY <1>1, RunnerInvariance, PTL

(* A dependent is gone once its pipeline is, so a later submission never   *)
(* inherits one.                                                           *)
THEOREM DependentsDieWithTheirPipeline == RunnerSpec => []NoOrphanDependent
<1>1. RunnerInv => NoOrphanDependent
  BY DEF RunnerInv
<1>2. QED
  BY <1>1, RunnerInvariance, PTL

-----------------------------------------------------------------------------
(* The session's stop is running, or its result is still to be polled *)
Stopping(s) == running[s] = "stop" \/ \E r \in landed : r.key = s /\ r.job = "stop"

Removable(s) == s \in cleared \cup panicked

(* A removal's result belongs to a session that could be removed *)
RemovedWereCleared == \A r \in landed : r.job = "remove" => Removable(r.key)

ConfirmedIsCleared == \A s \in Keys : Confirmed(s) => Removable(s) \/ Stopping(s)

QueuedIsCleared == \A s \in Keys : dependents[s] = "remove" => Removable(s) \/ Stopping(s)

GestureInv ==
    /\ TypeOK
    /\ RunnerInv
    /\ OnlyClearedAreRemoved
    /\ RemovedWereCleared
    /\ ConfirmedIsCleared
    /\ QueuedIsCleared
    /\ FailedStopRetries

-----------------------------------------------------------------------------
(* Every step of the gesture is a step of the runner, or none.             *)
LEMMA GestureStepsRunner == ASSUME [Next]_vars PROVE [RunnerNext]_runner
<1> USE DEF runner
<1>1. CASE \E s \in Keys : PressStop(s)
  BY <1>1, GestureAssumption DEF PressStop, RunnerNext, SubmitAfterSuccess
<1>2. CASE \E s \in Keys : PressFinished(s)
  BY <1>2 DEF PressFinished
<1>3. CASE \E s \in Keys : PressRemove(s)
  BY <1>3, GestureAssumption DEF PressRemove, RunnerNext
<1>4. CASE \E s \in Keys : JobEnds(s)
  BY <1>4 DEF JobEnds, RunnerNext
<1>5. CASE \E r \in landed : Land(r)
  BY <1>5 DEF Land, RunnerNext
<1>6. CASE WindowCloses \/ Listing
  BY <1>6 DEF WindowCloses, Listing
<1>7. CASE UNCHANGED vars
  BY <1>7 DEF vars
<1>8. QED
  BY <1>1, <1>2, <1>3, <1>4, <1>5, <1>6, <1>7 DEF Next

(* The gesture reaches the runner through submit, submit_after_success and *)
(* poll alone, so what holds of the runner holds under it.                 *)
LEMMA GestureIsARunner == Spec => RunnerSpec
<1>1. Init => RunnerInit
  BY DEF Init
<1>2. [Next]_vars => [RunnerNext]_runner
  BY GestureStepsRunner
<1>3. QED
  BY <1>1, <1>2, PTL DEF Spec, RunnerSpec

(* No key stays sealed by the gesture, and none carries two jobs.          *)
THEOREM GestureSealsKeys == Spec => [](SealedWhileBusy /\ OneJobPerKey /\ NoOrphanDependent)
BY GestureIsARunner, KeysAreSealedWhileBusy, DependentsDieWithTheirPipeline, PTL

-----------------------------------------------------------------------------
LEMMA TypeStarts == ASSUME Init PROVE TypeOK
BY RunnerStarts, GestureAssumption DEF Init, TypeOK, RunnerInv, NotArmed

LEMMA TypeKeeps == ASSUME TypeOK, RunnerTypeOK', [Next]_vars PROVE TypeOK'
<1> USE GestureAssumption DEF TypeOK
<1>1. CASE \E s \in Keys : PressStop(s) \/ PressFinished(s)
  <2>1. PICK s \in Keys : PressStop(s) \/ PressFinished(s)
    BY <1>1
  <2>2. armed' = [session |-> s, open |-> TRUE] /\ listed' = listed
    BY <2>1 DEF PressStop, PressFinished, Arm
  <2>3. cleared' \in {cleared, cleared \cup {s}} /\ failed' = failed \ {s}
    BY <2>1 DEF PressStop, PressFinished
  <2>4. panicked' = panicked
    BY <2>1 DEF PressStop, PressFinished
  <2>5. QED
    BY <2>2, <2>3, <2>4
<1>2. CASE \E s \in Keys : PressRemove(s)
  BY <1>2 DEF PressRemove, NotArmed
<1>3. CASE \E s \in Keys : JobEnds(s)
  BY <1>3 DEF JobEnds, history
<1>4. CASE \E r \in landed : Land(r)
  <2>1. PICK r \in landed : Land(r)
    BY <1>4
  <2>2. r.key \in Keys
    BY DEF RunnerTypeOK, Result
  <2>3. armed' \in {armed, NotArmed}
    BY <2>1 DEF Land, Disarm
  <2>4. /\ cleared' \in {cleared, cleared \cup {r.key}}
        /\ failed' \in {failed, failed \cup {r.key}}
        /\ panicked' \in {panicked, panicked \cup {r.key}, panicked \ {r.key}}
    BY <2>1 DEF Land
  <2>5. listed' = listed
    BY <2>1 DEF Land
  <2>6. armed' \in [session : Keys \cup {NoSession}, open : BOOLEAN]
    <3>1. NotArmed \in [session : Keys \cup {NoSession}, open : BOOLEAN]
      BY DEF NotArmed
    <3>2. QED
      BY <2>3, <3>1
  <2>7. cleared' \subseteq Keys /\ failed' \subseteq Keys /\ panicked' \subseteq Keys
    BY <2>2, <2>4
  <2>8. QED
    BY <2>5, <2>6, <2>7
<1>5. CASE WindowCloses \/ Listing \/ UNCHANGED vars
  BY <1>5 DEF WindowCloses, Listing, vars, history
<1>6. QED
  BY <1>1, <1>2, <1>3, <1>4, <1>5 DEF Next

(* Type correctness, panics included.                                      *)
THEOREM TypeCorrect == Spec => []TypeOK
<1>1. Init => TypeOK /\ RunnerInv
  BY TypeStarts, RunnerStarts DEF Init
<1>2. TypeOK /\ RunnerInv /\ [Next]_vars => (TypeOK /\ RunnerInv)'
  BY TypeKeeps, GestureStepsRunner, RunnerStepKeeps DEF RunnerInv
<1>3. QED
  BY <1>1, <1>2, PTL DEF Spec

-----------------------------------------------------------------------------
LEMMA GestureStarts == ASSUME Init PROVE GestureInv
<1>1. RunnerInv
  BY RunnerStarts DEF Init
<1>2. TypeOK
  BY <1>1, GestureAssumption DEF Init, TypeOK, RunnerInv, NotArmed
<1>3. QED
  BY <1>1, <1>2, GestureAssumption, JobAssumption
     DEF Init, RunnerInit, GestureInv, OnlyClearedAreRemoved, Removable,
         RemovedWereCleared, ConfirmedIsCleared, QueuedIsCleared, FailedStopRetries,
         NotArmed, Confirmed

LEMMA RunnerPartKeeps == ASSUME GestureInv, [Next]_vars PROVE RunnerInv'
BY GestureStepsRunner, RunnerStepKeeps DEF GestureInv

(* A press that starts or repeats a stop: where the key refuses it, the    *)
(* key is busy with a stop or with a removal already cleared.              *)
LEMMA PressStopKeeps ==
    ASSUME GestureInv, RunnerInv', NEW s \in Keys, PressStop(s)
    PROVE  GestureInv'
<1> USE GestureAssumption, JobAssumption
<1>1. /\ armed' = [session |-> s, open |-> TRUE]
      /\ cleared' = cleared /\ failed' = failed \ {s} /\ panicked' = panicked
  BY DEF PressStop, Arm
<1>2. TypeOK'
  BY <1>1 DEF GestureInv, TypeOK, RunnerInv, PressStop
<1>3. landed' = landed
  BY DEF PressStop, Submit, runner
<1>4. RemovedWereCleared'
  BY <1>1, <1>3 DEF GestureInv, RemovedWereCleared, Removable
<1>5. dependents' = dependents
  BY DEF PressStop, Submit, runner
<1>6. CASE Submit(s, "stop")
  <2>1. running' = [running EXCEPT ![s] = "stop"]
    BY <1>6 DEF Submit, Start
  <2>2. running \in [Keys -> Jobs \cup {NoJob}]
    BY DEF GestureInv, TypeOK, RunnerTypeOK
  <2>3. OnlyClearedAreRemoved'
    BY <1>1, <2>1, <2>2 DEF GestureInv, OnlyClearedAreRemoved, Removable
  <2>4. \A t \in Keys : (Stopping(t) => Stopping(t)') /\ Stopping(s)'
    BY <1>3, <2>1, <2>2 DEF Stopping
  <2>5. ConfirmedIsCleared'
    BY <1>1, <2>4 DEF ConfirmedIsCleared, Confirmed, Removable
  <2>6. QueuedIsCleared'
    BY <1>1, <1>5, <2>4 DEF GestureInv, QueuedIsCleared, Removable
  <2>7. inFlight' = inFlight \cup {s}
    BY <1>6 DEF Submit
  <2>8. FailedStopRetries'
    BY <1>1, <2>7 DEF GestureInv, FailedStopRetries, Confirmed, TypeOK
  <2>9. QED
    BY <1>2, <1>4, <2>3, <2>5, <2>6, <2>8 DEF GestureInv
<1>7. CASE s \in inFlight /\ UNCHANGED runner
  <2>1. running' = running /\ inFlight' = inFlight
    BY <1>7 DEF runner
  <2>2. \A t \in Keys : Stopping(t)' <=> Stopping(t)
    BY <1>3, <2>1 DEF Stopping
  <2>3. Removable(s) \/ Stopping(s)
    <3>1. running[s] # NoJob \/ \E r \in landed : r.key = s
      BY <1>7 DEF GestureInv, RunnerInv, SealedWhileBusy, Pending
    <3>2. running[s] \in {"stop", "remove", NoJob}
      BY DEF GestureInv, TypeOK, RunnerTypeOK
    <3>3. \A r \in landed : r.job \in {"stop", "remove"}
      BY DEF GestureInv, TypeOK, RunnerTypeOK, Result
    <3>4. QED
      BY <3>1, <3>2, <3>3 DEF GestureInv, OnlyClearedAreRemoved, RemovedWereCleared, Stopping, Removable
  <2>4. OnlyClearedAreRemoved' /\ QueuedIsCleared'
    BY <1>1, <1>5, <2>1, <2>2 DEF GestureInv, OnlyClearedAreRemoved, QueuedIsCleared, Removable
  <2>5. ConfirmedIsCleared'
    BY <1>1, <2>2, <2>3 DEF ConfirmedIsCleared, Confirmed, Removable
  <2>6. FailedStopRetries'
    BY <1>1, <2>1 DEF GestureInv, FailedStopRetries, Confirmed, TypeOK
  <2>7. QED
    BY <1>2, <1>4, <2>4, <2>5, <2>6 DEF GestureInv
<1>8. QED
  BY <1>6, <1>7 DEF PressStop

LEMMA PressFinishedKeeps ==
    ASSUME GestureInv, RunnerInv', NEW s \in Keys, PressFinished(s)
    PROVE  GestureInv'
<1>1. /\ armed' = [session |-> s, open |-> TRUE]
      /\ cleared' = cleared \cup {s}
      /\ failed' = failed \ {s} /\ panicked' = panicked
      /\ inFlight' = inFlight /\ dependents' = dependents
      /\ running' = running /\ landed' = landed /\ listed' = listed
  BY DEF PressFinished, Arm, runner
<1>2. TypeOK'
  BY <1>1 DEF GestureInv, TypeOK, RunnerInv
<1>3. \A t \in Keys : Stopping(t)' <=> Stopping(t)
  BY <1>1 DEF Stopping
<1>4. RemovedWereCleared' /\ OnlyClearedAreRemoved'
  BY <1>1 DEF GestureInv, RemovedWereCleared, OnlyClearedAreRemoved, Removable
<1>5. ConfirmedIsCleared' /\ QueuedIsCleared'
  BY <1>1, <1>3 DEF GestureInv, ConfirmedIsCleared, QueuedIsCleared, Confirmed, Removable
<1>6. FailedStopRetries'
  BY <1>1 DEF GestureInv, FailedStopRetries, Confirmed
<1>7. QED
  BY <1>2, <1>4, <1>5, <1>6 DEF GestureInv

(* The confirming press: a free key means its stop has been polled, so the *)
(* session is cleared; a busy one leaves the removal behind the stop.      *)
LEMMA PressRemoveKeeps ==
    ASSUME GestureInv, RunnerInv', NEW s \in Keys, PressRemove(s)
    PROVE  GestureInv'
<1> USE GestureAssumption, JobAssumption
<1>1. /\ armed' = NotArmed
      /\ cleared' = cleared /\ failed' = failed \ {s} /\ panicked' = panicked /\ listed' = listed
  BY DEF PressRemove
<1>2. landed' = landed
  BY DEF PressRemove, SubmitAfterSuccess, Submit, Queue, Refused, runner
<1>3. TypeOK'
  BY <1>1 DEF GestureInv, TypeOK, RunnerInv, NotArmed
<1>4. RemovedWereCleared'
  BY <1>1, <1>2 DEF GestureInv, RemovedWereCleared, Removable
<1>5. ConfirmedIsCleared'
  BY <1>1 DEF ConfirmedIsCleared, Confirmed, NotArmed, Removable
<1>6. Removable(s) \/ Stopping(s)
  BY DEF PressRemove, GestureInv, ConfirmedIsCleared, Removable
<1>7. /\ running \in [Keys -> Jobs \cup {NoJob}]
      /\ dependents \in [Keys -> Jobs \cup {NoJob, Taken}]
      /\ failed \subseteq Keys
  BY DEF GestureInv, TypeOK, RunnerTypeOK
<1>8. FailedStopRetries'
  <2>1. inFlight' \subseteq inFlight \cup {s}
    BY DEF PressRemove, SubmitAfterSuccess, Submit, Queue, Refused, runner
  <2>2. QED
    BY <1>1, <1>7, <2>1 DEF GestureInv, FailedStopRetries, Confirmed, NotArmed
<1>9. CASE Submit(s, "remove")
  <2>1. running' = [running EXCEPT ![s] = "remove"] /\ dependents' = dependents
    BY <1>9 DEF Submit, Start
  <2>2. running[s] = NoJob /\ ~ \E r \in landed : r.key = s
    BY <1>9 DEF Submit, GestureInv, RunnerInv, SealedWhileBusy, Pending
  <2>3. Removable(s)
    BY <1>6, <2>2 DEF Stopping
  <2>4. \A t \in Keys : t # s => (Stopping(t)' <=> Stopping(t))
    BY <1>2, <1>7, <2>1 DEF Stopping
  <2>5. OnlyClearedAreRemoved'
    BY <1>1, <1>7, <2>1, <2>3 DEF GestureInv, OnlyClearedAreRemoved, Removable
  <2>6. QueuedIsCleared'
    BY <1>1, <2>1, <2>3, <2>4 DEF GestureInv, QueuedIsCleared, Removable
  <2>7. QED
    BY <1>3, <1>4, <1>5, <1>8, <2>5, <2>6 DEF GestureInv
<1>10. CASE Queue(s, "remove") \/ Refused(s)
  <2>1. running' = running
    BY <1>10 DEF Queue, Refused, runner
  <2>2. \A t \in Keys : t # s => dependents'[t] = dependents[t]
    BY <1>7, <1>10 DEF Queue, Refused, runner
  <2>3. \A t \in Keys : Stopping(t)' <=> Stopping(t)
    BY <1>2, <2>1 DEF Stopping
  <2>4. OnlyClearedAreRemoved'
    BY <1>1, <2>1 DEF GestureInv, OnlyClearedAreRemoved, Removable
  <2>5. QueuedIsCleared'
    BY <1>1, <1>6, <2>2, <2>3 DEF GestureInv, QueuedIsCleared, Removable
  <2>6. QED
    BY <1>3, <1>4, <1>5, <1>8, <2>4, <2>5 DEF GestureInv
<1>11. QED
  BY <1>9, <1>10 DEF PressRemove, SubmitAfterSuccess

LEMMA JobEndsKeeps ==
    ASSUME GestureInv, RunnerInv', NEW s \in Keys, JobEnds(s)
    PROVE  GestureInv'
<1> USE GestureAssumption, JobAssumption
<1>1. PICK outcome \in Outcomes :
        landed' = landed \cup {[key |-> s, job |-> running[s], outcome |-> outcome]}
  BY DEF JobEnds, Finish
<1> DEFINE new == [key |-> s, job |-> running[s], outcome |-> outcome]
<1>2. /\ armed' = armed /\ listed' = listed /\ cleared' = cleared /\ failed' = failed /\ panicked' = panicked
      /\ inFlight' = inFlight /\ dependents' = dependents
      /\ running' = [running EXCEPT ![s] = NoJob]
  BY DEF JobEnds, Finish, history
<1>3. landed' = landed \cup {new} /\ new.key = s /\ new.job = running[s]
  BY <1>1
<1>4. running \in [Keys -> Jobs \cup {NoJob}]
  BY DEF GestureInv, TypeOK, RunnerTypeOK
<1> HIDE DEF new
<1>5. TypeOK'
  BY <1>2 DEF GestureInv, TypeOK, RunnerInv
<1>6. \A t \in Keys : (Stopping(t) => Stopping(t)')
  BY <1>2, <1>3, <1>4 DEF Stopping
<1>7. OnlyClearedAreRemoved'
  BY <1>2, <1>4 DEF GestureInv, OnlyClearedAreRemoved, Removable
<1>8. RemovedWereCleared'
  BY <1>2, <1>3 DEF GestureInv, RemovedWereCleared, OnlyClearedAreRemoved, Removable
<1>9. ConfirmedIsCleared' /\ QueuedIsCleared'
  BY <1>2, <1>6 DEF GestureInv, ConfirmedIsCleared, QueuedIsCleared, Confirmed, Removable
<1>10. FailedStopRetries'
  BY <1>2 DEF GestureInv, FailedStopRetries, Confirmed
<1>11. QED
  BY <1>5, <1>7, <1>8, <1>9, <1>10 DEF GestureInv

(* A polled result: a stop that failed takes its dependent away with it,   *)
(* and its confirmation unless it panicked; one that succeeded clears the  *)
(* session.                                                                *)
LEMMA LandKeeps ==
    ASSUME GestureInv, RunnerInv', NEW r \in landed, Land(r)
    PROVE  GestureInv'
<1> USE GestureAssumption, JobAssumption
<1>1. /\ r \in Result /\ r.key \in Keys /\ r.job \in {"stop", "remove"}
      /\ r.outcome \in {"ok", "error", "panic"}
  BY DEF GestureInv, TypeOK, RunnerTypeOK, Result, Outcomes
<1>2. landed' = landed \ {r} /\ listed' = listed
  BY DEF Land, Poll
<1>3. running[r.key] = NoJob /\ r.key \in inFlight
  BY <1>1 DEF GestureInv, RunnerInv, OneJobPerKey, SealedWhileBusy, Pending
<1>4. /\ cleared' = IF r.job = "stop" /\ r.outcome = "ok" THEN cleared \cup {r.key} ELSE cleared
      /\ failed' = IF r.job = "stop" /\ r.outcome # "ok" THEN failed \cup {r.key} ELSE failed
      /\ panicked' = IF r.job # "stop" THEN panicked
                     ELSE IF r.outcome = "panic" THEN panicked \cup {r.key}
                     ELSE panicked \ {r.key}
      /\ armed' = IF r.job = "stop" /\ r.outcome = "error" /\ armed.session = r.key
                  THEN NotArmed ELSE armed
  BY DEF Land, Disarm
<1>5. /\ running \in [Keys -> Jobs \cup {NoJob}]
      /\ dependents \in [Keys -> Jobs \cup {NoJob, Taken}]
      /\ cleared \subseteq Keys /\ failed \subseteq Keys /\ panicked \subseteq Keys
      /\ armed \in [session : Keys \cup {NoSession}, open : BOOLEAN]
      /\ listed \in [Keys -> {"active", "finished", "absent"}]
  BY DEF GestureInv, TypeOK, RunnerTypeOK
<1>6. TypeOK'
  BY <1>1, <1>2, <1>4, <1>5 DEF TypeOK, RunnerInv, NotArmed
<1>7. \A t \in Keys : t # r.key => running'[t] = running[t] /\ dependents'[t] = dependents[t]
  BY <1>1, <1>5 DEF Land, Poll, HandOver, Free, Start
<1>8. \A t \in Keys : t # r.key => (Stopping(t) => Stopping(t)')
  BY <1>2, <1>7 DEF Stopping
<1>9. \A t \in Keys : t # r.key => (Removable(t) => Removable(t)')
  BY <1>4 DEF Removable
<1>10. r.outcome = "ok" => Removable(r.key)'
  BY <1>1, <1>4 DEF GestureInv, RemovedWereCleared, Removable
<1>11. RemovedWereCleared'
  <2>1. \A q \in landed' : q.key # r.key /\ q.key \in Keys
    BY <1>2 DEF GestureInv, RunnerInv, OneJobPerKey, TypeOK, RunnerTypeOK, Result
  <2>2. QED
    BY <1>2, <1>9, <2>1 DEF GestureInv, RemovedWereCleared
<1>12. CASE Continues(r)
  <2>1. r.outcome = "ok" /\ Removable(r.key)'
    BY <1>10, <1>12 DEF Continues
  <2>2. inFlight' = inFlight
    BY <1>12 DEF Land, Poll, HandOver
  <2>3. OnlyClearedAreRemoved'
    BY <1>7, <1>9, <2>1 DEF GestureInv, OnlyClearedAreRemoved, Removable
  <2>4. armed' = armed /\ failed' = failed
    BY <1>4, <2>1
  <2>5. ConfirmedIsCleared'
    BY <1>8, <1>9, <2>1, <2>4 DEF GestureInv, ConfirmedIsCleared, Confirmed
  <2>6. QueuedIsCleared'
    BY <1>7, <1>8, <1>9, <2>1 DEF GestureInv, QueuedIsCleared
  <2>7. r.key \notin failed
    BY <1>3 DEF GestureInv, FailedStopRetries
  <2>8. FailedStopRetries'
    BY <1>4, <2>1, <2>2, <2>4, <2>7 DEF GestureInv, FailedStopRetries, Confirmed
  <2>9. QED
    BY <1>6, <1>11, <2>3, <2>5, <2>6, <2>8 DEF GestureInv
<1>13. CASE ~ Continues(r)
  <2>1. /\ dependents' = [dependents EXCEPT ![r.key] = NoJob]
        /\ inFlight' = inFlight \ {r.key}
        /\ running' = running
    BY <1>13 DEF Land, Poll, Free
  <2>2. OnlyClearedAreRemoved'
    BY <1>3, <1>9, <2>1 DEF GestureInv, OnlyClearedAreRemoved, Removable
  <2>3. dependents'[r.key] = NoJob
    BY <1>1, <1>5, <2>1
  <2>4. QueuedIsCleared'
    BY <1>7, <1>8, <1>9, <2>3 DEF GestureInv, QueuedIsCleared
  <2>5. ~ Stopping(r.key)'
    <3>1. running'[r.key] = NoJob
      BY <1>3, <2>1
    <3>2. ~ \E t \in landed' : t.key = r.key
      BY <1>1, <1>2 DEF GestureInv, RunnerInv, OneJobPerKey
    <3>3. QED
      BY <3>1, <3>2 DEF Stopping
  <2>6. \A t \in Keys : Confirmed(t)' => Confirmed(t)
    BY <1>4 DEF Confirmed, NotArmed
  <2>7. \A t \in failed : t # r.key /\ t \in Keys
    BY <1>3, <1>5 DEF GestureInv, FailedStopRetries
  <2>8. CASE Removable(r.key)' /\ failed' = failed
    <3>1. ConfirmedIsCleared'
      BY <1>8, <1>9, <2>6, <2>8 DEF GestureInv, ConfirmedIsCleared
    <3>2. \A t \in failed : t \in panicked => t \in panicked'
      BY <1>4, <2>7
    <3>3. FailedStopRetries'
      BY <2>1, <2>6, <2>7, <2>8, <3>2 DEF GestureInv, FailedStopRetries
    <3>4. QED
      BY <1>6, <1>11, <2>2, <2>4, <3>1, <3>3 DEF GestureInv
  <2>9. CASE r.job = "stop" /\ r.outcome = "error"
    <3>1. failed' = failed \cup {r.key} /\ panicked' = panicked \ {r.key}
      BY <1>4, <2>9
    <3>2. armed'.session # r.key
      BY <1>1, <1>4, <2>9 DEF NotArmed
    <3>3. ConfirmedIsCleared'
      BY <1>8, <1>9, <2>6, <3>2 DEF GestureInv, ConfirmedIsCleared, Confirmed
    <3>4. FailedStopRetries'
      <4>1. SUFFICES ASSUME NEW t \in failed'
                     PROVE  t \notin inFlight' /\ (Confirmed(t)' => t \in panicked')
        BY DEF FailedStopRetries
      <4>2. CASE t = r.key
        BY <2>1, <3>2, <4>2 DEF Confirmed
      <4>3. CASE t # r.key
        BY <2>1, <2>6, <2>7, <3>1, <4>1, <4>3 DEF GestureInv, FailedStopRetries
      <4>4. QED
        BY <4>2, <4>3
    <3>5. QED
      BY <1>6, <1>11, <2>2, <2>4, <3>3, <3>4 DEF GestureInv
  <2>10. CASE r.job = "stop" /\ r.outcome = "panic"
    <3>1. failed' = failed \cup {r.key} /\ panicked' = panicked \cup {r.key}
      BY <1>4, <2>10
    <3>2. Removable(r.key)'
      BY <3>1 DEF Removable
    <3>3. ConfirmedIsCleared'
      BY <1>8, <1>9, <2>6, <3>2 DEF GestureInv, ConfirmedIsCleared
    <3>4. FailedStopRetries'
      BY <2>1, <2>6, <2>7, <3>1 DEF GestureInv, FailedStopRetries
    <3>5. QED
      BY <1>6, <1>11, <2>2, <2>4, <3>3, <3>4 DEF GestureInv
  <2>11. CASE r.job = "remove"
    <3>1. failed' = failed /\ cleared' = cleared /\ panicked' = panicked
      BY <1>4, <2>11
    <3>2. Removable(r.key)'
      BY <2>11, <3>1 DEF GestureInv, RemovedWereCleared, Removable
    <3>3. QED
      BY <2>8, <3>1, <3>2
  <2>12. CASE r.job = "stop" /\ r.outcome = "ok"
    BY <1>4, <1>10, <2>8, <2>12
  <2>13. QED
    BY <1>1, <2>9, <2>10, <2>11, <2>12
<1>14. QED
  BY <1>12, <1>13

LEMMA QuietStepKeeps ==
    ASSUME GestureInv, RunnerInv', WindowCloses \/ Listing \/ UNCHANGED vars
    PROVE  GestureInv'
<1>1. /\ inFlight' = inFlight /\ dependents' = dependents
      /\ running' = running /\ landed' = landed
      /\ cleared' = cleared /\ failed' = failed /\ panicked' = panicked
  BY DEF WindowCloses, Listing, vars, runner, history
<1>2. armed' = armed \/ armed' = [armed EXCEPT !.open = FALSE]
  BY DEF WindowCloses, Listing, vars
<1>3. listed' \in [Keys -> {"active", "finished", "absent"}]
  BY DEF WindowCloses, Listing, vars, GestureInv, TypeOK
<1>4. armed \in [session : Keys \cup {NoSession}, open : BOOLEAN]
  BY DEF GestureInv, TypeOK
<1>5. TypeOK'
  BY <1>1, <1>2, <1>3, <1>4 DEF GestureInv, TypeOK, RunnerInv
<1>6. \A s \in Keys : Confirmed(s)' => Confirmed(s)
  BY <1>2, <1>4 DEF Confirmed
<1>7. \A s \in Keys : Stopping(s)' <=> Stopping(s)
  BY <1>1 DEF Stopping
<1>8. RemovedWereCleared' /\ OnlyClearedAreRemoved'
  BY <1>1 DEF GestureInv, RemovedWereCleared, OnlyClearedAreRemoved, Removable
<1>9. ConfirmedIsCleared' /\ QueuedIsCleared'
  BY <1>1, <1>6, <1>7 DEF GestureInv, ConfirmedIsCleared, QueuedIsCleared, Removable
<1>10. FailedStopRetries'
  BY <1>1, <1>6 DEF GestureInv, FailedStopRetries, TypeOK
<1>11. QED
  BY <1>5, <1>8, <1>9, <1>10 DEF GestureInv

-----------------------------------------------------------------------------
(* The inductive invariant, panics included.                               *)
THEOREM GestureInvariance == Spec => []GestureInv
<1>1. Init => GestureInv
  BY GestureStarts
<1>2. GestureInv /\ [Next]_vars => GestureInv'
  <2> SUFFICES ASSUME GestureInv, [Next]_vars PROVE GestureInv'
    OBVIOUS
  <2>1. RunnerInv'
    BY RunnerPartKeeps
  <2>2. CASE \E s \in Keys : PressStop(s)
    BY <2>1, <2>2, PressStopKeeps
  <2>3. CASE \E s \in Keys : PressFinished(s)
    BY <2>1, <2>3, PressFinishedKeeps
  <2>4. CASE \E s \in Keys : PressRemove(s)
    BY <2>1, <2>4, PressRemoveKeeps
  <2>5. CASE \E s \in Keys : JobEnds(s)
    BY <2>1, <2>5, JobEndsKeeps
  <2>6. CASE \E r \in landed : Land(r)
    BY <2>1, <2>6, LandKeeps
  <2>7. CASE WindowCloses \/ Listing \/ UNCHANGED vars
    BY <2>1, <2>7, QuietStepKeeps
  <2>8. QED
    BY <2>2, <2>3, <2>4, <2>5, <2>6, <2>7 DEF Next
<1>3. QED
  BY <1>1, <1>2, PTL DEF Spec

(* No removal runs for a session that was never stopped with success nor   *)
(* already finished when armed, unless its last stop panicked              *)
(* (kill_stage_for, submit_after_success, poll).                           *)
THEOREM RemovalsAreCleared == Spec => []OnlyClearedAreRemoved
<1>1. GestureInv => OnlyClearedAreRemoved
  BY DEF GestureInv
<1>2. QED
  BY <1>1, GestureInvariance, PTL

(* A failed stop takes its key's seal and the queued removal with it, and  *)
(* its confirmation too unless it panicked (disarm_kill_for).              *)
THEOREM FailedStopsRetry == Spec => []FailedStopRetries
<1>1. GestureInv => FailedStopRetries
  BY DEF GestureInv
<1>2. QED
  BY <1>1, GestureInvariance, PTL
=============================================================================
