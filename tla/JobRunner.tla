----------------------------- MODULE JobRunner -----------------------------
(***************************************************************************)
(* BackgroundRunner: blocking backend work on worker threads, one pipeline *)
(* per key.  A key is sealed from its submission until the run loop has    *)
(* polled the pipeline's last result; a success may start one dependent.   *)
(*                                                                         *)
(* Keys are independent of each other, so the results channel is a set.    *)
(***************************************************************************)
CONSTANTS Keys,
          Jobs,
          NoJob,   \* no worker; no dependents entry
          Taken    \* the entry of a dependent that was started

ASSUME JobAssumption == NoJob \notin Jobs /\ Taken \notin Jobs /\ NoJob # Taken

VARIABLES inFlight,    \* the sealed keys
          dependents,  \* per key: its dependents entry
          running,     \* per key: the job its worker runs
          landed       \* results sent and not yet polled

runner == <<inFlight, dependents, running, landed>>

Outcomes == {"ok", "error", "panic"}
Result == [key : Keys, job : Jobs, outcome : Outcomes]

RunnerTypeOK ==
    /\ inFlight \subseteq Keys
    /\ dependents \in [Keys -> Jobs \cup {NoJob, Taken}]
    /\ running \in [Keys -> Jobs \cup {NoJob}]
    /\ landed \subseteq Result

RunnerInit ==
    /\ inFlight = {}
    /\ dependents = [k \in Keys |-> NoJob]
    /\ running = [k \in Keys |-> NoJob]
    /\ landed = {}

-----------------------------------------------------------------------------
Start(k, j) == running' = [running EXCEPT ![k] = j]

(* submit: a sealed key refuses and changes nothing *)
Submit(k, j) ==
    /\ k \notin inFlight
    /\ inFlight' = inFlight \cup {k}
    /\ Start(k, j)
    /\ UNCHANGED <<dependents, landed>>

(* submit_after_success on a sealed key without a dependents entry *)
Queue(k, j) ==
    /\ k \in inFlight
    /\ dependents[k] = NoJob
    /\ dependents' = [dependents EXCEPT ![k] = j]
    /\ UNCHANGED <<inFlight, running, landed>>

Refused(k) ==
    /\ k \in inFlight
    /\ dependents[k] # NoJob
    /\ UNCHANGED runner

SubmitAfterSuccess(k, j) == Submit(k, j) \/ Queue(k, j) \/ Refused(k)

(* Mutant: a panicking job takes its result with it *)
FinishLosesPanic(k) ==
    /\ running[k] # NoJob
    /\ \E outcome \in Outcomes :
          landed' = IF outcome = "panic" THEN landed
                    ELSE landed \cup {[key |-> k, job |-> running[k], outcome |-> outcome]}
    /\ running' = [running EXCEPT ![k] = NoJob]
    /\ UNCHANGED <<inFlight, dependents>>

(* The worker reports, a panic too *)
Finish(k) ==
    /\ running[k] # NoJob
    /\ \E outcome \in Outcomes :
          landed' = landed \cup {[key |-> k, job |-> running[k], outcome |-> outcome]}
    /\ running' = [running EXCEPT ![k] = NoJob]
    /\ UNCHANGED <<inFlight, dependents>>

(* poll: a success hands the key to its dependent, anything else frees it *)

(* Mutant: the dependent starts whatever the outcome *)
ContinuesAnyway(r) == dependents[r.key] \in Jobs

Continues(r) == r.outcome = "ok" /\ dependents[r.key] \in Jobs

(* Mutant of poll: the dependent is read after its entry was overwritten *)
HandOverMarker(r) ==
    /\ dependents' = [dependents EXCEPT ![r.key] = Taken]
    /\ running' = [running EXCEPT ![r.key] = dependents'[r.key]]
    /\ UNCHANGED inFlight

HandOver(r) ==
    /\ dependents' = [dependents EXCEPT ![r.key] = Taken]
    /\ Start(r.key, dependents[r.key])
    /\ UNCHANGED inFlight

Free(r) ==
    /\ dependents' = [dependents EXCEPT ![r.key] = NoJob]
    /\ inFlight' = inFlight \ {r.key}
    /\ UNCHANGED running

Poll(r) ==
    /\ r \in landed
    /\ landed' = landed \ {r}
    /\ IF Continues(r) THEN HandOver(r) ELSE Free(r)

RunnerNext ==
    \/ \E k \in Keys, j \in Jobs : SubmitAfterSuccess(k, j)
    \/ \E k \in Keys : Finish(k)
    \/ \E r \in landed : Poll(r)

RunnerSpec == RunnerInit /\ [][RunnerNext]_runner

-----------------------------------------------------------------------------
(* Safety: a key is sealed exactly while its pipeline has a worker or a    *)
(* result to poll, so no key stays sealed for good, a panic included, and  *)
(* none is free while its job still runs (mutations.rs, start and poll).   *)
Pending(k) == \E r \in landed : r.key = k

SealedWhileBusy == \A k \in Keys : k \in inFlight <=> (running[k] # NoJob \/ Pending(k))

(* Safety: a key never has two jobs, or a job and a result, at once.       *)
OneJobPerKey ==
    /\ \A k \in Keys : running[k] # NoJob => ~ Pending(k)
    /\ \A r, s \in landed : r.key = s.key => r = s

(* Safety: a dependent never outlives the pipeline it was queued behind.   *)
NoOrphanDependent == \A k \in Keys : dependents[k] # NoJob => k \in inFlight
=============================================================================
