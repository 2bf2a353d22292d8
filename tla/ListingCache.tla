---------------------------- MODULE ListingCache ----------------------------
(***************************************************************************)
(* The shared listing cache of one (backend, scope): one row and one       *)
(* payload in viewer.db, written by the refresh workers of several viewer  *)
(* processes and fenced by every mutation.                                 *)
(*                                                                         *)
(* A viewer is one refresh worker of one process; it makes at most one     *)
(* refresh call at a time, so its name stands for the unique lease owner   *)
(* the code builds per claim.  A listing is abstracted to the version of   *)
(* the provider's data it shows; 0 means there is none.                    *)
(***************************************************************************)
EXTENDS Integers

CONSTANTS Viewers,     \* refresh workers that share the row
          NoOwner,     \* lease_owner IS NULL
          Freshness,   \* LISTING_CACHE_FRESHNESS_MS
          Lease,       \* LISTING_CACHE_LEASE_MS
          Horizon,     \* LISTING_LEASE_HORIZON_MS
          MaxNow,      \* bound: the wall clock stops here
          MaxTruth,    \* bound: changes of the provider's data
          MaxFaults,   \* bound: crashes, errors, panics and clock steps
          Prompt       \* TRUE: renewals and claims are scheduled in time

ASSUME OwnerAssumption == NoOwner \notin Viewers
ASSUME TimeAssumption == /\ Freshness \in Nat \ {0}
                         /\ Lease \in Nat \ {0}
                         /\ Horizon \in Nat
                         /\ MaxNow \in Nat
ASSUME BoundAssumption == /\ MaxTruth \in Nat
                          /\ MaxFaults \in Nat
                          /\ Prompt \in BOOLEAN

VARIABLES now,      \* wall clock shared by the processes
          truth,    \* version of the provider's own data
          owed,     \* mutations applied whose invalidation is still to come
          fenced,   \* version the newest completed invalidation covered
          row,      \* the backend_listing_cache row
          payload,  \* the backend_listing_snapshot payload
          call,     \* per viewer: the refresh call in progress
          cursor,   \* per viewer: RefreshCursor.published_generation
          shown,    \* per viewer: the rows it displays (last)
          faults    \* faults taken so far

db == <<row, payload>>
world == <<now, truth, owed, fenced>>
vars == <<now, truth, owed, fenced, row, payload, call, cursor, shown, faults>>

NoCursor == -1

Steps == {"idle", "begun", "listing", "listed", "fallback", "reading",
          "unscoped", "unshared"}

(* pc; time: now_ms at the start, to which the source adds what it took;   *)
(* gen: the generation the lease or the fallback read carries; got: the    *)
(* version the source returned                                             *)
NoCall == [pc |-> "idle", time |-> 0, gen |-> 0, got |-> 0]

NoRow == [exists |-> FALSE, refreshed |-> 0, gen |-> 0,
          owner |-> NoOwner, until |-> 0]

Row == [exists : BOOLEAN, refreshed : Nat, gen : Nat,
        owner : Viewers \cup {NoOwner}, until : Nat]

Call == [pc : Steps, time : Nat, gen : Nat, got : Nat]

TypeOK ==
    /\ now \in Nat
    /\ truth \in Nat \ {0}
    /\ owed \in Nat
    /\ fenced \in Nat
    /\ row \in Row
    /\ payload \in Nat
    /\ call \in [Viewers -> Call]
    /\ cursor \in [Viewers -> Nat \cup {NoCursor}]
    /\ shown \in [Viewers -> Nat]
    /\ faults \in Nat

Init ==
    /\ now = 1
    /\ truth = 1
    /\ owed = 0
    /\ fenced = 0
    /\ row = NoRow
    /\ payload = 0
    /\ call = [v \in Viewers |-> NoCall]
    /\ cursor = [v \in Viewers |-> NoCursor]
    /\ shown = [v \in Viewers |-> 0]
    /\ faults = 0

-----------------------------------------------------------------------------
(* The two predicates every claim decides on, as of the caller's now_ms *)

IsFresh(time) == /\ row.refreshed > 0
                 /\ 0 <= time - row.refreshed
                 /\ time - row.refreshed < Freshness

(* Mutants: a lease that ends one tick early, and one that never expires *)
LeaseEndsEarly(time) == row.owner # NoOwner /\ row.until > time + 1
LeaseNeverEnds(time) == row.owner # NoOwner

LeaseIsHeld(time) ==
    /\ row.owner # NoOwner
    /\ row.until > time
    /\ row.until <= time + (IF Lease > Horizon THEN Lease ELSE Horizon)

(* Mutant: the row is written without looking at its owner or generation *)
RowIsThere(v) == row.exists

(* The WHERE clause of every write a lease holder makes *)
StillOwns(v) == /\ row.exists
                /\ row.gen = call[v].gen
                /\ row.owner = v

(* Every statement that writes the row, and leaves it there *)
WriteRow(refreshed, gen, owner, until) ==
    row' = [exists |-> TRUE, refreshed |-> refreshed, gen |-> gen,
            owner |-> owner, until |-> until]

(* Mutant: the two columns of a released lease are swapped *)
ReleaseLeaseSwapped == WriteRow(row.refreshed, row.gen, 0, NoOwner)

ReleaseLease == WriteRow(row.refreshed, row.gen, NoOwner, 0)

At(v, step) == call[v].pc = step
Enter(v, step, time, gen, got) ==
    call' = [call EXCEPT ![v] = [pc |-> step, time |-> time, gen |-> gen, got |-> got]]
Goto(v, step) == Enter(v, step, 0, 0, 0)
Return(v) == call' = [call EXCEPT ![v] = NoCall]
Fault == faults < MaxFaults /\ faults' = faults + 1

(* A lease nobody releases must be able to expire before the clock stops *)
CanExpire(v) == row.owner = v => row.until <= MaxNow

-----------------------------------------------------------------------------
(* Begin: refresh reads now_ms once, before it touches the database *)
Begin(v) ==
    /\ At(v, "idle")
    /\ Enter(v, "begun", now, 0, 0)
    /\ UNCHANGED <<world, db, cursor, shown, faults>>

(* claim_listing_refresh, one IMMEDIATE transaction with five outcomes *)
ClaimFresh(v) ==
    /\ At(v, "begun")
    /\ IsFresh(call[v].time)
    /\ cursor[v] # row.gen
    /\ payload # 0
    /\ cursor' = [cursor EXCEPT ![v] = row.gen]
    /\ shown' = [shown EXCEPT ![v] = payload]
    /\ Return(v)
    /\ UNCHANGED <<world, db, faults>>

ClaimUnchanged(v) ==
    /\ At(v, "begun")
    /\ IsFresh(call[v].time) \/ LeaseIsHeld(call[v].time)
    /\ row.exists
    /\ cursor[v] = row.gen
    /\ Return(v)
    /\ UNCHANGED <<world, db, cursor, shown, faults>>

ClaimLeaseHeld(v) ==
    /\ At(v, "begun")
    /\ ~ (IsFresh(call[v].time) /\ payload # 0)
    /\ LeaseIsHeld(call[v].time)
    /\ cursor[v] # row.gen
    /\ Goto(v, "fallback")
    /\ UNCHANGED <<world, db, cursor, shown, faults>>

(* Mutant: the claim already stamps the row as refreshed *)
ClaimTakenStamps(v) ==
    /\ At(v, "begun")
    /\ ~ (IsFresh(call[v].time) /\ (cursor[v] = row.gen \/ payload # 0))
    /\ ~ LeaseIsHeld(call[v].time)
    /\ WriteRow(call[v].time, row.gen, v, call[v].time + Lease)
    /\ Enter(v, "listing", call[v].time, row.gen, 0)
    /\ UNCHANGED <<world, payload, cursor, shown, faults>>

ClaimTaken(v) ==
    /\ At(v, "begun")
    /\ ~ (IsFresh(call[v].time) /\ (cursor[v] = row.gen \/ payload # 0))
    /\ ~ LeaseIsHeld(call[v].time)
    /\ WriteRow(row.refreshed, row.gen, v, call[v].time + Lease)
    /\ Enter(v, "listing", call[v].time, row.gen, 0)
    /\ UNCHANGED <<world, payload, cursor, shown, faults>>

ClaimError(v) ==
    /\ At(v, "begun")
    /\ Fault
    /\ Goto(v, "unscoped")
    /\ UNCHANGED <<world, db, cursor, shown>>

(* guard_listing_refresh: the renewal thread of a live lease *)
Renew(v) ==
    /\ At(v, "listing") \/ At(v, "listed")
    /\ StillOwns(v)
    /\ row.until # now + Lease
    /\ WriteRow(row.refreshed, row.gen, v, now + Lease)
    /\ UNCHANGED <<world, payload, call, cursor, shown, faults>>

(* The provider's listing is observed at one moment of the source call *)
SourceOk(v) ==
    /\ At(v, "listing")
    /\ Enter(v, "listed", call[v].time, call[v].gen, truth)
    /\ UNCHANGED <<world, db, cursor, shown, faults>>

(* fail_listing_refresh; the callers ignore its own error *)
FailLease(v) == \/ StillOwns(v) /\ ReleaseLease
                \/ ~ StillOwns(v) /\ UNCHANGED row
                \/ CanExpire(v) /\ UNCHANGED row

(* The source, or the renewal guard, failed: the cached fallback is next *)
SourceError(v) ==
    /\ At(v, "listing")
    /\ Fault
    /\ FailLease(v)
    /\ Goto(v, "fallback")
    /\ UNCHANGED <<world, payload, cursor, shown>>

(* Mutant: a publication keeps the generation it replaces *)
PublishInPlace(v) ==
    /\ At(v, "listed")
    /\ StillOwns(v)
    /\ WriteRow(call[v].time, call[v].gen, NoOwner, 0)
    /\ payload' = call[v].got
    /\ cursor' = [cursor EXCEPT ![v] = call[v].gen]
    /\ shown' = [shown EXCEPT ![v] = call[v].got]
    /\ Return(v)
    /\ UNCHANGED <<world, faults>>

(* publish_listing: metadata and payload in one transaction *)
Publish(v) ==
    /\ At(v, "listed")
    /\ StillOwns(v)
    /\ WriteRow(call[v].time, call[v].gen + 1, NoOwner, 0)
    /\ payload' = call[v].got
    /\ cursor' = [cursor EXCEPT ![v] = call[v].gen + 1]
    /\ shown' = [shown EXCEPT ![v] = call[v].got]
    /\ Return(v)
    /\ UNCHANGED <<world, faults>>

PublishFenced(v) ==
    /\ At(v, "listed")
    /\ ~ StillOwns(v)
    /\ cursor' = [cursor EXCEPT ![v] = NoCursor]
    /\ Return(v)
    /\ UNCHANGED <<world, db, shown, faults>>

(* The shared write failed, and left the lease, or the listing did not     *)
(* serialise, and the lease is given back; either way the listing is shown *)
PublishError(v) ==
    /\ At(v, "listed")
    /\ Fault
    /\ FailLease(v)
    /\ cursor' = [cursor EXCEPT ![v] = NoCursor]
    /\ shown' = [shown EXCEPT ![v] = call[v].got]
    /\ Return(v)
    /\ UNCHANGED <<world, payload>>

(* cached_fallback reads the row and the payload in two statements, with   *)
(* no transaction around them                                              *)
FallbackRow(v) ==
    /\ At(v, "fallback")
    /\ IF row.exists
       THEN Enter(v, "reading", 0, row.gen, 0)
       ELSE Return(v)
    /\ UNCHANGED <<world, db, cursor, shown, faults>>

FallbackPayload(v) ==
    /\ At(v, "reading")
    /\ IF payload # 0
       THEN /\ cursor' = [cursor EXCEPT ![v] = call[v].gen]
            /\ shown' = [shown EXCEPT ![v] = payload]
       ELSE UNCHANGED <<cursor, shown>>
    /\ Return(v)
    /\ UNCHANGED <<world, db, faults>>

FallbackError(v) ==
    /\ At(v, "fallback") \/ At(v, "reading")
    /\ Fault
    /\ Return(v)
    /\ UNCHANGED <<world, db, cursor, shown>>

(* source_only: the database refused the claim, so this viewer lists alone, *)
(* which costs no further fault when it fails, too                         *)
UnscopedSource(v) ==
    /\ At(v, "unscoped")
    /\ Enter(v, "unshared", 0, 0, truth)
    /\ UNCHANGED <<world, db, cursor, shown, faults>>

UnscopedError(v) ==
    /\ At(v, "unscoped")
    /\ Return(v)
    /\ UNCHANGED <<world, db, cursor, shown, faults>>

UnscopedShow(v) ==
    /\ At(v, "unshared")
    /\ shown' = [shown EXCEPT ![v] = call[v].got]
    /\ Return(v)
    /\ UNCHANGED <<world, db, cursor, faults>>

(* The listing panicked: the worker catches it and forgets its cursor; the *)
(* lease is not released                                                   *)
Panic(v) ==
    /\ At(v, "listing") \/ At(v, "unscoped")
    /\ Fault
    /\ CanExpire(v)
    /\ cursor' = [cursor EXCEPT ![v] = NoCursor]
    /\ Return(v)
    /\ UNCHANGED <<world, db, shown>>

(* The process dies at any point and starts again with nothing displayed *)
Crash(v) ==
    /\ Fault
    /\ CanExpire(v)
    /\ cursor' = [cursor EXCEPT ![v] = NoCursor]
    /\ shown' = [shown EXCEPT ![v] = 0]
    /\ Return(v)
    /\ UNCHANGED <<world, db>>

-----------------------------------------------------------------------------
(* A mutation first changes the provider, then fences the scope; a dead    *)
(* process, a database error or a change made by the agent itself leaves   *)
(* the change without its invalidation                                     *)
Mutate ==
    /\ truth < MaxTruth
    /\ truth' = truth + 1
    /\ owed' \in {owed, owed + 1}
    /\ UNCHANGED <<now, fenced, db, call, cursor, shown, faults>>

(* Mutant: the withdrawn row keeps its refresh stamp *)
WithdrawLeaseOnly == IF row.exists THEN WriteRow(row.refreshed, row.gen + 1, NoOwner, 0)
                                   ELSE UNCHANGED row

(* invalidate_listing_scope: an UPDATE, so it needs the row to exist *)
WithdrawRow == IF row.exists THEN WriteRow(0, row.gen + 1, NoOwner, 0)
                             ELSE UNCHANGED row

Invalidate ==
    /\ owed > 0
    /\ owed' = owed - 1
    /\ WithdrawRow
    /\ fenced' = truth
    /\ UNCHANGED <<now, truth, payload, call, cursor, shown, faults>>

-----------------------------------------------------------------------------
(* Time. Under Prompt no clock step happens, a claim runs at most a tick   *)
(* after its call began, and a live holder renews before its lease runs out *)
SchedulingKeepsUp ==
    \A v \in Viewers :
        /\ At(v, "begun") => call[v].time = now
        /\ (At(v, "listing") \/ At(v, "listed")) /\ StillOwns(v)
              => row.until > now + 1

Tick ==
    /\ now < MaxNow
    /\ Prompt => SchedulingKeepsUp
    /\ now' = now + 1
    /\ call' = [v \in Viewers |->
                  IF At(v, "listing")
                  THEN [call[v] EXCEPT !.time = @ + 1]
                  ELSE call[v]]
    /\ UNCHANGED <<truth, owed, fenced, db, cursor, shown, faults>>

ClockStep ==
    /\ ~ Prompt
    /\ Fault
    /\ now' \in 1 .. MaxNow
    /\ UNCHANGED <<truth, owed, fenced, db, call, cursor, shown>>

Proceed(v) ==
    \/ Begin(v)
    \/ ClaimFresh(v)
    \/ ClaimUnchanged(v)
    \/ ClaimLeaseHeld(v)
    \/ ClaimTaken(v)
    \/ SourceOk(v)
    \/ Publish(v)
    \/ PublishFenced(v)
    \/ FallbackRow(v)
    \/ FallbackPayload(v)
    \/ UnscopedSource(v)
    \/ UnscopedShow(v)

Fail(v) ==
    \/ ClaimError(v)
    \/ SourceError(v)
    \/ PublishError(v)
    \/ FallbackError(v)
    \/ UnscopedError(v)
    \/ Panic(v)
    \/ Crash(v)

Next ==
    \/ \E v \in Viewers : Proceed(v) \/ Renew(v) \/ Fail(v)
    \/ Mutate
    \/ Invalidate
    \/ Tick
    \/ ClockStep

Spec == Init /\ [][Next]_vars

Fairness == /\ \A v \in Viewers : WF_vars(Proceed(v)) /\ WF_vars(Renew(v))
            /\ WF_vars(Tick)

FairSpec == Spec /\ Fairness

-----------------------------------------------------------------------------
(* Safety: a row stamped as refreshed never offers a payload that predates *)
(* a mutation whose invalidation completed (state.rs, publish_listing and  *)
(* invalidate_listing_scope).                                              *)
FreshHoldsMutations == row.refreshed > 0 => payload >= fenced

(* Safety: a viewer whose cursor equals the row's generation, and so is    *)
(* told "Unchanged", never displays older data than the stored payload,    *)
(* whatever mix of shared, stale, fenced and unshared refreshes led there. *)
CursorCoversPayload ==
    \A v \in Viewers : row.exists /\ cursor[v] = row.gen => shown[v] >= payload

(* Safety, when Prompt: the lease keeps the provider from being listed by  *)
(* two viewers for the same generation.                                    *)
ListsCurrent(v) == (At(v, "listing") \/ At(v, "listed")) /\ call[v].gen = row.gen

AtMostOneLister ==
    \A v, w \in Viewers : ListsCurrent(v) /\ ListsCurrent(w) => v = w

(* Action property: the payload never goes back to an older listing, also  *)
(* when a slow holder outlives its lease.                                  *)
PayloadNeverRegresses == [][payload' >= payload]_vars

(* Refinement: the row and its payload implement the abstract copy.        *)
Copy == INSTANCE SharedListing WITH copy <- payload, fresh <- row.refreshed > 0

ImplementsSharedListing == Copy!Spec

(* Liveness: whatever was invalidated ends up on every viewer's screen,    *)
(* crashed lease holders and failed refreshes included.                    *)
InvalidatedReachesEveryViewer ==
    \A v \in Viewers : \A k \in 2 .. MaxTruth : fenced >= k ~> shown[v] >= k
=============================================================================
