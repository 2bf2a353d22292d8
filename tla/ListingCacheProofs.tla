------------------------- MODULE ListingCacheProofs -------------------------
(***************************************************************************)
(* Proofs about the shared listing cache, for any number of viewers, any   *)
(* data, any clock and any of the faults the model has.                    *)
(***************************************************************************)
EXTENDS ListingCache, TLAPS

-----------------------------------------------------------------------------
(* The inductive invariant, in named parts *)

(* Clock readings are positive, so a published row counts as refreshed *)
TimesArePositive ==
    /\ now > 0
    /\ \A v \in Viewers :
         call[v].pc \in {"begun", "listing", "listed"} => call[v].time > 0

(* Nothing claims to be newer than the provider's own data *)
NothingAheadOfTruth ==
    /\ fenced <= truth
    /\ payload <= truth
    /\ \A v \in Viewers :
         call[v].pc \in {"listed", "unshared"} => call[v].got <= truth

(* Before the first claim there is nothing to serve and nothing to own *)
MissingRowIsEmpty ==
    ~ row.exists => /\ row.refreshed = 0
                    /\ row.owner = NoOwner
                    /\ payload = 0

(* Generations held outside the row are never ahead of it *)
GenerationsBehindRow ==
    \A v \in Viewers :
        /\ cursor[v] <= row.gen
        /\ call[v].pc = "reading" => row.exists /\ call[v].gen <= row.gen

(* A listing its holder may still publish covers all that was fenced and   *)
(* everything already published                                            *)
PublishableIsCurrent ==
    \A v \in Viewers :
        call[v].pc = "listed" /\ StillOwns(v)
            => call[v].got >= fenced /\ call[v].got >= payload

(* A listing fetched alone is not older than what its viewer's cursor names *)
UnsharedCoversPayload ==
    \A v \in Viewers :
        call[v].pc = "unshared" /\ cursor[v] = row.gen => call[v].got >= payload

IInv == /\ TypeOK
        /\ TimesArePositive
        /\ NothingAheadOfTruth
        /\ MissingRowIsEmpty
        /\ GenerationsBehindRow
        /\ PublishableIsCurrent
        /\ UnsharedCoversPayload
        /\ FreshHoldsMutations
        /\ CursorCoversPayload

-----------------------------------------------------------------------------
(* Type correctness *)

LEMMA TypeInit == Init => TypeOK
  BY DEF Init, TypeOK, NoRow, NoCall, NoCursor, Steps, Row, Call

(* Giving a lease back touches nothing but the lease *)
LEMMA FailLeaseKeepsRow ==
    ASSUME NEW v \in Viewers, TypeOK, FailLease(v)
    PROVE  /\ row' \in Row
           /\ row'.exists = row.exists
           /\ row'.refreshed = row.refreshed
           /\ row'.gen = row.gen
           /\ row'.owner \in {row.owner, NoOwner}
  <1>1. CASE StillOwns(v) /\ ReleaseLease
    BY <1>1 DEF StillOwns, ReleaseLease, WriteRow, TypeOK, Row
  <1>2. CASE UNCHANGED row
    BY <1>2 DEF TypeOK
  <1>3. QED
    BY <1>1, <1>2 DEF FailLease

LEMMA TypeStep == TypeOK /\ [Next]_vars => TypeOK'
<1> SUFFICES ASSUME TypeOK, [Next]_vars PROVE TypeOK'
  OBVIOUS
<1> USE OwnerAssumption, TimeAssumption
    DEF TypeOK, Steps, NoCall, NoCursor, world, db
<1>1. ASSUME NEW v \in Viewers, Proceed(v) PROVE TypeOK'
  <2>1. CASE Begin(v)
    BY <2>1 DEF Begin, Enter, Row, Call
  <2>2. CASE ClaimFresh(v)
    BY <2>2 DEF ClaimFresh, Return, Row, Call
  <2>3. CASE ClaimUnchanged(v)
    BY <2>3 DEF ClaimUnchanged, Return, Row, Call
  <2>4. CASE ClaimLeaseHeld(v)
    BY <2>4 DEF ClaimLeaseHeld, Goto, Enter, Row, Call
  <2>5. CASE ClaimTaken(v)
    BY <2>5 DEF ClaimTaken, Enter, WriteRow, Row, Call
  <2>6. CASE SourceOk(v)
    BY <2>6 DEF SourceOk, Enter, Row, Call
  <2>7. CASE Publish(v)
    BY <2>7 DEF Publish, Return, WriteRow, Row, Call
  <2>8. CASE PublishFenced(v)
    BY <2>8 DEF PublishFenced, Return, Row, Call
  <2>9. CASE FallbackRow(v)
    <3>1. CASE row.exists
      BY <2>9, <3>1 DEF FallbackRow, Enter, Row, Call
    <3>2. CASE ~ row.exists
      BY <2>9, <3>2 DEF FallbackRow, Return, Call
    <3>3. QED
      BY <3>1, <3>2
  <2>10. CASE FallbackPayload(v)
    <3>1. CASE payload # 0
      BY <2>10, <3>1 DEF FallbackPayload, Return, Row, Call
    <3>2. CASE payload = 0
      BY <2>10, <3>2 DEF FallbackPayload, Return, Row, Call
    <3>3. QED
      BY <3>1, <3>2
  <2>11. CASE UnscopedSource(v)
    BY <2>11 DEF UnscopedSource, Enter, Row, Call
  <2>12. CASE UnscopedShow(v)
    BY <2>12 DEF UnscopedShow, Return, Row, Call
  <2>13. QED
    BY <1>1, <2>1, <2>2, <2>3, <2>4, <2>5, <2>6, <2>7, <2>8, <2>9, <2>10, <2>11, <2>12 DEF Proceed
<1>2. ASSUME NEW v \in Viewers, Renew(v) PROVE TypeOK'
  BY <1>2 DEF Renew, WriteRow, Row
<1>3. ASSUME NEW v \in Viewers, Fail(v) PROVE TypeOK'
  <2>1. CASE ClaimError(v)
    BY <2>1 DEF ClaimError, Goto, Enter, Fault, Row, Call
  <2>2. CASE SourceError(v)
    BY <2>2, FailLeaseKeepsRow DEF SourceError, Goto, Enter, Fault, Call
  <2>3. CASE PublishError(v)
    BY <2>3, FailLeaseKeepsRow DEF PublishError, Return, Fault, Call
  <2>4. CASE FallbackError(v)
    BY <2>4 DEF FallbackError, Return, Fault, Row, Call
  <2>5. CASE UnscopedError(v)
    BY <2>5 DEF UnscopedError, Return, Fault, Row, Call
  <2>6. CASE Panic(v)
    BY <2>6 DEF Panic, Return, Fault, Row, Call
  <2>7. CASE Crash(v)
    BY <2>7 DEF Crash, Return, Fault, Row, Call
  <2>8. QED
    BY <1>3, <2>1, <2>2, <2>3, <2>4, <2>5, <2>6, <2>7 DEF Fail
<1>4. CASE Mutate
  BY <1>4 DEF Mutate, Row, Call
<1>5. CASE Invalidate
  <2>1. CASE row.exists
    <3>1. row' \in Row
      <4>1. WriteRow(0, row.gen + 1, NoOwner, 0)
        BY <1>5, <2>1 DEF Invalidate, WithdrawRow
      <4>2. row.gen + 1 \in Nat
        BY DEF Row
      <4>3. QED
        BY <4>1, <4>2 DEF WriteRow, Row
    <3>2. owed' \in Nat
      BY <1>5 DEF Invalidate
    <3>3. QED
      BY <1>5, <3>1, <3>2 DEF Invalidate
  <2>2. CASE ~ row.exists
    BY <1>5, <2>2 DEF Invalidate, WithdrawRow
  <2>3. QED
    BY <2>1, <2>2
<1>6. CASE Tick
  BY <1>6 DEF Tick, Row, Call
<1>7. CASE ClockStep
  BY <1>7 DEF ClockStep, Fault, Row, Call
<1>8. CASE UNCHANGED vars
  BY <1>8 DEF vars
<1>9. QED
  BY <1>1, <1>2, <1>3, <1>4, <1>5, <1>6, <1>7, <1>8 DEF Next

(* Every state of every behaviour has the types the module declares *)
THEOREM TypeCorrect == Spec => []TypeOK
  BY TypeInit, TypeStep, PTL DEF Spec

-----------------------------------------------------------------------------
(* The inductive invariant *)

LEMMA InvInit == Init => IInv
  BY TypeInit, OwnerAssumption
  DEF Init, IInv, NoRow, NoCall, NoCursor, TimesArePositive, NothingAheadOfTruth,
      MissingRowIsEmpty, GenerationsBehindRow, PublishableIsCurrent,
      UnsharedCoversPayload, FreshHoldsMutations, CursorCoversPayload

LEMMA InvStep == IInv /\ [Next]_vars => IInv'
<1> SUFFICES ASSUME IInv, [Next]_vars PROVE IInv'
  OBVIOUS
<1>0. TypeOK /\ TypeOK'
  BY TypeStep DEF IInv
<1> USE <1>0, OwnerAssumption
    DEF IInv, TimesArePositive, NothingAheadOfTruth, MissingRowIsEmpty,
        GenerationsBehindRow, PublishableIsCurrent, UnsharedCoversPayload,
        FreshHoldsMutations, CursorCoversPayload, TypeOK, Row, Call,
        StillOwns, At, NoCall, NoCursor, world, db
<1>1. ASSUME NEW v \in Viewers, Proceed(v) PROVE IInv'
  <2>1. CASE Begin(v)
    BY <2>1 DEF Begin, Enter
  <2>2. CASE ClaimFresh(v)
    BY <2>2 DEF ClaimFresh, Return
  <2>3. CASE ClaimUnchanged(v)
    BY <2>3 DEF ClaimUnchanged, Return
  <2>4. CASE ClaimLeaseHeld(v)
    BY <2>4 DEF ClaimLeaseHeld, Goto, Enter
  <2>5. CASE ClaimTaken(v)
    BY <2>5 DEF ClaimTaken, Enter, WriteRow
  <2>6. CASE SourceOk(v)
    BY <2>6 DEF SourceOk, Enter
  <2>7. CASE Publish(v)
    BY <2>7 DEF Publish, Return, WriteRow
  <2>8. CASE PublishFenced(v)
    BY <2>8 DEF PublishFenced, Return
  <2>9. CASE FallbackRow(v)
    <3>1. UNCHANGED <<now, truth, fenced, row, payload, cursor, shown>>
      BY <2>9 DEF FallbackRow
    <3>2. \A w \in Viewers :
            /\ call'[w].pc \notin {"begun", "listing", "listed", "unshared"}
                  \/ call'[w] = call[w]
            /\ call'[w].pc = "reading"
                  => row.exists /\ (call'[w].gen = row.gen \/ call'[w] = call[w])
      <4>1. CASE row.exists
        BY <2>9, <4>1 DEF FallbackRow, Enter
      <4>2. CASE ~ row.exists
        BY <2>9, <4>2 DEF FallbackRow, Return
      <4>3. QED
        BY <4>1, <4>2
    <3>3. QED
      <4>1. TimesArePositive'
        BY <3>1, <3>2
      <4>2. NothingAheadOfTruth'
        BY <3>1, <3>2
      <4>3. MissingRowIsEmpty'
        BY <3>1, <3>2
      <4>4. GenerationsBehindRow'
        BY <3>1, <3>2
      <4>5. PublishableIsCurrent'
        BY <3>1, <3>2
      <4>6. UnsharedCoversPayload'
        BY <3>1, <3>2
      <4>7. FreshHoldsMutations'
        BY <3>1, <3>2
      <4>8. CursorCoversPayload'
        BY <3>1, <3>2
      <4>9. QED
        BY <4>1, <4>2, <4>3, <4>4, <4>5, <4>6, <4>7, <4>8
  <2>10. CASE FallbackPayload(v)
    BY <2>10 DEF FallbackPayload, Return
  <2>11. CASE UnscopedSource(v)
    BY <2>11 DEF UnscopedSource, Enter
  <2>12. CASE UnscopedShow(v)
    BY <2>12 DEF UnscopedShow, Return
  <2>13. QED
    BY <1>1, <2>1, <2>2, <2>3, <2>4, <2>5, <2>6, <2>7, <2>8, <2>9, <2>10, <2>11, <2>12 DEF Proceed
<1>2. ASSUME NEW v \in Viewers, Renew(v) PROVE IInv'
  BY <1>2 DEF Renew, WriteRow
<1>3. ASSUME NEW v \in Viewers, Fail(v) PROVE IInv'
  <2>1. CASE ClaimError(v)
    BY <2>1 DEF ClaimError, Goto, Enter
  <2>2. CASE SourceError(v)
    BY <2>2, FailLeaseKeepsRow DEF SourceError, Goto, Enter
  <2>3. CASE PublishError(v)
    BY <2>3, FailLeaseKeepsRow DEF PublishError, Return
  <2>4. CASE FallbackError(v)
    BY <2>4 DEF FallbackError, Return
  <2>5. CASE UnscopedError(v)
    BY <2>5 DEF UnscopedError, Return
  <2>6. CASE Panic(v)
    BY <2>6 DEF Panic, Return
  <2>7. CASE Crash(v)
    BY <2>7 DEF Crash, Return
  <2>8. QED
    BY <1>3, <2>1, <2>2, <2>3, <2>4, <2>5, <2>6, <2>7 DEF Fail
<1>4. CASE Mutate
  BY <1>4 DEF Mutate
<1>5. CASE Invalidate
  BY <1>5 DEF Invalidate, WithdrawRow, WriteRow
<1>6. CASE Tick
  BY <1>6 DEF Tick
<1>7. CASE ClockStep
  BY <1>7 DEF ClockStep
<1>8. CASE UNCHANGED vars
  BY <1>8 DEF vars
<1>9. QED
  BY <1>1, <1>2, <1>3, <1>4, <1>5, <1>6, <1>7, <1>8 DEF Next

(* The inductive invariant holds in every state of every behaviour *)
THEOREM Invariance == Spec => []IInv
  BY InvInit, InvStep, PTL DEF Spec

-----------------------------------------------------------------------------
(* What follows from it *)

(* A refreshed row never serves a listing older than a fenced mutation *)
THEOREM FreshIsPostMutation == Spec => []FreshHoldsMutations
<1>1. IInv => FreshHoldsMutations
  BY DEF IInv
<1>2. QED
  BY <1>1, Invariance, PTL

(* "Unchanged" never leaves a viewer on rows older than the payload *)
THEOREM UnchangedHidesNothing == Spec => []CursorCoversPayload
<1>1. IInv => CursorCoversPayload
  BY DEF IInv
<1>2. QED
  BY <1>1, Invariance, PTL

(* The steps that touch the abstract copy, as the abstract machine sees them *)
LEMMA StepsOfCopy == IInv /\ [Next]_vars => [Copy!Next]_(Copy!vars)
<1> SUFFICES ASSUME IInv, [Next]_vars PROVE [Copy!Next]_(Copy!vars)
  OBVIOUS
<1> USE DEF IInv, TypeOK, Row, Call, At, Copy!Next, Copy!vars, world, db
<1>1. ASSUME NEW v \in Viewers, Proceed(v) PROVE [Copy!Next]_(Copy!vars)
  <2>1. CASE ClaimTaken(v)
    BY <2>1 DEF ClaimTaken, WriteRow
  <2>2. CASE Publish(v)
    <3>1. payload' \in payload .. truth /\ payload' >= fenced
      BY <2>2 DEF Publish, PublishableIsCurrent, NothingAheadOfTruth
    <3>2. row'.refreshed > 0
      BY <2>2 DEF Publish, WriteRow, TimesArePositive
    <3>3. UNCHANGED <<truth, fenced>>
      BY <2>2 DEF Publish
    <3>4. Copy!Publish
      BY <3>1, <3>2, <3>3 DEF Copy!Publish
    <3>5. QED
      BY <3>4
  <2>3. CASE UNCHANGED <<world, db>>
    BY <2>3
  <2>4. QED
    BY <1>1, <2>1, <2>2, <2>3
    DEF Proceed, Begin, ClaimFresh, ClaimUnchanged, ClaimLeaseHeld, SourceOk,
        PublishFenced, FallbackRow, FallbackPayload, UnscopedSource, UnscopedShow
<1>2. ASSUME NEW v \in Viewers, Renew(v) PROVE [Copy!Next]_(Copy!vars)
  BY <1>2 DEF Renew, WriteRow
<1>3. ASSUME NEW v \in Viewers, Fail(v) PROVE [Copy!Next]_(Copy!vars)
  <2>1. CASE SourceError(v) \/ PublishError(v)
    BY <2>1, FailLeaseKeepsRow DEF SourceError, PublishError
  <2>2. CASE UNCHANGED <<world, db>>
    BY <2>2
  <2>3. QED
    BY <1>3, <2>1, <2>2
    DEF Fail, ClaimError, FallbackError, UnscopedError, Panic, Crash
<1>4. CASE Mutate
  BY <1>4 DEF Mutate, Copy!Change
<1>5. CASE Invalidate
  <2>1. ~ (row'.refreshed > 0)
    BY <1>5 DEF Invalidate, WithdrawRow, WriteRow, MissingRowIsEmpty
  <2>2. QED
    BY <1>5, <2>1 DEF Invalidate, Copy!Withdraw
<1>6. CASE Tick
  BY <1>6 DEF Tick
<1>7. CASE ClockStep
  BY <1>7 DEF ClockStep
<1>8. CASE UNCHANGED vars
  BY <1>8 DEF vars
<1>9. QED
  BY <1>1, <1>2, <1>3, <1>4, <1>5, <1>6, <1>7, <1>8 DEF Next

(* The row and its payload implement the copy every viewer relies on *)
THEOREM Refinement == Spec => ImplementsSharedListing
<1>1. Init => Copy!Init
  BY DEF Init, NoRow, Copy!Init
<1>2. QED
  BY <1>1, StepsOfCopy, Invariance, PTL DEF Spec, ImplementsSharedListing, Copy!Spec

(* A slow holder never puts an older listing back *)
THEOREM PayloadOnlyMovesForward == Spec => PayloadNeverRegresses
<1>1. IInv /\ [Next]_vars => [payload' >= payload]_vars
  <2> SUFFICES ASSUME IInv, [Next]_vars, ~ UNCHANGED vars
               PROVE  payload' >= payload
    OBVIOUS
  <2>1. payload \in Nat /\ payload' \in Nat
    BY TypeStep DEF IInv, TypeOK
  <2>2. [Copy!Next]_(Copy!vars)
    BY StepsOfCopy
  <2>3. QED
    BY <2>1, <2>2
    DEF IInv, TypeOK, Copy!Next, Copy!vars, Copy!Change, Copy!Withdraw, Copy!Publish
<1>2. QED
  BY <1>1, Invariance, PTL DEF Spec, PayloadNeverRegresses

-----------------------------------------------------------------------------
(* One lister at a time, when claims and renewals are scheduled in time.   *)
(* The lease has to outlast the tick a claim may be late by, and a lease   *)
(* renewed meanwhile has to stay inside the horizon of such a claim: the   *)
(* code leases for 5 s and takes anything up to 60 s for a live lease.     *)

(* A claim decides on a clock reading that is at most a tick old *)
BegunRecently ==
    \A v \in Viewers :
        At(v, "begun") => call[v].time <= now /\ now <= call[v].time + 1

(* Whoever lists does so for a generation the row has already reached *)
ListersBehindRow ==
    \A v \in Viewers :
        At(v, "listing") \/ At(v, "listed") => row.exists /\ call[v].gen <= row.gen

(* The lister of the row's own generation holds a lease that every claim   *)
(* still to come takes for a live one                                      *)
ListerHoldsLease ==
    \A v \in Viewers :
        ListsCurrent(v) => /\ row.owner = v
                           /\ row.until > now
                           /\ row.until <= now + Lease

PromptInv == TypeOK /\ BegunRecently /\ ListersBehindRow /\ ListerHoldsLease

LEMMA PromptInit == Init => PromptInv
  BY TypeInit DEF Init, PromptInv, BegunRecently, ListersBehindRow, ListerHoldsLease,
                  ListsCurrent, At, NoCall

(* A viewer that leaves its call, or goes on listing, disturbs nobody *)
LEMMA LeavingKeepsPromptInv ==
    ASSUME PromptInv, TypeOK', NEW v \in Viewers, UNCHANGED <<now, row>>,
           \A w \in Viewers \ {v} : call'[w] = call[w],
           \/ call'[v].pc \notin {"begun", "listing", "listed"}
           \/ At(v, "listing") /\ call'[v].pc = "listed" /\ call'[v].gen = call[v].gen
    PROVE  PromptInv'
  BY DEF PromptInv, BegunRecently, ListersBehindRow, ListerHoldsLease, ListsCurrent, At

(* A holder that gives up takes away nobody's lease but its own *)
LEMMA GivingUpKeepsPromptInv ==
    ASSUME PromptInv, TypeOK', NEW v \in Viewers, UNCHANGED now, FailLease(v),
           \A w \in Viewers \ {v} : call'[w] = call[w],
           call'[v].pc \notin {"begun", "listing", "listed"}
    PROVE  PromptInv'
<1>1. CASE UNCHANGED row
  BY <1>1, LeavingKeepsPromptInv
<1>2. CASE StillOwns(v) /\ ReleaseLease
  <2>1. row'.exists = row.exists /\ row'.gen = row.gen
    BY <1>2 DEF ReleaseLease, WriteRow, StillOwns
  <2>2. BegunRecently' /\ ListersBehindRow'
    BY <2>1 DEF PromptInv, BegunRecently, ListersBehindRow, At
  <2>3. \A w \in Viewers : ~ ListsCurrent(w)'
    BY <1>2, <2>1 DEF PromptInv, ListerHoldsLease, ListsCurrent, At, StillOwns
  <2>4. QED
    BY <2>2, <2>3 DEF PromptInv, ListerHoldsLease
<1>3. QED
  BY <1>1, <1>2 DEF FailLease

(* Withdrawing or publishing moves the row past every listing in progress *)
LEMMA NextGenerationHasNoLister ==
    ASSUME PromptInv, TypeOK', UNCHANGED now,
           row.exists, row'.exists, row'.gen = row.gen + 1,
           \A w \in Viewers : \/ call'[w] = call[w]
                              \/ call'[w].pc \notin {"begun", "listing", "listed"}
    PROVE  PromptInv'
<1>1. BegunRecently' /\ ListersBehindRow'
  BY DEF PromptInv, BegunRecently, ListersBehindRow, At, TypeOK, Row, Call
<1>2. \A w \in Viewers : ~ ListsCurrent(w)'
  BY DEF PromptInv, ListersBehindRow, ListsCurrent, At, TypeOK, Row, Call
<1>3. QED
  BY <1>1, <1>2 DEF PromptInv, ListerHoldsLease

(* While somebody lists for the row's generation no claim is granted *)
LEMMA ListerExcludesClaim ==
    ASSUME PromptInv, Lease < Horizon, NEW v \in Viewers, ListsCurrent(v),
           NEW w \in Viewers, At(w, "begun")
    PROVE  LeaseIsHeld(call[w].time)
<1>1. row.owner = v /\ row.until > now /\ row.until <= now + Lease
  BY DEF PromptInv, ListerHoldsLease
<1>2. call[w].time <= now /\ now <= call[w].time + 1
  BY DEF PromptInv, BegunRecently
<1>3. now \in Nat /\ call[w].time \in Nat /\ row.until \in Nat
  BY DEF PromptInv, TypeOK, Row, Call
<1>4. row.until > call[w].time /\ row.until <= call[w].time + Horizon
  BY <1>1, <1>2, <1>3, TimeAssumption
<1>5. row.owner # NoOwner
  BY <1>1, OwnerAssumption
<1>6. QED
  BY <1>4, <1>5, TimeAssumption DEF LeaseIsHeld

LEMMA PromptStep ==
    ASSUME Prompt = TRUE, 1 < Lease, Lease < Horizon
    PROVE  PromptInv /\ [Next]_vars => PromptInv'
<1> SUFFICES ASSUME PromptInv, [Next]_vars PROVE PromptInv'
  OBVIOUS
<1>0. TypeOK /\ TypeOK'
  BY TypeStep DEF PromptInv
<1> USE <1>0, OwnerAssumption, TimeAssumption DEF world, db
<1>1. ASSUME NEW v \in Viewers, Proceed(v) PROVE PromptInv'
  <2>1. CASE Begin(v)
    <3>1. /\ UNCHANGED <<now, row>>
          /\ call' = [call EXCEPT ![v] = [pc |-> "begun", time |-> now, gen |-> 0, got |-> 0]]
      BY <2>1 DEF Begin, Enter
    <3>2. BegunRecently'
      BY <3>1 DEF PromptInv, BegunRecently, At, TypeOK
    <3>3. ListersBehindRow'
      BY <3>1 DEF PromptInv, ListersBehindRow, At, TypeOK
    <3>4. ListerHoldsLease'
      BY <3>1 DEF PromptInv, ListerHoldsLease, ListsCurrent, At, TypeOK
    <3>5. QED
      BY <3>2, <3>3, <3>4 DEF PromptInv
  <2>2. CASE ClaimTaken(v)
    <3> DEFINE taken == [exists |-> TRUE, refreshed |-> row.refreshed, gen |-> row.gen,
                         owner |-> v, until |-> call[v].time + Lease]
    <3>1. /\ UNCHANGED now
          /\ row' = taken
          /\ call' = [call EXCEPT ![v] = [pc |-> "listing", time |-> call[v].time,
                                          gen |-> row.gen, got |-> 0]]
          /\ At(v, "begun")
      BY <2>2 DEF ClaimTaken, Enter, WriteRow
    <3>2. \A w \in Viewers : ~ ListsCurrent(w)
      BY <2>2, ListerExcludesClaim DEF ClaimTaken
    <3>3. call[v].time <= now /\ now <= call[v].time + 1
      BY <3>1 DEF PromptInv, BegunRecently
    <3>4. now \in Nat /\ call[v].time \in Nat
      BY DEF TypeOK, Call
    <3>5. BegunRecently'
      BY <3>1 DEF PromptInv, BegunRecently, At, TypeOK
    <3>6. ListersBehindRow'
      BY <3>1 DEF PromptInv, ListersBehindRow, At, TypeOK, Row
    <3>7. \A w \in Viewers \ {v} : ~ ListsCurrent(w)'
      BY <3>1, <3>2 DEF ListsCurrent, At, TypeOK
    <3>8. row'.owner = v /\ row'.until > now /\ row'.until <= now + Lease
      BY <3>1, <3>3, <3>4
    <3>9. ListerHoldsLease'
      BY <3>1, <3>7, <3>8 DEF ListerHoldsLease
    <3>10. QED
      BY <3>5, <3>6, <3>9 DEF PromptInv
  <2>3. CASE SourceOk(v)
    BY <2>3, LeavingKeepsPromptInv DEF SourceOk, Enter, At, TypeOK
  <2>4. CASE Publish(v)
    BY <2>4, NextGenerationHasNoLister
    DEF Publish, Return, WriteRow, StillOwns, NoCall, TypeOK
  <2>5. CASE FallbackRow(v)
    <3>1. CASE row.exists
      BY <2>5, <3>1, LeavingKeepsPromptInv DEF FallbackRow, Enter, TypeOK
    <3>2. CASE ~ row.exists
      BY <2>5, <3>2, LeavingKeepsPromptInv DEF FallbackRow, Return, NoCall, TypeOK
    <3>3. QED
      BY <3>1, <3>2
  <2>6. CASE ClaimLeaseHeld(v) \/ UnscopedSource(v)
    BY <2>6, LeavingKeepsPromptInv DEF ClaimLeaseHeld, UnscopedSource, Goto, Enter, TypeOK
  <2>7. CASE \/ ClaimFresh(v) \/ ClaimUnchanged(v) \/ PublishFenced(v)
             \/ FallbackPayload(v) \/ UnscopedShow(v)
    BY <2>7, LeavingKeepsPromptInv
    DEF ClaimFresh, ClaimUnchanged, PublishFenced, FallbackPayload, UnscopedShow,
        Return, NoCall, TypeOK
  <2>8. QED
    BY <1>1, <2>1, <2>2, <2>3, <2>4, <2>5, <2>6, <2>7 DEF Proceed
<1>2. ASSUME NEW v \in Viewers, Renew(v) PROVE PromptInv'
  <2>1. /\ UNCHANGED <<now, call>>
        /\ row' = [exists |-> TRUE, refreshed |-> row.refreshed, gen |-> row.gen,
                   owner |-> v, until |-> now + Lease]
        /\ row.exists /\ row.owner = v
    BY <1>2 DEF Renew, WriteRow, StillOwns
  <2>2. BegunRecently' /\ ListersBehindRow'
    BY <2>1 DEF PromptInv, BegunRecently, ListersBehindRow, At
  <2>3. row'.owner = v /\ row'.until = now + Lease /\ row'.gen = row.gen
    BY <2>1
  <2>4. now + Lease > now
    BY DEF TypeOK
  <2>5. ListerHoldsLease'
    <3> SUFFICES ASSUME NEW w \in Viewers, ListsCurrent(w)'
                 PROVE  row'.owner = w /\ row'.until > now' /\ row'.until <= now' + Lease
      BY DEF ListerHoldsLease
    <3>1. ListsCurrent(w)
      BY <2>1, <2>3 DEF ListsCurrent, At
    <3>2. w = v
      BY <2>1, <3>1 DEF PromptInv, ListerHoldsLease
    <3>3. QED
      BY <2>1, <2>3, <2>4, <3>2 DEF TypeOK
  <2>6. QED
    BY <2>2, <2>5 DEF PromptInv
<1>3. ASSUME NEW v \in Viewers, Fail(v) PROVE PromptInv'
  <2>1. CASE SourceError(v)
    BY <2>1, GivingUpKeepsPromptInv DEF SourceError, Goto, Enter, TypeOK
  <2>2. CASE PublishError(v)
    BY <2>2, GivingUpKeepsPromptInv DEF PublishError, Return, NoCall, TypeOK
  <2>3. CASE ClaimError(v)
    BY <2>3, LeavingKeepsPromptInv DEF ClaimError, Goto, Enter, TypeOK
  <2>4. CASE FallbackError(v) \/ UnscopedError(v) \/ Panic(v) \/ Crash(v)
    BY <2>4, LeavingKeepsPromptInv
    DEF FallbackError, UnscopedError, Panic, Crash, Return, NoCall, TypeOK
  <2>5. QED
    BY <1>3, <2>1, <2>2, <2>3, <2>4 DEF Fail
<1>4. CASE Invalidate
  <2>1. CASE row.exists
    BY <1>4, <2>1, NextGenerationHasNoLister DEF Invalidate, WithdrawRow, WriteRow
  <2>2. CASE ~ row.exists
    BY <1>4, <2>2 DEF Invalidate, WithdrawRow, PromptInv, BegunRecently,
                      ListersBehindRow, ListerHoldsLease, ListsCurrent, At
  <2>3. QED
    BY <2>1, <2>2
<1>5. CASE Tick
  <2>1. /\ now' = now + 1
        /\ UNCHANGED row
        /\ SchedulingKeepsUp
        /\ \A w \in Viewers : /\ call'[w].pc = call[w].pc
                              /\ call'[w].gen = call[w].gen
                              /\ At(w, "begun") => call'[w].time = call[w].time
    BY <1>5 DEF Tick, TypeOK, Call, At
  <2>2. now \in Nat /\ row.until \in Nat
    BY DEF TypeOK, Row
  <2>3. BegunRecently'
    BY <2>1, <2>2 DEF SchedulingKeepsUp, BegunRecently, At
  <2>4. ListersBehindRow'
    BY <2>1 DEF PromptInv, ListersBehindRow, At
  <2>5. ListerHoldsLease'
    <3> SUFFICES ASSUME NEW w \in Viewers, ListsCurrent(w)'
                 PROVE  row.owner = w /\ row.until > now + 1 /\ row.until <= now + 1 + Lease
      BY <2>1 DEF ListerHoldsLease
    <3>1. ListsCurrent(w)
      BY <2>1 DEF ListsCurrent, At
    <3>2. row.owner = w /\ row.until <= now + Lease
      BY <3>1 DEF PromptInv, ListerHoldsLease
    <3>3. StillOwns(w)
      BY <3>1, <3>2 DEF PromptInv, ListersBehindRow, ListsCurrent, StillOwns
    <3>4. row.until > now + 1
      BY <2>1, <3>1, <3>3 DEF SchedulingKeepsUp, ListsCurrent
    <3>5. QED
      BY <2>2, <3>2, <3>4
  <2>6. QED
    BY <2>3, <2>4, <2>5 DEF PromptInv
<1>6. CASE Mutate \/ UNCHANGED vars
  BY <1>6 DEF Mutate, vars, PromptInv, BegunRecently, ListersBehindRow,
              ListerHoldsLease, ListsCurrent, At
<1>7. QED
  BY <1>1, <1>2, <1>3, <1>4, <1>5, <1>6 DEF Next, ClockStep

(* The lease keeps two viewers from listing the provider for one generation *)
THEOREM OneLister ==
    ASSUME Prompt = TRUE, 1 < Lease, Lease < Horizon
    PROVE  Spec => []AtMostOneLister
<1>1. PromptInv => AtMostOneLister
  BY DEF PromptInv, ListerHoldsLease, AtMostOneLister
<1>2. PromptInv /\ [Next]_vars => PromptInv'
  BY PromptStep
<1>3. QED
  BY <1>1, <1>2, PromptInit, PTL DEF Spec
=============================================================================
