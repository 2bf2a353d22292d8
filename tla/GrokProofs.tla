---------------------------- MODULE GrokProofs -----------------------------
(***************************************************************************)
(* Proofs about both Grok components: the lookups of GrokClaims, for any   *)
(* number of viewers, folders and repositories, any windows longer than    *)
(* the wait for the database, and any crashes, failures and moves; and the *)
(* sessions of GrokSessions, for any number of leaders.                    *)
(***************************************************************************)
EXTENDS GrokClaims, GrokSessions, TLAPS

-----------------------------------------------------------------------------
(* The inductive invariant, in named parts *)

(* Readings are never from the future, and those a claim waits with are    *)
(* at most Lag old                                                         *)
ReadingsAreRecent ==
    \A v \in Viewers :
        /\ pass[v].time <= now
        /\ pass[v].pc = "chosen" => now - pass[v].time <= Lag

(* A pass that is about an entry has one *)
ClaimsHaveKeys ==
    \A v \in Viewers : pass[v].pc \in {"chosen", "running"} => pass[v].key \in Keys

(* Until its window ends, a claim has the row to itself *)
LiveClaimOwnsRow ==
    \A v \in Viewers :
        Live(v) => /\ ~ superseded[v]
                   /\ row[pass[v].key].exists
                   /\ row[pass[v].key].attempt = pass[v].time
                   /\ row[pass[v].key].busy = pass[v].time + Window(pass[v].key)

(* Commands under way on one entry carry different tokens *)
TokensDiffer ==
    \A v, w \in Viewers :
        Running(v) /\ Running(w) /\ v # w /\ pass[v].key = pass[w].key
            => pass[v].time # pass[w].time

(* All but the newest command on an entry know a newer one exists *)
OneNewest ==
    \A v, w \in Viewers :
        Running(v) /\ Running(w) /\ pass[v].key = pass[w].key
        /\ ~ superseded[v] /\ ~ superseded[w] => v = w

IInv == /\ TypeOK
        /\ ReadingsAreRecent
        /\ ClaimsHaveKeys
        /\ LiveClaimOwnsRow
        /\ TokensDiffer
        /\ OneNewest
        /\ LateResultsFenced

-----------------------------------------------------------------------------
(* Type correctness *)

LEMMA WindowIsLong == \A k \in Keys : Window(k) \in Nat /\ Window(k) > Lag
  BY TimeAssumption, LagAssumption DEF Window, Keys

LEMMA NoRowType == NoRow \in Row
  BY DEF NoRow, Row

LEMMA ClaimedType ==
    ASSUME NEW r \in Row, NEW a \in Nat, NEW b \in Nat
    PROVE  [r EXCEPT !.exists = TRUE, !.attempt = a, !.busy = b] \in Row
  BY DEF Row

LEMMA AnsweredType ==
    ASSUME NEW r \in Row, NEW n \in Repos, NEW o \in BOOLEAN, NEW a \in Nat
    PROVE  /\ [r EXCEPT !.names = n, !.onBranch = o, !.success = a, !.busy = 0] \in Row
           /\ [r EXCEPT !.success = a, !.busy = 0] \in Row
  BY DEF Row

LEMMA BusyType ==
    ASSUME NEW r \in Row, NEW b \in Nat
    PROVE  [r EXCEPT !.busy = b] \in Row
  BY DEF Row

LEMMA IdleType == Idle \in Pass
  BY NoRowType DEF Idle, Pass, Steps

LEMMA TypeInit == Init => TypeOK
  BY NoRowType, IdleType DEF Init, TypeOK, Never

LEMMA TypeStep == TypeOK /\ [Next]_vars => TypeOK'
<1> SUFFICES ASSUME TypeOK, [Next]_vars PROVE TypeOK'
  OBVIOUS
<1> USE TimeAssumption, NoRowType, IdleType, WindowIsLong DEF TypeOK
<1>1. ASSUME NEW v \in Viewers, Proceed(v) PROVE TypeOK'
  <2> pass[v] \in Pass
    OBVIOUS
  <2>1. CASE Load(v)
    <3> PICK wanted \in SUBSET onDisk \ {{}} :
          To(v, [Idle EXCEPT !.pc = "loaded", !.wanted = wanted,
                             !.view = [f \in Folders |->
                                         IF f \in wanted THEN row[f] ELSE NoRow]])
      BY <2>1 DEF Load
    <3> [f \in Folders |-> IF f \in wanted THEN row[f] ELSE NoRow] \in [Folders -> Row]
      BY DEF Keys
    <3> QED
      BY <2>1 DEF Load, To, Pass, Steps, Idle
  <2>2. CASE Choose(v)
    <3>1. CASE To(v, [Idle EXCEPT !.pc = "upkeep", !.time = now]) /\ UNCHANGED nextKind
      BY <2>2, <3>1 DEF Choose, To, Pass, Steps, Idle
    <3>2. ASSUME NEW kind \in {"identity", "repository"},
                 NEW k \in IF kind = "identity" THEN DueFolders(pass[v])
                                                ELSE DueRepos(pass[v]),
                 To(v, [Idle EXCEPT !.pc = "chosen", !.key = k, !.time = now]),
                 nextKind' = [nextKind EXCEPT ![v] =
                   IF kind = "identity" THEN "repository" ELSE "identity"]
          PROVE  TypeOK'
      <4>1. k \in Keys \cup {NoKey}
        BY <3>2 DEF DueFolders, DueRepos, Oldest, KnownRepos, Pass, Row, Keys
      <4>2. QED
        BY <2>2, <3>2, <4>1 DEF Choose, To, Pass, Steps, Idle
    <3>3. QED
      BY <2>2, <3>1, <3>2 DEF Choose
  <2>3. CASE Claim(v)
    <3>1. CASE pass[v].key \in Keys
      <4> DEFINE r == row[pass[v].key]
                 time == pass[v].time
                 until == time + Window(pass[v].key)
                 claimed == [r EXCEPT !.exists = TRUE, !.attempt = time, !.busy = until]
      <4> r \in Row /\ time \in Nat /\ until \in Nat
        BY <3>1 DEF Pass
      <4> claimed \in Row
        <5> HIDE DEF r, time, until
        <5> QED
          BY ClaimedType
      <4>1. row' \in [Keys -> Row]
        <5>1. row' = [row EXCEPT ![pass[v].key] = claimed]
          BY <2>3 DEF Claim
        <5> HIDE DEF claimed
        <5>2. QED
          BY <5>1
      <4>2. QED
        BY <2>3, <4>1 DEF Claim, Enter, To, Pass, Steps
    <3>2. CASE pass[v].key \notin Keys
      BY <2>3, <3>2 DEF Claim, Enter, To, Pass, Steps
    <3>3. QED
      BY <3>1, <3>2
  <2>4. CASE ClaimLost(v)
    <3>1. faults' \in Nat
      BY <2>4 DEF ClaimLost, Fault
    <3>2. QED
      BY <2>4, <3>1 DEF ClaimLost, To, Pass, Steps, Idle
  <2>5. CASE Complete(v)
    <3>1. row' \in [Keys -> Row]
      <4>1. CASE StillHolds(v) /\ pass[v].key \in Keys
        <5>1. PICK repo \in Repos, onBranch \in BOOLEAN :
                row' = [row EXCEPT ![pass[v].key] =
                    IF pass[v].key \in Folders
                    THEN [@ EXCEPT !.names = repo, !.onBranch = onBranch,
                                   !.success = now, !.busy = 0]
                    ELSE [@ EXCEPT !.success = now, !.busy = 0]]
          BY <2>5, <4>1 DEF Complete
        <5>2. row[pass[v].key] \in Row
          BY <4>1
        <5>3. QED
          BY <5>1, <5>2, AnsweredType
      <4>2. CASE ~ StillHolds(v)
        BY <2>5, <4>2 DEF Complete
      <4>3. CASE pass[v].key \notin Keys
        BY <2>5, <4>2, <4>3 DEF Complete
      <4>4. QED
        BY <4>1, <4>2, <4>3
    <3>2. QED
      BY <2>5, <3>1 DEF Complete, Finish, To, Pass, Steps, Idle
  <2>6. CASE Fail(v)
    <3>1. row' \in [Keys -> Row]
      <4>1. CASE StillHolds(v) /\ pass[v].key \in Keys
        <5>1. row[pass[v].key] \in Row /\ now + Retry \in Nat
          BY <4>1
        <5>2. row' = [row EXCEPT ![pass[v].key].busy = now + Retry]
          BY <2>6, <4>1 DEF Fail
        <5>3. QED
          BY <5>1, <5>2, BusyType
      <4>2. CASE ~ StillHolds(v)
        BY <2>6, <4>2 DEF Fail
      <4>3. CASE pass[v].key \notin Keys
        BY <2>6, <4>2, <4>3 DEF Fail
      <4>4. QED
        BY <4>1, <4>2, <4>3
    <3>2. QED
      BY <2>6, <3>1 DEF Fail, Finish, To, Pass, Steps, Idle
  <2>7. CASE NoPrune(v)
    BY <2>7 DEF NoPrune, To
  <2>8. CASE ScanFolders(v)
    BY <2>8 DEF ScanFolders, To, Pass, Steps, Keys
  <2>9. CASE ScanRepos(v)
    BY <2>9 DEF ScanRepos, To, Pass, Steps
  <2>10. CASE Prune(v)
    BY <2>10 DEF Prune, To
  <2>11. CASE PruneFails(v)
    BY <2>11 DEF PruneFails, To, Fault
  <2>12. CASE Crash(v)
    BY <2>12 DEF Crash, To, Fault, Never
  <2>13. CASE AnswerLost(v)
    BY <2>13 DEF AnswerLost, Finish, To, Pass, Steps, Idle
  <2>14. QED
    BY <1>1, <2>1, <2>2, <2>3, <2>4, <2>5, <2>6, <2>7, <2>8, <2>9, <2>10,
       <2>11, <2>12, <2>13 DEF Proceed
<1>2. ASSUME NEW f \in Folders, Move(f) PROVE TypeOK'
  BY <1>2 DEF Move, Fault
<1>3. CASE Tick
  BY <1>3 DEF Tick
<1>4. CASE UNCHANGED vars
  BY <1>4 DEF vars
<1>5. QED
  BY <1>1, <1>2, <1>3, <1>4 DEF Next

(* The variables keep their types in every behaviour, whatever viewers,    *)
(* folders and repositories there are (the two tables and the pass of      *)
(* attach_branch_pr_refs_with_runner).                                     *)
THEOREM TypeCorrect == Spec => []TypeOK
  <1>1. Init => TypeOK
    BY TypeInit
  <1>2. TypeOK /\ [Next]_vars => TypeOK'
    BY TypeStep
  <1>3. QED
    BY <1>1, <1>2, PTL DEF Spec

-----------------------------------------------------------------------------
(* The fence *)

(* A step of v that leaves it without a command, and leaves alone what the *)
(* commands of the others rely on                                          *)
LEMMA StepAside ==
    ASSUME IInv, TypeOK', NEW v \in Viewers, NEW p \in Pass,
           now' = now,
           pass' = [pass EXCEPT ![v] = p],
           p.pc # "running",
           p.time <= now,
           p.pc = "chosen" => p.key \in Keys /\ now - p.time <= Lag,
           \A w \in Viewers \ {v} : superseded'[w] = superseded[w],
           \A w \in Viewers \ {v} :
               Live(w) => row'[pass[w].key] = row[pass[w].key],
           \A w \in Viewers \ {v} :
               Running(w) /\ ~ StillHolds(w) => ~ StillHolds(w)'
    PROVE  IInv'
<1> USE DEF IInv
<1>1. pass'[v] = p /\ \A w \in Viewers \ {v} : pass'[w] = pass[w]
  BY DEF TypeOK
<1>2. ~ Running(v)' /\ ~ Live(v)'
  BY <1>1 DEF Running, Live
<1>3. \A w \in Viewers \ {v} : /\ Running(w)' <=> Running(w)
                               /\ Live(w)' <=> Live(w)
  BY <1>1 DEF Running, Live
<1>4. ReadingsAreRecent'
  BY <1>1 DEF ReadingsAreRecent
<1>5. ClaimsHaveKeys'
  BY <1>1 DEF ClaimsHaveKeys
<1>6. LiveClaimOwnsRow'
  BY <1>1, <1>2, <1>3 DEF LiveClaimOwnsRow
<1>7. TokensDiffer'
  BY <1>1, <1>2, <1>3 DEF TokensDiffer
<1>8. OneNewest'
  BY <1>1, <1>2, <1>3 DEF OneNewest
<1>9. LateResultsFenced'
  BY <1>1, <1>2, <1>3 DEF LateResultsFenced
<1>10. QED
  BY <1>4, <1>5, <1>6, <1>7, <1>8, <1>9

(* A claim that goes through meets no command within its window, and its   *)
(* token is new                                                            *)
LEMMA ClaimMeetsNoLiveOne ==
    ASSUME IInv, NEW v \in Viewers, Claim(v), NEW w \in Viewers,
           Running(w), pass[w].key = pass[v].key
    PROVE  ~ Live(w) /\ pass[w].time # pass[v].time
<1> USE DEF IInv, TypeOK
<1>1. /\ pass[v].key \in Keys
      /\ pass[v].time <= now
      /\ now - pass[v].time <= Lag
  BY DEF Claim, ClaimsHaveKeys, ReadingsAreRecent
<1>2. /\ now \in Nat
      /\ pass[v].time \in Nat
      /\ pass[w].time \in Nat
      /\ row[pass[v].key].busy \in Nat
  BY <1>1 DEF Pass, Row
<1>3. ~ Live(w)
  <2> SUFFICES ASSUME Live(w) PROVE FALSE
    OBVIOUS
  <2>1. /\ row[pass[v].key].exists
        /\ row[pass[v].key].busy = pass[w].time + Window(pass[v].key)
        /\ now < pass[w].time + Window(pass[v].key)
    BY DEF LiveClaimOwnsRow, Live
  <2>2. row[pass[v].key].busy <= pass[v].time
    BY <2>1 DEF Claim, MayClaim
  <2>3. QED
    BY <1>1, <1>2, <2>1, <2>2, WindowIsLong
<1>4. ~ now < pass[w].time + Window(pass[v].key)
  BY <1>3 DEF Live
<1>5. QED
  BY <1>1, <1>2, <1>3, <1>4, WindowIsLong, TimeAssumption

LEMMA ClaimKeepsIInv ==
    ASSUME IInv, TypeOK', NEW v \in Viewers, Claim(v)
    PROVE  IInv'
<1> DEFINE k == pass[v].key
<1> USE DEF IInv
<1>1. /\ k \in Keys
      /\ pass[v].time <= now
      /\ pass[v].pc = "chosen"
  BY DEF Claim, ClaimsHaveKeys, ReadingsAreRecent
<1>2. now' = now
  BY DEF Claim
<1>3. /\ pass'[v].pc = "running"
      /\ pass'[v].key = k
      /\ pass'[v].time = pass[v].time
      /\ \A w \in Viewers \ {v} : pass'[w] = pass[w]
  BY DEF Claim, Enter, To, TypeOK, Pass
<1>4. /\ row'[k].exists
      /\ row'[k].attempt = pass[v].time
      /\ row'[k].busy = pass[v].time + Window(k)
      /\ \A other \in Keys \ {k} : row'[other] = row[other]
  BY <1>1 DEF Claim, TypeOK, Row
<1>5. /\ ~ superseded'[v]
      /\ \A w \in Viewers \ {v} : Running(w) /\ pass[w].key = k => superseded'[w]
      /\ \A w \in Viewers \ {v} : ~ (Running(w) /\ pass[w].key = k)
                                   => superseded'[w] = superseded[w]
  BY DEF Claim, Running
<1>6. \A w \in Viewers \ {v} : /\ Running(w)' <=> Running(w)
                               /\ Live(w)' <=> Live(w)
  BY <1>2, <1>3 DEF Running, Live
<1>7. \A w \in Viewers : Running(w) /\ pass[w].key = k
                           => ~ Live(w) /\ pass[w].time # pass[v].time
  BY ClaimMeetsNoLiveOne
<1>8. \A w \in Viewers : Running(w) => pass[w].key \in Keys
  BY DEF ClaimsHaveKeys, Running
<1> HIDE DEF k
<1>9. ReadingsAreRecent'
  BY <1>1, <1>2, <1>3 DEF ReadingsAreRecent
<1>10. ClaimsHaveKeys'
  BY <1>1, <1>3 DEF ClaimsHaveKeys
<1>11. LiveClaimOwnsRow'
  <2> SUFFICES ASSUME NEW w \in Viewers, Live(w)'
               PROVE  /\ ~ superseded'[w]
                      /\ row'[pass'[w].key].exists
                      /\ row'[pass'[w].key].attempt = pass'[w].time
                      /\ row'[pass'[w].key].busy = pass'[w].time + Window(pass'[w].key)
    BY DEF LiveClaimOwnsRow
  <2>1. CASE w = v
    BY <2>1, <1>3, <1>4, <1>5
  <2>2. CASE w # v
    <3>1. Live(w) /\ Running(w) /\ pass'[w] = pass[w]
      BY <2>2, <1>3, <1>6 DEF Live
    <3>2. pass[w].key # k /\ pass[w].key \in Keys
      BY <3>1, <1>7, <1>8
    <3>3. row'[pass[w].key] = row[pass[w].key] /\ superseded'[w] = superseded[w]
      BY <2>2, <3>1, <3>2, <1>4, <1>5
    <3>4. QED
      BY <3>1, <3>3 DEF LiveClaimOwnsRow
  <2>3. QED
    BY <2>1, <2>2
<1>12. TokensDiffer'
  BY <1>3, <1>6, <1>7 DEF TokensDiffer
<1>13. OneNewest'
  <2> SUFFICES ASSUME NEW w \in Viewers, NEW x \in Viewers, Running(w)', Running(x)',
                      pass'[w].key = pass'[x].key,
                      ~ superseded'[w], ~ superseded'[x]
               PROVE  w = x
    BY DEF OneNewest
  <2>1. \A y \in Viewers \ {v} : Running(y)' /\ ~ superseded'[y]
                                 => Running(y) /\ pass[y].key # k /\ ~ superseded[y]
    BY <1>5, <1>6
  <2>2. CASE w = v \/ x = v
    BY <2>1, <2>2, <1>3
  <2>3. CASE w # v /\ x # v
    BY <2>1, <2>3, <1>3 DEF OneNewest
  <2>4. QED
    BY <2>2, <2>3
<1>14. LateResultsFenced'
  <2> SUFFICES ASSUME NEW w \in Viewers, Running(w)', superseded'[w]
               PROVE  ~ StillHolds(w)'
    BY DEF LateResultsFenced
  <2>1. w # v
    BY <1>5
  <2>2. Running(w) /\ pass'[w] = pass[w] /\ pass[w].key \in Keys
    BY <2>1, <1>3, <1>6, <1>8
  <2>3. CASE pass[w].key = k
    BY <2>2, <2>3, <1>4, <1>7 DEF StillHolds
  <2>4. CASE pass[w].key # k
    <3>1. superseded[w] /\ row'[pass[w].key] = row[pass[w].key]
      BY <2>1, <2>2, <2>4, <1>4, <1>5
    <3>2. QED
      BY <2>2, <3>1 DEF LateResultsFenced, StillHolds
  <2>5. QED
    BY <2>3, <2>4
<1>15. QED
  BY <1>9, <1>10, <1>11, <1>12, <1>13, <1>14

(* The answer of v touches only a row whose token is v's *)
LEMMA AnswerKeepsIInv ==
    ASSUME IInv, TypeOK', NEW v \in Viewers, Complete(v) \/ Fail(v) \/ AnswerLost(v)
    PROVE  IInv'
<1> USE DEF IInv
<1>1. /\ Running(v)
      /\ pass[v].key \in Keys
      /\ \A w \in Viewers : Running(w) => pass[w].key \in Keys
  BY DEF Complete, Fail, AnswerLost, Running, ClaimsHaveKeys
<1>2. /\ \A k \in Keys : /\ row'[k].exists = row[k].exists
                          /\ row'[k].attempt = row[k].attempt
      /\ \A k \in Keys : row'[k] # row[k] => k = pass[v].key /\ StillHolds(v)
  <2>1. CASE StillHolds(v) /\ Complete(v)
    <3> PICK repo \in Repos, onBranch \in BOOLEAN :
          row' = [row EXCEPT ![pass[v].key] =
                    IF pass[v].key \in Folders
                    THEN [@ EXCEPT !.names = repo, !.onBranch = onBranch,
                                   !.success = now, !.busy = 0]
                    ELSE [@ EXCEPT !.success = now, !.busy = 0]]
      BY <2>1 DEF Complete
    <3> QED
      BY <1>1, <2>1 DEF TypeOK, Row
  <2>2. CASE StillHolds(v) /\ Fail(v)
    BY <1>1, <2>2 DEF Fail, TypeOK, Row
  <2>3. CASE ~ StillHolds(v) \/ AnswerLost(v)
    BY <2>3 DEF Complete, Fail, AnswerLost
  <2>4. QED
    BY <2>1, <2>2, <2>3
<1>3. \A w \in Viewers \ {v} : Live(w) => row'[pass[w].key] = row[pass[w].key]
  BY <1>1, <1>2 DEF Live, LiveClaimOwnsRow, TokensDiffer, StillHolds
<1>4. \A w \in Viewers \ {v} : Running(w) /\ ~ StillHolds(w) => ~ StillHolds(w)'
  <2> TAKE w \in Viewers \ {v}
  <2>1. pass'[w] = pass[w]
    BY DEF Complete, Fail, AnswerLost, Finish, To, TypeOK
  <2>2. QED
    BY <1>1, <1>2, <2>1 DEF StillHolds
<1> DEFINE p == [Idle EXCEPT !.pc = "upkeep", !.time = now]
<1>5. /\ p \in Pass
      /\ p.pc = "upkeep"
      /\ p.time = now
  BY IdleType DEF Idle, Pass, Steps, TypeOK
<1>6. /\ now' = now
      /\ pass' = [pass EXCEPT ![v] = p]
      /\ \A w \in Viewers \ {v} : superseded'[w] = superseded[w]
  BY DEF Complete, Fail, AnswerLost, Finish, To, TypeOK
<1>7. p.time <= now
  BY <1>5 DEF TypeOK
<1> HIDE DEF p
<1>8. QED
  BY <1>3, <1>4, <1>5, <1>6, <1>7, StepAside

(* The transaction deletes no row a command within its window relies on,   *)
(* and deleting a row gives nobody a token back                            *)
LEMMA PruneKeepsIInv ==
    ASSUME IInv, TypeOK', NEW v \in Viewers, Prune(v)
    PROVE  IInv'
<1> USE DEF IInv
<1>1. /\ now' = now
      /\ pass' = [pass EXCEPT ![v] = Idle]
      /\ superseded' = superseded
  BY DEF Prune, To
<1>2. \A k \in Keys : \/ row'[k] = row[k]
                      \/ row'[k] = NoRow /\ row[k].busy <= pass[v].time
  BY DEF Prune, Prunable
<1>3. pass[v].time <= now
  BY DEF ReadingsAreRecent
<1>4. \A w \in Viewers : Running(w) => pass[w].key \in Keys
  BY DEF Running, ClaimsHaveKeys
<1>5. \A w \in Viewers \ {v} : Live(w) => row'[pass[w].key] = row[pass[w].key]
  <2> SUFFICES ASSUME NEW w \in Viewers, Live(w),
                      row[pass[w].key].busy <= pass[v].time
               PROVE  FALSE
    BY <1>2, <1>4 DEF Live
  <2>1. /\ row[pass[w].key].busy = pass[w].time + Window(pass[w].key)
        /\ now < pass[w].time + Window(pass[w].key)
    BY DEF Live, LiveClaimOwnsRow
  <2>2. /\ Window(pass[w].key) \in Nat
        /\ pass[w].time \in Nat
        /\ pass[v].time \in Nat
        /\ now \in Nat
    BY <1>4, WindowIsLong DEF Live, TypeOK, Pass
  <2>3. QED
    BY <1>3, <2>1, <2>2
<1>6. \A w \in Viewers \ {v} : Running(w) /\ ~ StillHolds(w) => ~ StillHolds(w)'
  <2> TAKE w \in Viewers \ {v}
  <2>1. pass'[w] = pass[w]
    BY <1>1 DEF TypeOK
  <2>2. QED
    BY <1>2, <1>4, <2>1 DEF StillHolds, NoRow
<1>7. Idle.pc = "idle" /\ Idle.time = 0 /\ 0 <= now
  BY DEF Idle, TypeOK
<1>8. QED
  BY <1>1, <1>5, <1>6, <1>7, IdleType, StepAside

(* The steps that only move v's pass on *)
LEMMA QuietKeepsIInv ==
    ASSUME IInv, TypeOK', NEW v \in Viewers, UNCHANGED <<now, row>>,
           NEW p \in Pass, pass' = [pass EXCEPT ![v] = p],
           p.pc # "running",
           p.time <= now,
           p.pc = "chosen" => p.key \in Keys /\ now - p.time <= Lag,
           \A w \in Viewers \ {v} : superseded'[w] = superseded[w]
    PROVE  IInv'
<1>1. \A w \in Viewers \ {v} : Running(w) /\ ~ StillHolds(w) => ~ StillHolds(w)'
  BY DEF StillHolds, IInv, TypeOK
<1>2. QED
  BY <1>1, StepAside

LEMMA IInvStep == IInv /\ [Next]_vars => IInv'
<1> SUFFICES ASSUME IInv, [Next]_vars PROVE IInv'
  OBVIOUS
<1>1. TypeOK /\ TypeOK'
  BY TypeStep DEF IInv
<1> USE <1>1
<1>2. ASSUME NEW v \in Viewers, Proceed(v) PROVE IInv'
  <2>1. /\ pass[v] \in Pass
        /\ pass'[v] \in Pass
        /\ now \in Nat
        /\ pass[v].time <= now
    BY DEF TypeOK, IInv, ReadingsAreRecent
  <2>2. Idle \in Pass /\ Idle.pc = "idle" /\ Idle.time = 0 /\ 0 <= now
    BY <2>1, IdleType DEF Idle
  <2>20. ASSUME pass' = [pass EXCEPT ![v] = Idle], UNCHANGED <<now, row>>,
               \A w \in Viewers \ {v} : superseded'[w] = superseded[w]
        PROVE  IInv'
    <3> HIDE DEF Idle
    <3> QED
      BY <2>2, <2>20, QuietKeepsIInv
  <2>3. CASE Load(v)
    <3> PICK wanted \in SUBSET onDisk \ {{}} :
          To(v, [Idle EXCEPT !.pc = "loaded", !.wanted = wanted,
                             !.view = [f \in Folders |->
                                         IF f \in wanted THEN row[f] ELSE NoRow]])
      BY <2>3 DEF Load
    <3>1. /\ pass' = [pass EXCEPT ![v] = pass'[v]]
          /\ pass'[v].pc = "loaded"
          /\ pass'[v].time = 0
      BY DEF To, TypeOK, Idle
    <3>2. QED
      BY <2>1, <2>3, <3>1, QuietKeepsIInv DEF Load
  <2>4. CASE Choose(v)
    <3> DEFINE Chosen == /\ pass' = [pass EXCEPT ![v] = pass'[v]]
                         /\ pass'[v].pc \in {"upkeep", "chosen"}
                         /\ pass'[v].time = now
                         /\ pass'[v].pc = "chosen" => pass'[v].key \in Keys
    <3>1. Chosen
      <4>1. CASE To(v, [Idle EXCEPT !.pc = "upkeep", !.time = now])
        BY <4>1 DEF To, TypeOK, Idle
      <4>2. ASSUME NEW kind \in {"identity", "repository"},
                   NEW k \in IF kind = "identity" THEN DueFolders(pass[v])
                                                  ELSE DueRepos(pass[v]),
                   To(v, [Idle EXCEPT !.pc = "chosen", !.key = k, !.time = now])
            PROVE  Chosen
        <5>1. ASSUME kind = "identity" PROVE k \in Keys
          BY <2>1, <4>2, <5>1 DEF DueFolders, Oldest, Pass, Keys
        <5>2. ASSUME kind # "identity" PROVE k \in Keys
          <6>1. k \in KnownRepos(pass[v])
            BY <4>2, <5>2 DEF DueRepos, Oldest
          <6>2. QED
            BY <2>1, <6>1 DEF KnownRepos, Pass, Row, Keys
        <5>3. k \in Keys
          BY <5>1, <5>2
        <5>4. QED
          BY <4>2, <5>3 DEF To, TypeOK, Idle
      <4>3. QED
        BY <2>4, <4>1, <4>2 DEF Choose
    <3>2. QED
      <4>1. now - now <= Lag /\ now <= now
        BY <2>1, TimeAssumption
      <4>2. UNCHANGED <<now, row, superseded>>
        BY <2>4 DEF Choose
      <4>3. QED
        BY <2>1, <3>1, <4>1, <4>2, QuietKeepsIInv
  <2>5. CASE Claim(v)
    BY <2>5, ClaimKeepsIInv
  <2>6. CASE ClaimLost(v)
    <3>1. /\ pass' = [pass EXCEPT ![v] = pass'[v]]
          /\ pass'[v].pc = "upkeep"
          /\ pass'[v].time = pass[v].time
      BY <2>6 DEF ClaimLost, To, TypeOK, Idle
    <3>2. QED
      BY <2>1, <2>6, <3>1, QuietKeepsIInv DEF ClaimLost
  <2>7. CASE Complete(v) \/ Fail(v) \/ AnswerLost(v)
    BY <2>7, AnswerKeepsIInv
  <2>8. CASE NoPrune(v)
    BY <2>8, <2>20 DEF NoPrune, To
  <2>9. CASE ScanFolders(v)
    <3>1. /\ pass' = [pass EXCEPT ![v] = pass'[v]]
          /\ pass'[v].pc = "scanned"
          /\ pass'[v].time = pass[v].time
      BY <2>1, <2>9 DEF ScanFolders, To, TypeOK, Pass
    <3>2. QED
      BY <2>1, <2>9, <3>1, QuietKeepsIInv DEF ScanFolders
  <2>10. CASE ScanRepos(v)
    <3>1. CASE To(v, Idle)
      BY <2>10, <2>20, <3>1 DEF ScanRepos, To
    <3>2. CASE ~ To(v, Idle)
      <4>1. /\ pass' = [pass EXCEPT ![v] = pass'[v]]
            /\ pass'[v].pc = "doomed"
            /\ pass'[v].time = pass[v].time
        BY <2>1, <2>10, <3>2 DEF ScanRepos, To, TypeOK, Pass
      <4>2. QED
        BY <2>1, <2>10, <4>1, QuietKeepsIInv DEF ScanRepos
    <3>3. QED
      BY <3>1, <3>2
  <2>11. CASE Prune(v)
    BY <2>11, PruneKeepsIInv
  <2>12. CASE PruneFails(v)
    BY <2>12, <2>20 DEF PruneFails, To
  <2>13. CASE Crash(v)
    <3>1. \A w \in Viewers \ {v} : superseded'[w] = superseded[w]
      BY <2>13 DEF Crash, TypeOK
    <3>2. QED
      BY <2>13, <2>20, <3>1 DEF Crash, To
  <2>14. QED
    BY <1>2, <2>3, <2>4, <2>5, <2>6, <2>7, <2>8, <2>9, <2>10, <2>11, <2>12,
       <2>13 DEF Proceed
<1> USE DEF IInv, ReadingsAreRecent, ClaimsHaveKeys, LiveClaimOwnsRow,
            TokensDiffer, OneNewest, LateResultsFenced, Running, Live, StillHolds
<1>3. ASSUME NEW f \in Folders, Move(f) PROVE IInv'
  BY <1>3 DEF Move
<1>4. CASE Tick
  <2>1. /\ now' = now + 1
        /\ UNCHANGED <<row, pass, superseded>>
        /\ now \in Nat
        /\ \A v \in Viewers : pass[v].time \in Nat
    BY <1>4 DEF Tick, TypeOK, Pass
  <2>2. ReadingsAreRecent'
    BY <1>4, <2>1, TimeAssumption DEF Tick
  <2>3. \A v \in Viewers : Live(v)' => Live(v)
    <3> TAKE v \in Viewers
    <3>1. Running(v) => Window(pass[v].key) \in Nat
      BY WindowIsLong
    <3>2. QED
      BY <2>1, <3>1
  <2>4. LiveClaimOwnsRow'
    BY <2>1, <2>3
  <2>5. ClaimsHaveKeys' /\ TokensDiffer' /\ OneNewest' /\ LateResultsFenced'
    BY <2>1
  <2>6. QED
    BY <2>2, <2>4, <2>5
<1>5. CASE UNCHANGED vars
  BY <1>5 DEF vars
<1>6. QED
  BY <1>2, <1>3, <1>4, <1>5 DEF Next

LEMMA IInvInit == Init => IInv
  BY TypeInit DEF Init, IInv, Idle, ReadingsAreRecent, ClaimsHaveKeys,
     LiveClaimOwnsRow, TokensDiffer, OneNewest, LateResultsFenced, Running, Live

LEMMA IInvHolds == Spec => []IInv
  BY IInvInit, IInvStep, PTL DEF Spec

(* No answer overwrites what a newer claim asked for, as long as a claim   *)
(* waits less for the database than it then lasts                          *)
(* (complete_grok_worktree_identity and its three siblings).               *)
THEOREM Fenced == Spec => []LateResultsFenced
  <1>1. IInv => LateResultsFenced
    BY DEF IInv
  <1>2. QED
    BY <1>1, IInvHolds, PTL

(* No entry is looked up by two viewers while the claim of either lasts    *)
(* (claim_grok_worktree_identity, claim_grok_repository_prs).              *)
THEOREM Exclusive == Spec => []OneLiveLookup
  <1>1. IInv => OneLiveLookup
    BY DEF IInv, OneLiveLookup, LiveClaimOwnsRow, OneNewest, Live
  <1>2. QED
    BY <1>1, IInvHolds, PTL

(* An answer that comes within its claim finds its token in the row        *)
(* (prune_grok_pr_fallback, complete_grok_worktree_identity).              *)
THEOREM InTimeCounts == Spec => []AnswersInTimeCount
  <1>1. IInv => AnswersInTimeCount
    BY DEF IInv, AnswersInTimeCount, LiveClaimOwnsRow, StillHolds
  <1>2. QED
    BY <1>1, IInvHolds, PTL

LEMMA PruneStepKeepsNamed ==
    ASSUME TypeOK, [Next]_vars, NEW r \in Repos,
           row[r].exists, ~ row'[r].exists,
           NEW f \in Folders, row'[f].exists
    PROVE  row'[f].names # r
<1>1. r \in Keys /\ f \in Keys /\ r \notin Folders /\ f \notin Repos
  BY KeyAssumption DEF Keys
<1>2. ASSUME NEW v \in Viewers, Prune(v) PROVE row'[f].names # r
  <2> DEFINE gone == {g \in pass[v].doomed \cap Folders : Prunable(pass[v], g)}
  <2>1. r \notin gone /\ f \notin pass[v].doomed \cap Repos
    BY <1>1
  <2>2. Orphan(r, gone)
    BY <1>1, <1>2, <2>1 DEF Prune
  <2>3. f \notin gone /\ row'[f] = row[f]
    BY <1>1, <1>2, <2>1 DEF Prune, NoRow
  <2>4. QED
    BY <2>2, <2>3 DEF Orphan
<1>3. ASSUME NEW v \in Viewers, Claim(v) PROVE row'[r].exists
  BY <1>1, <1>3 DEF Claim, TypeOK, Row
<1>4. ASSUME NEW v \in Viewers, Complete(v) PROVE row'[r].exists
  <2>1. CASE StillHolds(v)
    <3> PICK repo \in Repos, onBranch \in BOOLEAN :
          row' = [row EXCEPT ![pass[v].key] =
                    IF pass[v].key \in Folders
                    THEN [@ EXCEPT !.names = repo, !.onBranch = onBranch,
                                   !.success = now, !.busy = 0]
                    ELSE [@ EXCEPT !.success = now, !.busy = 0]]
      BY <1>4, <2>1 DEF Complete
    <3> QED
      BY <1>1 DEF TypeOK, Row
  <2>2. CASE ~ StillHolds(v)
    BY <1>4, <2>2 DEF Complete
  <2>3. QED
    BY <2>1, <2>2
<1>5. ASSUME NEW v \in Viewers, Fail(v) PROVE row'[r].exists
  BY <1>1, <1>5 DEF Fail, TypeOK, Row
<1>6. QED
  BY <1>2, <1>3, <1>4, <1>5
     DEF Next, Proceed, vars, Load, Choose, ClaimLost, AnswerLost, NoPrune,
         ScanFolders, ScanRepos, PruneFails, Crash, Move, Tick

(* No step prunes a repository an identity that stays still names          *)
(* (prune_grok_pr_fallback).                                               *)
THEOREM NamedSurvivePrunes == Spec => PruneKeepsNamed
  <1>1. TypeOK /\ [Next]_vars
          => [\A r \in Repos :
                row[r].exists /\ ~ row'[r].exists
                  => \A f \in Folders : row'[f].exists => row'[f].names # r]_vars
    BY PruneStepKeepsNamed
  <1>2. QED
    BY <1>1, TypeCorrect, PTL DEF Spec, PruneKeepsNamed

-----------------------------------------------------------------------------
(* GrokSessions, for any leaders                                           *)



(* A turn runs on a leader that is up and says so in its roster *)
TurnRuns == turn # NoLeader => turn \in up /\ roster[turn] \in {"working", "needs_input", "other"}

(* Whoever runs a turn through a call neither refuses nor denies it *)
SteadyTurn ==
    call.steady => /\ turn # NoLeader
                   /\ call.conn[turn] # "refused"
                   /\ call.answer[turn] \in {"no", "working", "needs_input", "other"}

AnswersAreAsked ==
    \A l \in Leaders : call.answer[l] # "no" => call.conn[l] \in {"asked", "cut"}

(* Nobody is connected before the log is read, or without a mutation *)
IdleIsUntouched ==
    call.unread \/ job.op = "none" => Todo = Leaders /\ call.said = "nothing"

JobIsPlaced == job.at \in {"end", "stopped"} <=> job.op = "none"

(* The roster status is the one status the owners gave, Unknown if nobody   *)
(* knows it or two differ.  A cancel merges nothing.                        *)
Heard ==
    job.at # "cancel" =>
        /\ call.said = "nothing" <=> Owners = {}
        /\ call.said \notin {"nothing", "Unknown"} =>
               \A l \in Owners : RosterStatus(call.answer[l]) = call.said
        /\ call.said = "Unknown" =>
               \/ \A l \in Owners : RosterStatus(call.answer[l]) = "Unknown"
               \/ \E l, m \in Owners :
                     RosterStatus(call.answer[l]) # RosterStatus(call.answer[m])

RowFollows ==
    call.row = IF \/ call.said = "nothing"
                  \/ call.said = "Idle" /\ call.file \in Finished
               THEN call.file ELSE call.said

(* A delete acts on a listing that has ended *)
DeleteIsSettled == job.at = "delete" => CallEnds /\ call.row \notin Active

World == TurnRuns /\ SteadyTurn

Listing == /\ AnswersAreAsked
           /\ IdleIsUntouched
           /\ JobIsPlaced
           /\ Heard
           /\ RowFollows
           /\ DeleteIsSettled

SessionInv == SessionTypeOK /\ World /\ Listing
-----------------------------------------------------------------------------
(* Types *)

LEMMA StatusTyped ==
    ASSUME NEW a \in Activities
    PROVE  RosterStatus(a) \in Statuses
  BY DEF RosterStatus, Activities, Statuses, Active, Finished

LEMMA NoJobTyped == NoJob \in Jobs
  BY DEF NoJob, Jobs

LEMMA NoCallTyped == NoCall \in Calls
  BY DEF NoCall, Calls

LEMMA NewCallTyped ==
    ASSUME NEW unread \in BOOLEAN
    PROVE  NewCall(unread) \in Calls
<1>1. (turn # NoLeader) \in BOOLEAN
  OBVIOUS
<1> QED BY <1>1, NoCallTyped DEF NewCall, NoCall, Calls

LEMMA ConnTyped ==
    ASSUME NEW k \in Calls, NEW l \in Leaders,
           NEW c \in {"todo", "refused", "failed", "linked", "asked", "cut"}
    PROVE  [k EXCEPT !.conn[l] = c] \in Calls
  BY DEF Calls

LEMMA LinkingTyped ==
    ASSUME SessionTypeOK, NEW l \in Leaders, NEW c \in {"linked", "failed", "refused"}
    PROVE  Linking(l, c) \in Calls
  BY ConnTyped DEF Linking, SessionTypeOK

LEMMA AnswerTyped ==
    ASSUME NEW k \in Calls, NEW l \in Leaders, NEW a \in Activities \cup {"none", "no"}
    PROVE  Asked(k, l, a) \in Calls
<1> DEFINE j == [k EXCEPT !.conn[l] = "asked"]
<1>1. Asked(k, l, a) = [j EXCEPT !.answer[l] = a]
  BY Zenon DEF Asked
<1>2. j \in Calls
  BY ConnTyped
<1> HIDE DEF j
<1>3. [j EXCEPT !.answer[l] = a] \in Calls
  BY <1>2 DEF Calls
<1> QED BY <1>1, <1>3

LEMMA MergedTyped ==
    ASSUME SessionTypeOK, NEW a \in Activities
    PROVE  Merged(a) \in Calls
<1>1. Said(a) \in Statuses
  BY StatusTyped DEF Said, Statuses, Active, Finished
<1>2. call.row \in Statuses \cup {"absent"}
  BY DEF SessionTypeOK, Calls
<1> DEFINE kept == IF KeepsRow(a) THEN call.row ELSE Said(a)
<1>3. kept \in Statuses \cup {"absent"}
  BY <1>1, <1>2
<1>4. Merged(a) = [call EXCEPT !.said = Said(a), !.row = kept]
  BY DEF Merged, SessionTypeOK, Calls
<1> HIDE DEF kept
<1> QED BY <1>1, <1>3, <1>4 DEF SessionTypeOK, Calls

LEMMA GoTyped ==
    ASSUME SessionTypeOK, NEW at \in {"settle", "cancel", "wait", "delete"}, Go(at)
    PROVE  job' \in Jobs /\ call' \in Calls
<1>1. job' \in Jobs
  BY DEF Go, SessionTypeOK, Jobs
<1>2. (at # "cancel") \in BOOLEAN
  OBVIOUS
<1>3. call' \in Calls
  BY <1>2, NewCallTyped DEF Go, SessionTypeOK
<1> QED BY <1>1, <1>3

LEMMA EndTyped == End => job' \in Jobs /\ call' \in Calls
  BY NoJobTyped, NoCallTyped DEF End

LEMMA CancelledTyped ==
    ASSUME SessionTypeOK, Cancelled
    PROVE  job' \in Jobs /\ call' \in Calls
<1>1. [NoJob EXCEPT !.at = "stopped"] \in Jobs
  BY DEF NoJob, Jobs
<1>2. CASE job.op = "stop"
  BY <1>1, <1>2, NoCallTyped DEF Cancelled
<1>3. CASE job.op # "stop"
  BY <1>3, GoTyped DEF Cancelled
<1> QED BY <1>2, <1>3

LEMMA InitTyped == SessionInit => SessionTypeOK
  BY NoJobTyped, NoCallTyped DEF SessionInit, SessionTypeOK, Activities

LEMMA WorldTyped ==
    ASSUME SessionTypeOK, UNCHANGED <<job, call>>,
           up' \subseteq Leaders, log' \in {"none", "open", "closed"},
           turn' \in Leaders \cup {NoLeader},
           roster' \in [Leaders -> Activities \cup {"none"}]
    PROVE  SessionTypeOK'
  BY DEF SessionTypeOK

LEMMA CallTyped ==
    ASSUME SessionTypeOK, UNCHANGED world, job' \in Jobs, call' \in Calls
    PROVE  SessionTypeOK'
  BY DEF SessionTypeOK, world

LEMMA NextTyped == SessionTypeOK /\ [SessionNext]_(sessionVars) => SessionTypeOK'
<1> SUFFICES ASSUME SessionTypeOK, [SessionNext]_(sessionVars) PROVE SessionTypeOK'
  OBVIOUS
<1>1. ASSUME NEW l \in Leaders, StartTurn(l) PROVE SessionTypeOK'
  BY <1>1, WorldTyped DEF StartTurn, SessionTypeOK, Activities
<1>2. ASSUME NEW l \in Leaders, LoadSession(l) PROVE SessionTypeOK'
  BY <1>2, WorldTyped DEF LoadSession, SessionTypeOK, Activities
<1>3. ASSUME NEW l \in Leaders, Unload(l) PROVE SessionTypeOK'
  BY <1>3, WorldTyped DEF Unload, SessionTypeOK, Activities
<1>4. ASSUME NEW l \in Leaders, LeaderDies(l) PROVE SessionTypeOK'
  <2> DEFINE c == IF call.conn[l] \in {"linked", "asked"} THEN "cut" ELSE call.conn[l]
             steady == call.steady /\ turn # l
  <2>1. c \in {"todo", "refused", "failed", "linked", "asked", "cut"} /\ steady \in BOOLEAN
    BY DEF SessionTypeOK, Calls
  <2>2. call' = [call EXCEPT !.conn[l] = c, !.steady = steady]
    BY <1>4 DEF LeaderDies
  <2>3. call' \in Calls
    <3> HIDE DEF c, steady
    <3> QED BY <2>1, <2>2 DEF SessionTypeOK, Calls
  <2> QED BY <1>4, <2>3 DEF LeaderDies, SessionTypeOK
<1>5. ASSUME NEW l \in Leaders, Start(l) PROVE SessionTypeOK'
  BY <1>5, WorldTyped DEF Start, SessionTypeOK
<1>6. CASE ReportTurn
  BY <1>6, WorldTyped DEF ReportTurn, SessionTypeOK, Activities
<1>7. CASE EndTurn
  <2>1. call' \in Calls
    BY <1>7 DEF EndTurn, SessionTypeOK, Calls
  <2>2. PICK a \in Activities : roster' = [roster EXCEPT ![turn] = a]
    BY <1>7, LeaderAssumption DEF EndTurn
  <2> QED BY <1>7, <2>1, <2>2 DEF EndTurn, SessionTypeOK
<1>8. CASE AppendLog
  BY <1>8, WorldTyped DEF AppendLog, SessionTypeOK
<1>9. CASE Vanish
  BY <1>9, WorldTyped DEF Vanish, SessionTypeOK
<1>10. ASSUME NEW op \in {"stop", "remove", "archive"}, NEW strict \in BOOLEAN, Submit(op, strict)
       PROVE SessionTypeOK'
  <2>1. job' \in Jobs
    BY <1>10 DEF Submit, Jobs
  <2>2. call' \in Calls
    BY <1>10, NewCallTyped DEF Submit
  <2> QED BY <1>10, <2>1, <2>2, CallTyped DEF Submit
<1>11. CASE Expire
  <2>1. job' \in Jobs /\ call' \in Calls
    BY <1>11 DEF Expire, SessionTypeOK, Jobs
  <2> QED BY <1>11, <2>1, CallTyped DEF Expire, world
<1>12. CASE ReadLog
  <2>1. \A s \in FileStatuses : s \in Statuses \cup {"absent"}
    BY DEF FileStatuses, Statuses, Finished, SessionTypeOK
  <2>2. ASSUME NEW s \in FileStatuses, call' = [call EXCEPT !.unread = FALSE, !.file = s, !.row = s]
        PROVE  call' \in Calls
    BY <2>1, <2>2 DEF SessionTypeOK, Calls
  <2>3. job' \in Jobs /\ call' \in Calls
    BY <1>12, <2>2, EndTyped DEF ReadLog, SessionTypeOK
  <2> QED BY <1>12, <2>3, CallTyped DEF ReadLog
<1>13. ASSUME NEW l \in Leaders, Connect(l) PROVE SessionTypeOK'
  <2>1. call' \in Calls
    BY <1>13, LinkingTyped DEF Connect
  <2> QED BY <1>13, <2>1, CallTyped DEF Connect, SessionTypeOK, world
<1>14. ASSUME NEW l \in Leaders, AskRoster(l) PROVE SessionTypeOK'
  <2>1. roster[l] \in Activities \cup {"none"} /\ call \in Calls
    BY DEF SessionTypeOK
  <2>2. Listened(l) \in Calls
    BY <2>1, MergedTyped DEF Listened
  <2>3. call' \in Calls
    BY <1>14, <2>1, <2>2, AnswerTyped DEF AskRoster
  <2> QED BY <1>14, <2>3, CallTyped DEF AskRoster, SessionTypeOK, world
<1>15. CASE \/ Missing \/ Stop \/ ArchiveFinished \/ Remove \/ Wait
            \/ Cancel \/ CancelFails \/ DeleteFails
  <2>1. job' \in Jobs /\ call' \in Calls
    BY <1>15, GoTyped, EndTyped, CancelledTyped
       DEF Missing, Stop, ArchiveFinished, Remove, Wait, Cancel,
           CancelFails, DeleteFails
  <2>2. UNCHANGED world
    BY <1>15 DEF Missing, Stop, ArchiveFinished, Remove, Wait, Cancel,
                 CancelFails, DeleteFails
  <2> QED BY <2>1, <2>2, CallTyped
<1>16. ASSUME NEW l \in Leaders, Delete(l) PROVE SessionTypeOK'
  BY <1>16, EndTyped DEF Delete, SessionTypeOK
<1>17. CASE UNCHANGED sessionVars
  BY <1>17 DEF sessionVars, SessionTypeOK
<1> QED
  BY <1>1, <1>2, <1>3, <1>4, <1>5, <1>6, <1>7, <1>8, <1>9, <1>10, <1>11, <1>12, <1>13,
     <1>14, <1>15, <1>16, <1>17 DEF SessionNext, JobStep

(* Every reachable state is well typed, for any leaders.                   *)
THEOREM SessionsTypeCorrect == SessionSpec => []SessionTypeOK
  BY InitTyped, NextTyped, PTL DEF SessionSpec

-----------------------------------------------------------------------------
(* Turns *)

LEMMA TurnStep == SessionTypeOK /\ TurnRuns /\ [SessionNext]_(sessionVars) => TurnRuns'
<1> SUFFICES ASSUME SessionTypeOK, TurnRuns, [SessionNext]_(sessionVars) PROVE TurnRuns'
  OBVIOUS
<1>1. ASSUME NEW l \in Leaders, StartTurn(l) PROVE TurnRuns'
  BY <1>1 DEF StartTurn, SessionTypeOK, TurnRuns
<1>2. ASSUME NEW l \in Leaders, LoadSession(l) \/ Unload(l) PROVE TurnRuns'
  BY <1>2 DEF LoadSession, Unload, SessionTypeOK, TurnRuns
<1>3. ASSUME NEW l \in Leaders, LeaderDies(l) \/ Start(l) PROVE TurnRuns'
  BY <1>3 DEF LeaderDies, Start, SessionTypeOK, TurnRuns
<1>4. CASE ReportTurn
  BY <1>4 DEF ReportTurn, SessionTypeOK, TurnRuns
<1>5. CASE EndTurn \/ AppendLog \/ Vanish
  BY <1>5 DEF EndTurn, AppendLog, Vanish, SessionTypeOK, TurnRuns
<1>6. ASSUME NEW l \in Leaders, Delete(l) PROVE TurnRuns'
  BY <1>6 DEF Delete, SessionTypeOK, TurnRuns
<1>7. ASSUME UNCHANGED <<up, roster, turn>> PROVE TurnRuns'
  BY <1>7 DEF TurnRuns
<1>8. ASSUME NEW op \in {"stop", "remove", "archive"}, NEW strict \in BOOLEAN, Submit(op, strict)
      PROVE UNCHANGED <<up, roster, turn>>
  BY <1>8 DEF Submit, world
<1>9. ASSUME NEW l \in Leaders, Connect(l) \/ AskRoster(l) PROVE UNCHANGED <<up, roster, turn>>
  BY <1>9 DEF Connect, AskRoster, world
<1>10. CASE \/ Expire \/ ReadLog \/ Missing \/ Stop \/ ArchiveFinished
            \/ Remove \/ Wait
            \/ Cancel \/ CancelFails \/ DeleteFails
  <2>1. UNCHANGED world
    BY <1>10 DEF Expire, ReadLog, Missing, Stop, ArchiveFinished, Remove,
                 Wait,
                 Cancel, CancelFails, DeleteFails
  <2> QED BY <1>7, <2>1 DEF world
<1>11. CASE UNCHANGED sessionVars
  BY <1>7, <1>11 DEF sessionVars
<1> QED
  BY <1>1, <1>2, <1>3, <1>4, <1>5, <1>6, <1>7, <1>8, <1>9, <1>10, <1>11 DEF SessionNext,
                                                                            JobStep

(* A call that begins knows the turn that runs *)
LEMMA NewCallSteady ==
    ASSUME SessionTypeOK, UNCHANGED turn,
           \/ call' = NoCall
           \/ \E unread \in BOOLEAN : call' = NewCall(unread)
    PROVE  SteadyTurn'
<1>1. CASE call' = NoCall
  BY <1>1 DEF NoCall, SteadyTurn
<1>2. ASSUME NEW unread \in BOOLEAN, call' = NewCall(unread) PROVE SteadyTurn'
  <2>1. call'.steady = (turn # NoLeader)
    BY <1>2 DEF NewCall, NoCall
  <2>2. \A l \in Leaders : call'.conn[l] = "todo" /\ call'.answer[l] = "no"
    BY <1>2 DEF NewCall, NoCall
  <2> QED BY <2>1, <2>2 DEF SessionTypeOK, SteadyTurn
<1> QED BY <1>1, <1>2

LEMMA JobSteady ==
    ASSUME SessionTypeOK, SteadyTurn, UNCHANGED turn,
           End \/ Cancelled \/ \E at \in {"settle", "cancel", "wait", "delete"} : Go(at)
    PROVE  SteadyTurn'
<1>1. CASE \E at \in {"settle", "cancel", "wait", "delete"} : Go(at)
  <2>1. \/ \E unread \in BOOLEAN : call' = NewCall(unread)
        \/ UNCHANGED call
    BY <1>1 DEF Go
  <2> QED BY <2>1, NewCallSteady DEF SteadyTurn
<1>2. CASE Cancelled /\ job.op # "stop"
  <2>1. \E unread \in BOOLEAN : call' = NewCall(unread)
    BY <1>2 DEF Cancelled, Go
  <2> QED BY <2>1, NewCallSteady
<1>3. CASE End \/ (Cancelled /\ job.op = "stop")
  BY <1>3, NewCallSteady DEF End, Cancelled
<1> QED BY <1>1, <1>2, <1>3

(* What the steps of a call do to it *)
LEMMA LinkingFields ==
    ASSUME SessionTypeOK, NEW l \in Leaders, NEW c
    PROVE  /\ Linking(l, c).conn = [call.conn EXCEPT ![l] = c]
           /\ Linking(l, c).answer = call.answer
           /\ Linking(l, c).unread = call.unread
           /\ Linking(l, c).file = call.file
           /\ Linking(l, c).row = call.row
           /\ Linking(l, c).said = call.said
           /\ Linking(l, c).steady = call.steady
  BY DEF Linking, SessionTypeOK, Calls

LEMMA AskedFields ==
    ASSUME NEW k \in Calls, NEW l \in Leaders, NEW a
    PROVE  /\ Asked(k, l, a).conn = [k.conn EXCEPT ![l] = "asked"]
           /\ Asked(k, l, a).answer = [k.answer EXCEPT ![l] = a]
           /\ Asked(k, l, a).unread = k.unread
           /\ Asked(k, l, a).file = k.file
           /\ Asked(k, l, a).row = k.row
           /\ Asked(k, l, a).said = k.said
           /\ Asked(k, l, a).steady = k.steady
<1> DEFINE j == [k EXCEPT !.conn[l] = "asked"]
<1>1. Asked(k, l, a) = [j EXCEPT !.answer[l] = a]
  BY Zenon DEF Asked
<1>2. /\ j \in Calls
      /\ j.conn = [k.conn EXCEPT ![l] = "asked"]
      /\ j.answer = k.answer /\ j.unread = k.unread /\ j.file = k.file
      /\ j.row = k.row /\ j.said = k.said /\ j.steady = k.steady
  BY ConnTyped DEF Calls
<1> HIDE DEF j
<1> QED BY <1>1, <1>2 DEF Calls

LEMMA ListenedFields ==
    ASSUME SessionTypeOK, NEW l \in Leaders
    PROVE  /\ Listened(l) \in Calls
           /\ Listened(l).conn = call.conn
           /\ Listened(l).answer = call.answer
           /\ Listened(l).unread = call.unread
           /\ Listened(l).file = call.file
           /\ Listened(l).steady = call.steady
           /\ IF Looking /\ roster[l] # "none"
              THEN /\ Listened(l).said = Said(roster[l])
                   /\ Listened(l).row = IF KeepsRow(roster[l]) THEN call.row
                                                                   ELSE Said(roster[l])
              ELSE Listened(l) = call
<1>1. roster[l] \in Activities \cup {"none"} /\ call \in Calls
  BY DEF SessionTypeOK
<1>2. CASE Looking /\ roster[l] # "none"
  <2> DEFINE a == roster[l]
             kept == IF KeepsRow(a) THEN call.row ELSE Said(a)
  <2>1. Listened(l) = Merged(a)
    BY <1>2 DEF Listened
  <2>2. Merged(a) \in Calls
    BY <1>1, <1>2, MergedTyped
  <2>3. Merged(a) = [call EXCEPT !.said = Said(a), !.row = kept]
    BY <1>1 DEF Merged, Calls
  <2> HIDE DEF a, kept
  <2>4. /\ Merged(a).conn = call.conn /\ Merged(a).answer = call.answer
        /\ Merged(a).unread = call.unread /\ Merged(a).file = call.file
        /\ Merged(a).steady = call.steady
        /\ Merged(a).said = Said(a) /\ Merged(a).row = kept
    BY <1>1, <2>3 DEF Calls
  <2> QED BY <1>2, <2>1, <2>2, <2>4 DEF a, kept
<1>3. CASE ~ (Looking /\ roster[l] # "none")
  <2>1. Listened(l) = call
    BY <1>3 DEF Listened
  <2> QED BY <1>1, <1>3, <2>1
<1> QED BY <1>2, <1>3

LEMMA SteadyStep == SessionTypeOK /\ World /\ [SessionNext]_(sessionVars) => SteadyTurn'
<1> SUFFICES ASSUME SessionTypeOK, World, [SessionNext]_(sessionVars) PROVE SteadyTurn'
  OBVIOUS
<1>1. ASSUME UNCHANGED <<turn, call>> PROVE SteadyTurn'
  BY <1>1 DEF World, SteadyTurn
<1>2. ASSUME NEW l \in Leaders, StartTurn(l) PROVE SteadyTurn'
  BY <1>2 DEF StartTurn, World, SteadyTurn
<1>3. ASSUME NEW l \in Leaders, LoadSession(l) \/ Unload(l) \/ Start(l) PROVE UNCHANGED <<turn, call>>
  BY <1>3 DEF LoadSession, Unload, Start
<1>4. ASSUME NEW l \in Leaders, LeaderDies(l) PROVE SteadyTurn'
  <2>1. /\ call'.steady = (call.steady /\ turn # l)
        /\ call'.answer = call.answer
        /\ \A m \in Leaders : m # l => call'.conn[m] = call.conn[m]
    BY <1>4 DEF LeaderDies, SessionTypeOK, Calls
  <2> QED BY <1>4, <2>1 DEF LeaderDies, SessionTypeOK, World, SteadyTurn
<1>5. CASE ReportTurn \/ AppendLog \/ Vanish \/ Expire
  BY <1>1, <1>5 DEF ReportTurn, AppendLog, Vanish, Expire, world
<1>6. CASE EndTurn
  BY <1>6 DEF EndTurn, SessionTypeOK, Calls, SteadyTurn
<1>7. ASSUME NEW op \in {"stop", "remove", "archive"}, NEW strict \in BOOLEAN, Submit(op, strict)
      PROVE SteadyTurn'
  BY <1>7, NewCallSteady DEF Submit, world
<1>8. CASE ReadLog
  <2>1. ASSUME NEW s, call' = [call EXCEPT !.unread = FALSE, !.file = s, !.row = s]
        PROVE  /\ call'.steady = call.steady /\ call'.conn = call.conn
               /\ call'.answer = call.answer
    BY <2>1 DEF SessionTypeOK, Calls
  <2> QED BY <1>8, <2>1, JobSteady DEF ReadLog, world, World, SteadyTurn
<1>9. ASSUME NEW l \in Leaders, Connect(l) PROVE SteadyTurn'
  <2>1. PICK c \in IF l \in up THEN {"linked", "failed"} ELSE {"refused"} : call' = Linking(l, c)
    BY <1>9 DEF Connect
  <2>2. call.steady => call'.conn[turn] # "refused"
    <3>1. call'.conn = [call.conn EXCEPT ![l] = c] /\ DOMAIN call.conn = Leaders
      BY <2>1, LinkingFields DEF SessionTypeOK, Calls
    <3>2. l = turn /\ call.steady => c # "refused"
      BY <2>1 DEF World, TurnRuns, SteadyTurn
    <3> QED BY <3>1, <3>2 DEF World, SteadyTurn
  <2> QED BY <1>9, <2>1, <2>2, LinkingFields DEF Connect, world, World, SteadyTurn
<1>10. ASSUME NEW l \in Leaders, AskRoster(l) PROVE SteadyTurn'
  <2>1. call \in Calls /\ Listened(l) \in Calls
    BY ListenedFields DEF SessionTypeOK
  <2>2. UNCHANGED turn
    BY <1>10 DEF AskRoster, world
  <2>3. CASE call' = Asked(Listened(l), l, roster[l])
    <3>1. /\ call'.steady = call.steady
          /\ call'.conn = [call.conn EXCEPT ![l] = "asked"]
          /\ call'.answer = [call.answer EXCEPT ![l] = roster[l]]
      BY <2>1, <2>3, AskedFields, ListenedFields
    <3> QED BY <2>1, <2>2, <3>1 DEF SessionTypeOK, Calls, World, TurnRuns, SteadyTurn
  <2>4. CASE call' = Asked(call, l, "no")
    <3>1. /\ call'.steady = call.steady
          /\ call'.conn = [call.conn EXCEPT ![l] = "asked"]
          /\ call'.answer = [call.answer EXCEPT ![l] = "no"]
      BY <2>1, <2>4, AskedFields
    <3> QED BY <2>1, <2>2, <3>1 DEF SessionTypeOK, Calls, World, TurnRuns, SteadyTurn
  <2> QED BY <1>10, <2>3, <2>4 DEF AskRoster
<1>11. CASE \/ Missing \/ Stop \/ ArchiveFinished \/ Remove \/ Wait
            \/ Cancel \/ CancelFails \/ DeleteFails
  <2>1. End \/ Cancelled \/ \E at \in {"settle", "cancel", "wait", "delete"} : Go(at)
    BY <1>11 DEF Missing, Stop, ArchiveFinished, Remove, Wait, Cancel,
                 CancelFails, DeleteFails
  <2>2. UNCHANGED world
    BY <1>11 DEF Missing, Stop, ArchiveFinished, Remove, Wait, Cancel,
                 CancelFails, DeleteFails
  <2> QED BY <2>1, <2>2, JobSteady DEF World, world
<1>12. ASSUME NEW l \in Leaders, Delete(l) PROVE SteadyTurn'
  BY <1>12 DEF Delete, End, NoCall, SteadyTurn
<1>13. CASE UNCHANGED sessionVars
  BY <1>1, <1>13 DEF sessionVars
<1> QED
  BY <1>1, <1>2, <1>3, <1>4, <1>5, <1>6, <1>7, <1>8, <1>9, <1>10, <1>11, <1>12, <1>13
     DEF SessionNext, JobStep

-----------------------------------------------------------------------------
(* Listings *)

(* What Listing reads of a call *)
ListingFields == <<call.unread, call.conn, call.answer, call.file, call.row, call.said>>

LEMMA ListingFrame == Listing /\ UNCHANGED <<job, ListingFields>> => Listing'
  BY DEF Listing, ListingFields, AnswersAreAsked, IdleIsUntouched, JobIsPlaced, Heard,
         RowFollows, DeleteIsSettled, Todo, Linked, Owners, CallEnds

Untouched ==
    /\ \A l \in Leaders : call.conn[l] = "todo" /\ call.answer[l] = "no"
    /\ call.said = "nothing" /\ call.row = "absent" /\ call.file = "absent"

LEMMA NewCallUntouched ==
    ASSUME call' = NoCall \/ \E unread \in BOOLEAN : call' = NewCall(unread)
    PROVE  Untouched'
<1>1. CASE call' = NoCall
  BY <1>1 DEF NoCall, Untouched
<1>2. ASSUME NEW unread \in BOOLEAN, call' = NewCall(unread) PROVE Untouched'
  BY <1>2 DEF NewCall, NoCall, Untouched
<1> QED BY <1>1, <1>2

LEMMA UntouchedLists == Untouched' /\ JobIsPlaced' /\ job'.at # "delete" => Listing'
  BY DEF Untouched, Listing, AnswersAreAsked, IdleIsUntouched, Heard, RowFollows,
         DeleteIsSettled, Todo, Owners

LEMMA EndLists == End => Listing'
<1> SUFFICES ASSUME End PROVE Listing'
  OBVIOUS
<1>1. Untouched'
  BY NewCallUntouched DEF End
<1>2. JobIsPlaced' /\ job'.at # "delete"
  BY DEF End, NoJob, JobIsPlaced
<1> QED BY <1>1, <1>2, UntouchedLists

LEMMA GoLists ==
    ASSUME SessionTypeOK, Listing, NEW at \in {"settle", "cancel", "wait", "delete"}, Go(at),
           at = "delete" => CallEnds /\ call.row \notin Active,
           job.at # "cancel", job.op # "none"
    PROVE  Listing'
<1>1. job'.at = at /\ job'.op = job.op
  BY DEF Go, SessionTypeOK, Jobs
<1>2. JobIsPlaced'
  BY <1>1 DEF JobIsPlaced
<1>3. CASE at = "delete"
  <2>1. call' = call
    BY <1>3 DEF Go
  <2> QED BY <1>1, <1>2, <1>3, <2>1
     DEF Listing, AnswersAreAsked, IdleIsUntouched, Heard, RowFollows, DeleteIsSettled,
         Todo, Linked, Owners, CallEnds
<1>4. CASE at # "delete"
  <2>1. Untouched'
    BY <1>4, NewCallUntouched DEF Go
  <2> QED BY <1>1, <1>2, <1>4, <2>1, UntouchedLists
<1> QED BY <1>3, <1>4

LEMMA CancelledLists ==
    ASSUME SessionTypeOK, job.op # "none", Cancelled
    PROVE  Listing'
<1>1. Untouched'
  BY NewCallUntouched DEF Cancelled, Go
<1>2. JobIsPlaced' /\ job'.at # "delete"
  BY DEF Cancelled, Go, NoJob, JobIsPlaced, SessionTypeOK, Jobs
<1> QED BY <1>1, <1>2, UntouchedLists

LEMMA CrashLists ==
    ASSUME SessionTypeOK, Listing, NEW l \in Leaders, LeaderDies(l)
    PROVE  Listing'
<1> DEFINE c == IF call.conn[l] \in {"linked", "asked"} THEN "cut" ELSE call.conn[l]
<1>1. /\ call'.conn = [call.conn EXCEPT ![l] = c]
      /\ call'.answer = call.answer /\ call'.unread = call.unread
      /\ call'.file = call.file /\ call'.row = call.row /\ call'.said = call.said
  BY DEF LeaderDies, SessionTypeOK, Calls
<1>2. DOMAIN call.conn = Leaders /\ job' = job
  BY DEF LeaderDies, SessionTypeOK, Calls
<1>3. Todo' = Todo /\ Linked' \subseteq Linked /\ Owners' = Owners
  BY <1>1, <1>2 DEF Todo, Linked, Owners
<1>4. AnswersAreAsked'
  BY <1>1, <1>2 DEF Listing, AnswersAreAsked
<1>5. CallEnds => CallEnds'
  BY <1>1, <1>3 DEF CallEnds
<1> HIDE DEF c
<1> QED BY <1>1, <1>2, <1>3, <1>4, <1>5
   DEF Listing, IdleIsUntouched, JobIsPlaced, Heard, RowFollows, DeleteIsSettled

LEMMA ReadLogLists ==
    ASSUME SessionTypeOK, Listing, ReadLog
    PROVE  Listing'
<1>1. CASE End
  BY <1>1, EndLists
<1>2. ASSUME NEW s, call' = [call EXCEPT !.unread = FALSE, !.file = s, !.row = s], UNCHANGED job
      PROVE  Listing'
  <2>1. /\ call'.conn = call.conn /\ call'.answer = call.answer /\ call'.said = call.said
        /\ call'.unread = FALSE /\ call'.file = s /\ call'.row = s
    BY <1>2 DEF SessionTypeOK, Calls
  <2>2. call.unread
    BY DEF ReadLog
  <2>3. call.said = "nothing" /\ Todo = Leaders
    BY <2>2 DEF Listing, IdleIsUntouched
  <2>4. job.at # "delete"
    BY <2>2 DEF Listing, DeleteIsSettled, CallEnds
  <2> QED BY <1>2, <2>1, <2>3, <2>4
     DEF Listing, AnswersAreAsked, IdleIsUntouched, JobIsPlaced, Heard, RowFollows,
         DeleteIsSettled, Todo, Owners
<1> QED BY <1>1, <1>2 DEF ReadLog

LEMMA ConnectLists ==
    ASSUME SessionTypeOK, Listing, NEW l \in Leaders, Connect(l)
    PROVE  Listing'
<1>1. PICK c : c # "todo" /\ call' = Linking(l, c)
  BY DEF Connect
<1>2. /\ call'.conn = [call.conn EXCEPT ![l] = c]
      /\ call'.answer = call.answer /\ call'.unread = call.unread
      /\ call'.file = call.file /\ call'.row = call.row /\ call'.said = call.said
  BY <1>1, LinkingFields
<1>3. job.op # "none" /\ ~ call.unread /\ call.conn[l] = "todo" /\ job' = job
  BY DEF Connect, Todo
<1>4. call.answer[l] = "no" /\ job.at # "delete"
  BY <1>3 DEF Listing, AnswersAreAsked, DeleteIsSettled, CallEnds, Todo
<1>5. AnswersAreAsked'
  BY <1>2, <1>4 DEF Listing, AnswersAreAsked, SessionTypeOK, Calls
<1> QED BY <1>2, <1>3, <1>4, <1>5
   DEF Listing, IdleIsUntouched, JobIsPlaced, Heard, RowFollows, DeleteIsSettled,
       Owners

(* A roster is asked once, and only by a listing or a cancel in progress *)
LEMMA AskedOnce ==
    ASSUME SessionTypeOK, Listing, NEW l \in Leaders, AskRoster(l)
    PROVE  /\ call.answer[l] = "no"
           /\ ~ call.unread /\ job.op # "none"
           /\ Looking \/ job.at = "cancel"
           /\ UNCHANGED job
<1>1. call.conn[l] = "linked" /\ l \in Linked /\ UNCHANGED job
  BY DEF AskRoster, Linked
<1>2. call.answer[l] = "no"
  BY <1>1 DEF Listing, AnswersAreAsked
<1>3. Todo # Leaders
  BY <1>1 DEF Todo
<1>4. ~ call.unread /\ job.op # "none"
  BY <1>3 DEF Listing, IdleIsUntouched
<1>5. job.at \notin {"end", "stopped", "delete"}
  BY <1>1, <1>4 DEF Listing, JobIsPlaced, DeleteIsSettled, CallEnds
<1> QED BY <1>1, <1>2, <1>4, <1>5 DEF SessionTypeOK, Jobs, Looking

(* One more status onto what was heard *)
LEMMA MergeHears ==
    ASSUME SessionTypeOK, Listing, NEW l \in Leaders, NEW a \in Activities,
           call.answer[l] = "no", job.at # "cancel", UNCHANGED job,
           call'.answer = [call.answer EXCEPT ![l] = a], call'.said = Said(a)
    PROVE  Heard'
<1> DEFINE status(m) == RosterStatus(call.answer[m])
<1>1. Owners' = Owners \cup {l} /\ l \notin Owners
  BY DEF Owners, Activities, SessionTypeOK, Calls
<1>2. RosterStatus(call'.answer[l]) = RosterStatus(a)
  BY DEF SessionTypeOK, Calls
<1>3. \A m \in Owners : RosterStatus(call'.answer[m]) = status(m)
  BY <1>1 DEF SessionTypeOK, Calls
<1>4. RosterStatus(a) # "nothing"
  BY StatusTyped DEF Statuses, Active, Finished
<1>5. Heard /\ job'.at = job.at
  BY DEF Listing
<1> HIDE DEF status
<1>6. CASE Conflict(a)
  <2>1. call'.said = "Unknown" /\ call.said # "nothing" /\ call.said # RosterStatus(a)
    BY <1>6 DEF Said, Conflict
  <2>2. \E m, n \in Owners' :
          RosterStatus(call'.answer[m]) # RosterStatus(call'.answer[n])
    <3>1. CASE call.said = "Unknown"
      <4>1. PICK m \in Owners, n \in Owners \cup {l} :
                RosterStatus(call'.answer[m]) # RosterStatus(call'.answer[n])
        BY <1>2, <1>3, <1>5, <2>1, <3>1 DEF Heard, status
      <4> QED BY <1>1, <4>1
    <3>2. CASE call.said # "Unknown"
      <4>1. PICK m \in Owners : status(m) = call.said
        BY <1>5, <2>1, <3>2 DEF Heard, status
      <4> QED BY <1>1, <1>2, <1>3, <2>1, <4>1
    <3> QED BY <3>1, <3>2
  <2> QED BY <1>1, <2>1, <2>2 DEF Heard
<1>7. CASE ~ Conflict(a)
  <2>1. call'.said = RosterStatus(a) /\ call.said \in {"nothing", RosterStatus(a)}
    BY <1>7 DEF Said, Conflict
  <2>2. \/ \A m \in Owners : status(m) = RosterStatus(a)
        \/ /\ call'.said = "Unknown"
           /\ \E m, n \in Owners : status(m) # status(n)
    BY <1>4, <1>5, <2>1 DEF Heard, status
  <2>3. CASE \A m \in Owners : status(m) = RosterStatus(a)
    BY <1>1, <1>2, <1>3, <1>4, <2>1, <2>3 DEF Heard
  <2>4. CASE call'.said = "Unknown" /\ \E m, n \in Owners : status(m) # status(n)
    BY <1>1, <1>3, <2>4 DEF Heard
  <2> QED BY <2>2, <2>3, <2>4
<1> QED BY <1>6, <1>7

LEMMA MergeFollows ==
    ASSUME SessionTypeOK, RowFollows, NEW a \in Activities,
           call'.file = call.file, call'.said = Said(a),
           call'.row = IF KeepsRow(a) THEN call.row ELSE Said(a)
    PROVE  RowFollows'
<1>1. RosterStatus(a) = "Idle" <=> a = "idle"
  BY DEF RosterStatus, Activities
<1>2. RosterStatus(a) # "nothing"
  BY StatusTyped DEF Statuses, Active, Finished
<1>3. "Idle" \notin Finished /\ "Unknown" \notin Finished
  BY DEF Finished
<1>4. CASE Conflict(a)
  BY <1>4 DEF RowFollows, KeepsRow, Said
<1>5. CASE ~ Conflict(a)
  <2>1. call'.said = RosterStatus(a) /\ call.said \in {"nothing", RosterStatus(a)}
    BY <1>5 DEF Said, Conflict
  <2>2. CASE a = "idle"
    BY <1>1, <1>2, <1>3, <1>5, <2>1, <2>2 DEF RowFollows, KeepsRow, Said
  <2>3. CASE a # "idle"
    BY <1>1, <1>2, <1>5, <2>1, <2>3 DEF RowFollows, KeepsRow, Said
  <2> QED BY <2>2, <2>3
<1> QED BY <1>4, <1>5

LEMMA AskLists ==
    ASSUME SessionTypeOK, Listing, NEW l \in Leaders, AskRoster(l)
    PROVE  Listing'
<1> DEFINE a == roster[l]
<1>1. /\ call.answer[l] = "no" /\ ~ call.unread /\ job.op # "none"
      /\ Looking \/ job.at = "cancel"
      /\ UNCHANGED job
  BY AskedOnce
<1>2. call \in Calls /\ Listened(l) \in Calls /\ a \in Activities \cup {"none"}
  BY ListenedFields DEF SessionTypeOK
<1>3. job.at # "delete"
  BY <1>1 DEF Looking
<1>4. PICK k \in {call, Listened(l)}, b \in {"no", a} :
          /\ call' = Asked(k, l, b)
          /\ k = call \/ b = a
          /\ b = a => k = Listened(l)
  BY <1>2 DEF AskRoster, Activities
<1>5. /\ call'.conn = [call.conn EXCEPT ![l] = "asked"]
      /\ call'.answer = [call.answer EXCEPT ![l] = b]
      /\ call'.unread = call.unread /\ call'.file = call.file
      /\ call'.row = k.row /\ call'.said = k.said
  BY <1>2, <1>4, AskedFields, ListenedFields
<1>6. AnswersAreAsked'
  BY <1>2, <1>5 DEF Listing, AnswersAreAsked, Calls
<1>7. IdleIsUntouched' /\ JobIsPlaced' /\ DeleteIsSettled'
  BY <1>1, <1>3, <1>5 DEF Listing, IdleIsUntouched, JobIsPlaced, DeleteIsSettled
<1>8. CASE Looking /\ b = a /\ a # "none"
  <2>1. /\ k.said = Said(a)
        /\ k.row = IF KeepsRow(a) THEN call.row ELSE Said(a)
    BY <1>4, <1>8, ListenedFields
  <2>2. a \in Activities /\ job.at # "cancel"
    BY <1>2, <1>8 DEF Looking
  <2>3. Heard'
    BY <1>1, <1>5, <1>8, <2>1, <2>2, MergeHears
  <2>4. RowFollows'
    BY <1>5, <2>1, <2>2, MergeFollows DEF Listing
  <2> QED BY <1>6, <1>7, <2>3, <2>4 DEF Listing
<1>9. CASE ~ (Looking /\ b = a /\ a # "none")
  <2>1. k = call
    BY <1>4, <1>9, ListenedFields
  <2>2. RowFollows'
    BY <1>5, <2>1 DEF Listing, RowFollows
  <2>3. Heard'
    <3>1. CASE job.at = "cancel"
      BY <1>1, <3>1 DEF Heard
    <3>2. CASE b \in {"no", "none"}
      <4>1. Owners' = Owners
        BY <1>1, <1>2, <1>5, <3>2 DEF Owners, Calls
      <4>2. \A m \in Owners : call'.answer[m] = call.answer[m]
        BY <1>1, <1>2, <1>5 DEF Owners, Calls
      <4> QED BY <1>1, <1>5, <2>1, <4>1, <4>2 DEF Listing, Heard
    <3> QED BY <1>1, <1>4, <1>9, <3>1, <3>2
  <2> QED BY <1>6, <1>7, <2>2, <2>3 DEF Listing
<1> QED BY <1>8, <1>9

LEMMA ListingStep == SessionTypeOK /\ Listing /\ [SessionNext]_(sessionVars) => Listing'
<1> SUFFICES ASSUME SessionTypeOK, Listing, [SessionNext]_(sessionVars) PROVE Listing'
  OBVIOUS
<1>1. CASE UNCHANGED <<job, call>>
  <2>1. UNCHANGED <<job, ListingFields>>
    BY <1>1 DEF ListingFields
  <2> QED BY <2>1, ListingFrame
<1>2. ASSUME NEW l \in Leaders, StartTurn(l) \/ LoadSession(l) \/ Unload(l) \/ Start(l) PROVE Listing'
  BY <1>1, <1>2 DEF StartTurn, LoadSession, Unload, Start
<1>3. ASSUME NEW l \in Leaders, LeaderDies(l) PROVE Listing'
  BY <1>3, CrashLists
<1>4. CASE ReportTurn \/ AppendLog \/ Vanish
  BY <1>1, <1>4 DEF ReportTurn, AppendLog, Vanish
<1>5. CASE EndTurn
  <2>1. UNCHANGED <<job, ListingFields>>
    BY <1>5 DEF EndTurn, SessionTypeOK, Calls, ListingFields
  <2> QED BY <2>1, ListingFrame
<1>6. ASSUME NEW op \in {"stop", "remove", "archive"}, NEW strict \in BOOLEAN, Submit(op, strict)
      PROVE Listing'
  <2>1. Untouched'
    BY <1>6, NewCallUntouched DEF Submit
  <2>2. JobIsPlaced' /\ job'.at # "delete"
    BY <1>6 DEF Submit, JobIsPlaced
  <2> QED BY <2>1, <2>2, UntouchedLists
<1>7. CASE Expire
  <2>1. /\ job'.at = job.at /\ job'.op = job.op /\ call' = call
    BY <1>7 DEF Expire, SessionTypeOK, Jobs
  <2> QED BY <2>1
     DEF Listing, AnswersAreAsked, IdleIsUntouched, JobIsPlaced, Heard, RowFollows,
         DeleteIsSettled, Todo, Linked, Owners, CallEnds
<1>8. CASE ReadLog
  BY <1>8, ReadLogLists
<1>9. ASSUME NEW l \in Leaders, Connect(l) \/ AskRoster(l) PROVE Listing'
  BY <1>9, ConnectLists, AskLists
<1>10. job.op = "none" => job.at \in {"end", "stopped"}
  BY DEF Listing, JobIsPlaced
<1>11. CASE Missing \/ CancelFails \/ DeleteFails
  BY <1>11, EndLists DEF Missing, CancelFails, DeleteFails
<1>12. CASE Stop \/ ArchiveFinished \/ Remove \/ Wait
  <2>1. Looking /\ CallEnds
    BY <1>12 DEF Stop, ArchiveFinished, Remove, Wait, Looking
  <2>2. job.op # "none" /\ job.at # "cancel"
    BY <1>10, <2>1 DEF Looking
  <2>3. \/ End
        \/ \E at \in {"settle", "cancel", "wait", "delete"} :
               Go(at) /\ (at = "delete" => call.row \notin Active)
    BY <1>12 DEF Stop, ArchiveFinished, Remove, Wait, Settled, PollsAgain,
                 Finished, Active
  <2> QED BY <2>1, <2>2, <2>3, EndLists, GoLists
<1>13. CASE Cancel
  BY <1>10, <1>13, CancelledLists DEF Cancel
<1>14. ASSUME NEW l \in Leaders, Delete(l) PROVE Listing'
  BY <1>14, EndLists DEF Delete
<1>15. CASE UNCHANGED sessionVars
  BY <1>1, <1>15 DEF sessionVars
<1> QED
  BY <1>2, <1>3, <1>4, <1>5, <1>6, <1>7, <1>8, <1>9, <1>11, <1>12, <1>13, <1>14, <1>15
     DEF SessionNext, JobStep

-----------------------------------------------------------------------------
(* Results *)

LEMMA InitInv == SessionInit => SessionInv
<1> SUFFICES ASSUME SessionInit PROVE SessionInv
  OBVIOUS
<1>1. Untouched
  BY DEF SessionInit, NoCall, Untouched
<1>2. /\ job.at = "end" /\ job.op = "none" /\ ~ call.unread /\ ~ call.steady
      /\ turn = NoLeader
  BY DEF SessionInit, NoJob, NoCall
<1> QED BY <1>1, <1>2, InitTyped
   DEF SessionInv, World, TurnRuns, SteadyTurn, Listing, Untouched, AnswersAreAsked,
       IdleIsUntouched,
       JobIsPlaced, Heard, RowFollows, DeleteIsSettled, Todo, Owners

LEMMA InvStep == SessionInv /\ [SessionNext]_(sessionVars) => SessionInv'
  BY NextTyped, TurnStep, SteadyStep, ListingStep DEF SessionInv, World

THEOREM SessionInvariance == SessionSpec => []SessionInv
  BY InitInv, InvStep, PTL DEF SessionSpec

LEMMA RowIsVerdict == SessionInv => RowIgnoresOrder
<1> SUFFICES ASSUME SessionInv, Looking PROVE call.row = Verdict
  BY DEF RowIgnoresOrder
<1> DEFINE heard == {RosterStatus(call.answer[l]) : l \in Owners}
<1>1. Heard /\ RowFollows /\ job.at # "cancel"
  BY DEF SessionInv, Listing, Looking
<1>2. CASE call.said = "nothing"
  <2>1. heard = {} /\ call.row = call.file
    BY <1>1, <1>2 DEF Heard, RowFollows
  <2> QED BY <2>1 DEF Verdict
<1>3. CASE call.said = "Unknown"
  <2>1. heard # {} /\ (heard = {"Unknown"} \/ \E s, t \in heard : s # t)
    BY <1>1, <1>3 DEF Heard
  <2>2. call.row = "Unknown"
    BY <1>1, <1>3 DEF RowFollows
  <2>3. CASE \E s, t \in heard : s # t
    BY <2>1, <2>2, <2>3 DEF Verdict
  <2>4. CASE heard = {"Unknown"}
    <3>1. (CHOOSE s \in heard : TRUE) = "Unknown"
      BY <2>4
    <3>2. "Idle" \notin heard /\ ~ \E s, t \in heard : s # t
      BY <2>4
    <3>3. Verdict = CHOOSE s \in heard : TRUE
      BY <2>4, <3>2 DEF Verdict
    <3> HIDE DEF heard
    <3> QED BY <2>2, <3>1, <3>3
  <2> QED BY <2>1, <2>3, <2>4
<1>4. CASE call.said \notin {"nothing", "Unknown"}
  <2>1. heard = {call.said}
    BY <1>1, <1>4 DEF Heard
  <2>2. (CHOOSE s \in heard : TRUE) = call.said
    BY <2>1
  <2>3. ~ \E s, t \in heard : s # t
    BY <2>1
  <2>4. "Idle" \in heard <=> call.said = "Idle"
    BY <2>1
  <2>5. call.row = IF call.said = "Idle" /\ call.file \in Finished THEN call.file ELSE call.said
    BY <1>1, <1>4 DEF RowFollows
  <2>6. Verdict = IF "Idle" \in heard /\ call.file \in Finished THEN call.file
                  ELSE CHOOSE s \in heard : TRUE
    BY <2>1, <2>3 DEF Verdict
  <2> HIDE DEF heard
  <2> QED BY <2>2, <2>4, <2>5, <2>6
<1> QED BY <1>2, <1>3, <1>4

(* The status of a row does not depend on the order in which any number of *)
(* leaders answer.  (grok.rs, merge_roster)                                *)
THEOREM OrderIsIgnored == SessionSpec => []RowIgnoresOrder
  BY SessionInvariance, RowIsVerdict, PTL

(* A listing that heard the leader of a turn, and nobody against it, shows *)
(* the turn                                                                *)
LEMMA HeardTurnIsActive ==
    ASSUME SessionInv, job.at # "cancel", call.steady, turn \in Owners, ~ Doubtful
    PROVE  call.row \in Active
<1>1. Heard /\ RowFollows
  BY DEF SessionInv, Listing
<1>2. call.answer[turn] \in {"working", "needs_input"}
  BY DEF SessionInv, World, SteadyTurn, Owners, Doubtful, RosterStatus
<1>3. RosterStatus(call.answer[turn]) \in Active
  BY <1>2 DEF RosterStatus, Active
<1>4. \A l \in Owners : RosterStatus(call.answer[l]) = RosterStatus(call.answer[turn])
  BY DEF Doubtful
<1>5. call.said \notin {"nothing", "Unknown"}
  BY <1>1, <1>4 DEF Heard, Doubtful
<1>6. call.said = RosterStatus(call.answer[turn])
  BY <1>1, <1>5 DEF Heard
<1> QED BY <1>1, <1>3, <1>6 DEF RowFollows, Active

(* No removal or archive deletes a turn that its last listing heard of     *)
(* undisputed, however the polls, the cancel and the deadline fall.        *)
(* (ops.rs, remove_settled_target; backend.rs, wait_until_stopped)         *)
THEOREM TurnsAreKept == SessionSpec => LiveTurnsAreKept
<1>1. SessionInv /\ [SessionNext]_(sessionVars) =>
        [job.at = "delete" /\ log' # log /\ call.steady =>
            turn \notin Owners \/ Doubtful]_(sessionVars)
  <2> SUFFICES ASSUME SessionInv, job.at = "delete", call.steady, turn \in Owners, ~ Doubtful
               PROVE  FALSE
    OBVIOUS
  <2>1. call.row \in Active
    BY HeardTurnIsActive
  <2>2. call.row \notin Active
    BY DEF SessionInv, Listing, DeleteIsSettled
  <2> QED BY <2>1, <2>2
<1> QED BY <1>1, SessionInvariance, PTL DEF SessionSpec, LiveTurnsAreKept

(* Only Cancel reports a stop *)
LEMMA OnlyCancelSucceeds ==
    ASSUME SessionInv, SessionNext, CancelSucceeds
    PROVE  Cancel
<1>1. job.at = "cancel" /\ job'.at \in {"stopped", "wait"} /\ job' # job
  BY DEF CancelSucceeds
<1>2. job.op # "none"
  BY <1>1 DEF SessionInv, Listing, JobIsPlaced
<1>3. ~ End
  BY <1>1 DEF End, NoJob
<1>4. ~ \E l \in Leaders : StartTurn(l) \/ LoadSession(l) \/ Unload(l) \/ LeaderDies(l) \/ Start(l)
  BY <1>1 DEF StartTurn, LoadSession, Unload, LeaderDies, Start
<1>5. ~ (ReportTurn \/ EndTurn \/ AppendLog \/ Vanish \/ Expire)
  BY <1>1 DEF ReportTurn, EndTurn, AppendLog, Vanish, Expire
<1>6. ~ \E op \in {"stop", "remove", "archive"}, strict \in BOOLEAN : Submit(op, strict)
  BY <1>2 DEF Submit
<1>7. ~ \E l \in Leaders : Connect(l) \/ AskRoster(l) \/ Delete(l)
  BY <1>1 DEF Connect, AskRoster, Delete
<1>8. ~ (ReadLog \/ Missing \/ Stop \/ ArchiveFinished \/ Remove \/ Wait
           \/ CancelFails \/ DeleteFails)
  BY <1>1, <1>3 DEF ReadLog, Missing, Stop, ArchiveFinished, Remove, Wait,
                    Looking,
                   CancelFails, DeleteFails
<1> QED BY <1>4, <1>5, <1>6, <1>7, <1>8 DEF SessionNext, JobStep

(* A stop is reported only for a turn that is over, or whose leader was    *)
(* told, or if that leader did not answer and another claimed the session. *)
(* (grok.rs, cancel)                                                       *)
THEOREM StopsHold == SessionSpec => StopsAreTrue
<1>1. ASSUME SessionInv, SessionNext, CancelSucceeds, call.steady
      PROVE  \/ turn \in Owners /\ Owners = {turn}
             \/ turn \notin Owners /\ Owners # {}
  <2>1. Cancel
    BY <1>1, OnlyCancelSucceeds
  <2>2. ~ NothingRuns
    BY <1>1 DEF SessionInv, SessionTypeOK, World, SteadyTurn, NothingRuns
  <2>3. \E l \in Leaders : Owners = {l}
    BY <2>1, <2>2 DEF Cancel, SoleOwner
  <2> QED BY <2>3
<1>2. SessionInv /\ [SessionNext]_(sessionVars) =>
        [CancelSucceeds /\ call.steady =>
            \/ turn \in Owners /\ Owners = {turn}
            \/ turn \notin Owners /\ Owners # {}]_(sessionVars)
  BY <1>1
<1> QED BY <1>2, SessionInvariance, PTL DEF SessionSpec, StopsAreTrue
=============================================================================
