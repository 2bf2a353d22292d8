---------------------- MODULE EmbeddedTerminalsProofs ----------------------
(***************************************************************************)
(* Proofs about the embedded terminals.  The invariant has three parts: an *)
(* open triage queue stands on one of its items; the view that has the     *)
(* keyboard has a child to give it to; and every child is held by the      *)
(* view, the wall or the look-ahead, or was left behind by a step back.    *)
(***************************************************************************)
EXTENDS EmbeddedTerminals, FiniteSetTheorems, TLAPS

ChildState == {"none", "live", "exited"}
JobKind == {"focus", "prefetch", "wall"}

AtItem == mode = "triage" => at >= 1

TypeInv == TypeOK /\ AtItem

-----------------------------------------------------------------------------
(* What the helpers return *)

LEMMA WithoutEffect ==
    ASSUME NEW kids \in [Sessions -> ChildState], NEW gone
    PROVE  /\ Without(kids, gone) \in [Sessions -> ChildState]
           /\ \A k \in Sessions : Without(kids, gone)[k] = IF k \in gone THEN "none" ELSE kids[k]
BY DEF Without, ChildState

(* A release spares what the wall owns *)
LEMMA ReleasedEffect ==
    ASSUME TypeOK, NEW gone
    PROVE  /\ Released(gone) \in [Sessions -> ChildState]
           /\ \A k \in Sessions : Released(gone)[k] = IF k \in gone /\ ~ Owns(k) THEN "none" ELSE child[k]
<1>1. child \in [Sessions -> ChildState]
  BY DEF TypeOK, ChildState
<1>2. QED
  BY <1>1, WithoutEffect DEF Released

LEMMA InstalledEffect ==
    ASSUME TypeOK, NEW k \in Sessions
    PROVE  /\ Installed(k) \in [Sessions -> ChildState]
           /\ Installed(k)[k] # "none"
           /\ \A d \in Sessions : d # k => Installed(k)[d] = child[d]
BY DEF TypeOK, Installed, ChildState

LEMMA SubmitTyped ==
    ASSUME NEW js, js \subseteq Jobs, NEW kind \in JobKind, NEW k \in Sessions, NEW b \in BOOLEAN
    PROVE  Submit(js, kind, k, b) \subseteq Jobs
BY DEF Submit, Jobs, JobKind

LEMMA AttachItemEffect ==
    ASSUME jobs \subseteq Jobs, NEW q \in Seq(Sessions), NEW i \in 1 .. Len(q), NEW kids,
           AttachItem(q, i, kids)
    PROVE  focused' = q[i] /\ q[i] \in Sessions /\ jobs' \subseteq Jobs
<1>1. focused' = q[i] /\ q[i] \in Sessions
  BY DEF AttachItem
<1>2. i < Len(q) => q[i + 1] \in Sessions
  OBVIOUS
<1> DEFINE shown == IF kids[q[i]] = "none" THEN Submit(jobs, "focus", q[i], TRUE) ELSE jobs
           wanted == i < Len(q) /\ q[i + 1] \in listed /\ kids[q[i + 1]] = "none"
<1>3. shown \subseteq Jobs
  BY <1>1, SubmitTyped DEF JobKind
<1>4. jobs' \in {jobs, shown} \/ (i < Len(q) /\ jobs' = Submit(shown, "prefetch", q[i + 1], FALSE))
  BY DEF AttachItem
<1> HIDE DEF shown
<1>5. jobs' \subseteq Jobs
  BY <1>2, <1>3, <1>4, SubmitTyped DEF JobKind
<1>6. QED
  BY <1>1, <1>5

(* A queue snapshotted from the listing is a sequence of sessions *)
LEMMA OrdersTyped ==
    ASSUME NEW S \in SUBSET Sessions, NEW q \in Orders(S)
    PROVE  q \in Seq(Sessions)
<1>1. Cardinality(S) \in Nat
  BY SessionAssumption, FS_Subset, FS_CardinalityType
<1>2. q \in [1 .. Cardinality(S) -> Sessions]
  BY DEF Orders
<1>3. QED
  BY <1>1, <1>2

-----------------------------------------------------------------------------
(* Type correctness *)

LEMMA TypeStarts == ASSUME Init PROVE TypeInv
<1>1. <<>> \in Seq(Sessions) /\ 0 \in 0 .. Len(<<>>)
  OBVIOUS
<1>2. child \in [Sessions -> ChildState]
  BY DEF Init, ChildState
<1>3. QED
  BY <1>1, <1>2 DEF Init, TypeInv, TypeOK, AtItem, ChildState

LEMMA DrainTypes ==
    ASSUME TypeInv, \/ \E j \in jobs : Land(j)
                    \/ Snapshot \/ Retile \/ Frame
                    \/ \E k \in Sessions : ChildExits(k)
    PROVE  TypeInv'
<1> USE DEF TypeInv
<1>1. child \in [Sessions -> ChildState]
  BY DEF TypeOK, ChildState
<1>2. ASSUME NEW j \in jobs, Land(j) PROVE TypeInv'
  <2>1. j.key \in Sessions
    BY DEF TypeOK, Jobs
  <2>2. CASE LandFocus(j)
    BY <2>1, <2>2, InstalledEffect DEF LandFocus, SetChild, TypeOK, AtItem, ChildState, triage, wall, lists, StillCurrent
  <2>3. CASE LandPrefetch(j)
    <3>1. Current \in Sessions
      BY <2>3 DEF LandPrefetch, AtItem, TypeOK, Current
    <3>2. QED
      BY <2>1, <2>3, <3>1, InstalledEffect DEF LandPrefetch, SetChild, TypeOK, AtItem, ChildState, triage, wall, lists
  <2>4. CASE LandWall(j)
    BY <2>1, <2>4 DEF LandWall, SetChild, TypeOK, AtItem, triage, wall, lists
  <2>5. CASE DropJob(j)
    BY <2>5 DEF DropJob, TypeOK, AtItem, triage, wall, lists
  <2>6. QED
    BY <1>2, <2>2, <2>3, <2>4, <2>5 DEF Land
<1>3. CASE Snapshot
  BY <1>1, <1>3, WithoutEffect DEF Snapshot, SetChild, TypeOK, AtItem, ChildState, triage, wall
<1>4. CASE Retile
  <2>1. tiled' \subseteq listed
    BY <1>4 DEF Retile
  <2>2. UNCHANGED <<mode, focused, child, queue, at, wallOn, requested, jobs, listed, phase, strays>>
    BY <1>4 DEF Retile, triage, wall
  <2>3. QED
    BY <2>1, <2>2 DEF TypeOK, AtItem
<1>5. CASE Frame
  <2>1. Joinable \subseteq Sessions /\ Expired \subseteq Sessions
    BY DEF Joinable, Expired, TypeOK
  <2>2. jobs' \subseteq Jobs
    <3>1. ASSUME NEW k \in Joinable PROVE [kind |-> "wall", key |-> k, triage |-> FALSE] \in Jobs
      BY <2>1 DEF Jobs
    <3>2. jobs' = jobs \cup {[kind |-> "wall", key |-> k, triage |-> FALSE] : k \in Joinable}
      BY <1>5 DEF Frame
    <3>3. jobs \subseteq Jobs
      BY DEF TypeOK
    <3>4. QED
      BY <3>1, <3>2, <3>3
  <2>3. QED
    BY <1>1, <1>5, <2>1, <2>2, WithoutEffect DEF Frame, SetChild, TypeOK, AtItem, ChildState, triage, lists
<1>6. ASSUME NEW k \in Sessions, ChildExits(k) PROVE TypeInv'
  BY <1>6 DEF ChildExits, TypeOK, AtItem, triage, wall, lists
<1>7. QED
  BY <1>2, <1>3, <1>4, <1>5, <1>6

LEMMA TriageTypes ==
    ASSUME TypeInv, \/ \E S \in SUBSET listed : \E q \in Orders(S) : OpenTriage(q)
                    \/ CloseTriage \/ Skip \/ Back
    PROVE  TypeInv'
<1> USE DEF TypeInv
<1>1. \A gone : Released(gone) \in [Sessions -> ChildState]
  BY ReleasedEffect
<1>2. ASSUME NEW S \in SUBSET listed, NEW q \in Orders(S), OpenTriage(q) PROVE TypeInv'
  <2>1. q \in Seq(Sessions) /\ q # <<>>
    BY <1>2, OrdersTyped DEF OpenTriage, TypeOK
  <2>2. 1 \in 1 .. Len(q)
    BY <2>1
  <2>3. focused' \in Sessions /\ jobs' \subseteq Jobs
    BY <1>2, <2>1, <2>2, AttachItemEffect DEF OpenTriage, TypeOK
  <2>4. QED
    BY <1>2, <2>1, <2>2, <2>3 DEF OpenTriage, Handled, TypeOK, AtItem, wall, lists
<1>3. CASE CloseTriage
  BY <1>1, <1>3 DEF CloseTriage, Handled, SetChild, TypeOK, AtItem, ChildState, wall, lists
<1>4. CASE Skip
  <2>1. at + 1 \in 1 .. Len(queue) /\ queue \in Seq(Sessions)
    BY <1>4 DEF Skip, HasNext, TypeOK
  <2>2. focused' \in Sessions /\ jobs' \subseteq Jobs
    BY <1>4, <2>1, AttachItemEffect DEF Skip, TypeOK
  <2>3. QED
    BY <1>1, <1>4, <2>1, <2>2 DEF Skip, Handled, SetChild, TypeOK, AtItem, ChildState, wall, lists
<1>5. CASE Back
  <2>1. at - 1 \in 1 .. Len(queue) /\ queue \in Seq(Sessions)
    BY <1>5 DEF Back, TypeOK
  <2>2. focused' \in Sessions /\ jobs' \subseteq Jobs
    BY <1>5, <2>1, AttachItemEffect DEF Back, TypeOK
  <2>3. QED
    BY <1>1, <1>5, <2>1, <2>2 DEF Back, Handled, TypeOK, AtItem, ChildState, wall, lists
<1>6. QED
  BY <1>2, <1>3, <1>4, <1>5

LEMMA InputTypes == ASSUME TypeInv, Input PROVE TypeInv'
<1> USE DEF TypeInv, Handled
<1>1. child \in [Sessions -> ChildState]
  BY DEF TypeOK, ChildState
<1>2. \A gone : Released(gone) \in [Sessions -> ChildState] /\ Without(child, gone) \in [Sessions -> ChildState]
  BY <1>1, ReleasedEffect, WithoutEffect
<1>3. CASE NoEvent
  BY <1>3 DEF NoEvent, TypeOK, AtItem, triage, wall, lists
<1>4. ASSUME NEW k \in Sessions, Attach(k) PROVE TypeInv'
  <2>1. jobs' \subseteq Jobs
    BY <1>4, SubmitTyped DEF Attach, TypeOK, JobKind
  <2>2. QED
    BY <1>4, <2>1 DEF Attach, TypeOK, AtItem, triage, wall, lists
<1>5. CASE OpenModal \/ CloseModal \/ OpenWall
  BY <1>5 DEF OpenModal, CloseModal, OpenWall, TypeOK, AtItem, triage, wall, lists
<1>6. CASE CloseWall
  BY <1>2, <1>6 DEF CloseWall, SetChild, TypeOK, AtItem, ChildState, triage, lists
<1>7. CASE Leave \/ LeaveDead
  BY <1>2, <1>7 DEF Leave, LeaveDead, SetChild, TypeOK, AtItem, ChildState, triage, wall, lists
<1>8. QED
  BY <1>3, <1>4, <1>5, <1>6, <1>7, TriageTypes DEF Input, Archive

LEMMA TypeKeeps == ASSUME TypeInv, [Next]_vars PROVE TypeInv'
<1>1. CASE UNCHANGED vars
  BY <1>1 DEF vars, TypeInv, TypeOK, AtItem
<1>2. QED
  BY <1>1, DrainTypes, InputTypes DEF Next

LEMMA TypeInvariance == Spec => []TypeInv
BY TypeStarts, TypeKeeps, PTL DEF Spec

(* Every reachable state is well typed, for any finite set of sessions. *)
THEOREM TypeCorrect == Spec => []TypeOK
<1>1. TypeInv => TypeOK
  BY DEF TypeInv
<1>2. QED
  BY <1>1, TypeInvariance, PTL

-----------------------------------------------------------------------------
(* The keyboard *)

ViewInv == TypeInv /\ KeysReachWhatIsShown

(* A step that moves neither the view nor the queue, and drops no child    *)
(* that is in the view                                                     *)
LEMMA SameView ==
    ASSUME KeysReachWhatIsShown, UNCHANGED <<mode, focused, queue, at>>,
           mode = "attached" => child'[focused] # "none"
    PROVE  KeysReachWhatIsShown'
BY DEF KeysReachWhatIsShown, Current

(* A step that goes back to the list gives the keyboard back *)
LEMMA BackToList ==
    ASSUME mode' \in {"list", "modal"}, focused' = NoSession
    PROVE  KeysReachWhatIsShown'
BY DEF KeysReachWhatIsShown

LEMMA ViewStarts == ASSUME Init PROVE ViewInv
BY TypeStarts DEF Init, ViewInv, KeysReachWhatIsShown

LEMMA ViewDrains ==
    ASSUME ViewInv, \/ \E j \in jobs : Land(j)
                    \/ Snapshot \/ Retile \/ Frame
                    \/ \E k \in Sessions : ChildExits(k)
    PROVE  KeysReachWhatIsShown'
<1> USE DEF ViewInv, TypeInv, triage
<1>1. child \in [Sessions -> ChildState]
  BY DEF TypeOK, ChildState
<1>2. mode = "attached" => focused \in Sessions /\ child[focused] # "none"
  BY DEF KeysReachWhatIsShown, TypeOK
<1>3. ASSUME NEW j \in jobs, Land(j) PROVE KeysReachWhatIsShown'
  <2>1. j.key \in Sessions
    BY DEF TypeOK, Jobs
  <2>2. CASE LandFocus(j)
    <3>1. child'[j.key] # "none" /\ focused' = j.key /\ UNCHANGED <<queue, at>>
      BY <2>1, <2>2, InstalledEffect DEF LandFocus, SetChild
    <3>2. \/ mode = "triage" /\ mode' = "triage" /\ Current = j.key
          \/ mode = "list" /\ mode' = "attached"
      BY <2>2 DEF LandFocus, StillCurrent
    <3>3. QED
      BY <2>1, <3>1, <3>2, SessionAssumption DEF KeysReachWhatIsShown, Current
  <2>3. CASE LandPrefetch(j)
    BY <2>3 DEF LandPrefetch, KeysReachWhatIsShown, Current
  <2>4. CASE LandWall(j)
    BY <1>1, <1>2, <2>1, <2>4, SameView DEF LandWall, SetChild
  <2>5. CASE DropJob(j)
    BY <1>2, <2>5, SameView DEF DropJob
  <2>6. QED
    BY <1>3, <2>2, <2>3, <2>4, <2>5 DEF Land
<1>4. CASE Snapshot
  BY <1>1, <1>2, <1>4, WithoutEffect, SameView DEF Snapshot, SetChild
<1>5. CASE Retile
  BY <1>2, <1>5, SameView DEF Retile
<1>6. CASE Frame
  BY <1>1, <1>2, <1>6, WithoutEffect, SameView DEF Frame, SetChild
<1>7. ASSUME NEW k \in Sessions, ChildExits(k) PROVE KeysReachWhatIsShown'
  BY <1>1, <1>2, <1>7, SameView DEF ChildExits
<1>8. QED
  BY <1>3, <1>4, <1>5, <1>6, <1>7

LEMMA ViewInputs == ASSUME ViewInv, Input PROVE KeysReachWhatIsShown'
<1> USE DEF ViewInv, TypeInv, triage
<1>1. mode = "attached" => focused \in Sessions /\ child[focused] # "none"
  BY DEF KeysReachWhatIsShown, TypeOK
<1>2. mode \in {"list", "modal"} => focused = NoSession
  BY DEF KeysReachWhatIsShown
<1>3. CASE NoEvent
  BY <1>1, <1>3, SameView DEF NoEvent
<1>4. ASSUME NEW k \in Sessions, Attach(k) PROVE KeysReachWhatIsShown'
  BY <1>2, <1>4, BackToList DEF Attach
<1>5. CASE OpenModal \/ CloseModal \/ CloseWall
  BY <1>2, <1>5, BackToList DEF OpenModal, CloseModal, CloseWall
<1>6. CASE OpenWall
  BY <1>1, <1>6, SameView DEF OpenWall
<1>7. CASE Leave \/ LeaveDead \/ CloseTriage
  BY <1>7, BackToList DEF Leave, LeaveDead, CloseTriage
<1>8. ASSUME NEW S \in SUBSET listed, NEW q \in Orders(S), OpenTriage(q) PROVE KeysReachWhatIsShown'
  BY <1>8 DEF OpenTriage, AttachItem, KeysReachWhatIsShown, Current
<1>9. CASE Skip
  BY <1>9 DEF Skip, AttachItem, KeysReachWhatIsShown, Current
<1>10. CASE Back
  BY <1>10 DEF Back, AttachItem, KeysReachWhatIsShown, Current
<1>11. QED
  BY <1>3, <1>4, <1>5, <1>6, <1>7, <1>8, <1>9, <1>10 DEF Input, Archive

LEMMA ViewKeeps == ASSUME ViewInv, [Next]_vars PROVE ViewInv'
<1>1. CASE UNCHANGED vars
  BY <1>1, TypeKeeps DEF vars, ViewInv, KeysReachWhatIsShown, Current
<1>2. QED
  BY <1>1, TypeKeeps, ViewDrains, ViewInputs DEF Next, ViewInv

LEMMA ViewInvariance == Spec => []ViewInv
BY ViewStarts, ViewKeeps, PTL DEF Spec

(* The full screen view always has the child that its keys go to, the      *)
(* triage panel points at its current item, and the list at no session.    *)
THEOREM KeysReachTheView == Spec => []KeysReachWhatIsShown
<1>1. ViewInv => KeysReachWhatIsShown
  BY DEF ViewInv
<1>2. QED
  BY <1>1, ViewInvariance, PTL

(* A late attach, join or prefetch, a listing and a frame take the         *)
(* keyboard from the list alone.                                           *)
THEOREM LandingStealsNoKeys == Spec => LandingStealsNothing
<1> DEFINE Steal == mode # "list" /\ phase = "drain" => focused' = focused /\ mode' = mode
<1>1. ASSUME ViewInv, Next PROVE Steal
  <2>1. ASSUME NEW j \in jobs, Land(j) PROVE Steal
    BY <1>1, <2>1 DEF Land, LandFocus, LandPrefetch, LandWall, DropJob, StillCurrent, ViewInv,
                      KeysReachWhatIsShown
  <2>2. CASE Snapshot \/ Retile \/ Frame \/ \E k \in Sessions : ChildExits(k)
    BY <2>2 DEF Snapshot, Retile, Frame, ChildExits
  <2>3. CASE Input
    BY <2>3 DEF Input, Handled, NoEvent, Attach, OpenModal, CloseModal, OpenWall, CloseWall, Leave,
                LeaveDead, OpenTriage, CloseTriage, Archive, Skip, Back
  <2>4. QED
    BY <1>1, <2>1, <2>2, <2>3 DEF Next
<1>2. ViewInv /\ [Next]_vars => [Steal]_vars
  BY <1>1
<1> HIDE DEF Steal
<1>3. Spec => [][Steal]_vars
  BY <1>2, ViewInvariance, PTL DEF Spec
<1>4. QED
  BY <1>3 DEF Steal, LandingStealsNothing

-----------------------------------------------------------------------------
(* What holds a child *)

HeldInv == ViewInv /\ OnlyStepsBackLinger

(* The children of the next state: those that were there are still held,   *)
(* and a new one is held by what it landed for                             *)
LEMMA StillHeld ==
    ASSUME OnlyStepsBackLinger, NEW kids, SetChild(kids),
           \A k \in Sessions : kids[k] # "none" /\ (child[k] = "none" \/ Held(k)) => Held(k)'
    PROVE  OnlyStepsBackLinger'
BY DEF OnlyStepsBackLinger, SetChild

(* No child comes, and what held them still does *)
LEMMA SameHolders ==
    ASSUME OnlyStepsBackLinger, UNCHANGED strays,
           \A k \in Sessions : child'[k] # "none" => child[k] # "none",
           \A k \in Sessions : Held(k) => Held(k)'
    PROVE  OnlyStepsBackLinger'
BY DEF OnlyStepsBackLinger

LEMMA HeldDrains ==
    ASSUME HeldInv, \/ \E j \in jobs : Land(j)
                    \/ Snapshot \/ Retile \/ Frame
                    \/ \E k \in Sessions : ChildExits(k)
    PROVE  OnlyStepsBackLinger'
<1> USE DEF HeldInv, ViewInv, TypeInv, triage, wall
<1>1. child \in [Sessions -> ChildState]
  BY DEF TypeOK, ChildState
<1>2. ASSUME NEW j \in jobs, Land(j) PROVE OnlyStepsBackLinger'
  <2>1. j.key \in Sessions
    BY DEF TypeOK, Jobs
  <2>2. CASE LandFocus(j)
    <3>1. /\ SetChild(Installed(j.key)) /\ focused' = j.key
          /\ UNCHANGED <<queue, at, wallOn, requested>>
          /\ \A k \in Sessions : k # j.key => Installed(j.key)[k] = child[k]
      BY <2>1, <2>2, InstalledEffect DEF LandFocus
    <3>2. \/ mode = "triage" /\ mode' = "triage" /\ focused = j.key
          \/ mode = "list" /\ focused = NoSession
      BY <2>2 DEF LandFocus, StillCurrent, KeysReachWhatIsShown
    <3>3. ASSUME NEW k \in Sessions, Held(k) PROVE Held(k)'
      BY <3>1, <3>2, <3>3, SessionAssumption DEF Held, Owns, NextItem, HasNext
    <3>4. Held(j.key)'
      BY <3>1 DEF Held
    <3>5. ASSUME NEW k \in Sessions, Installed(j.key)[k] # "none", child[k] = "none" \/ Held(k)
          PROVE  Held(k)'
      BY <3>1, <3>3, <3>4, <3>5
    <3>6. QED
      BY <3>1, <3>5, StillHeld
  <2>3. CASE LandPrefetch(j)
    <3>1. /\ SetChild(Installed(j.key)) /\ focused' = focused
          /\ UNCHANGED <<mode, queue, at, wallOn, requested>>
          /\ mode = "triage" /\ NextItem = j.key
          /\ \A k \in Sessions : k # j.key => Installed(j.key)[k] = child[k]
      BY <2>1, <2>3, InstalledEffect DEF LandPrefetch, KeysReachWhatIsShown
    <3>2. \A k \in Sessions : Held(k) => Held(k)'
      BY <3>1 DEF Held, Owns, NextItem, HasNext
    <3>3. Held(j.key)
      BY <3>1 DEF Held
    <3>4. ASSUME NEW k \in Sessions, Installed(j.key)[k] # "none", child[k] = "none" \/ Held(k)
          PROVE  Held(k)'
      BY <2>1, <3>1, <3>2, <3>3, <3>4
    <3>5. QED
      BY <3>1, <3>4, StillHeld
  <2>4. CASE LandWall(j)
    <3> DEFINE kids == [child EXCEPT ![j.key] = "live"]
    <3>1. /\ SetChild(kids) /\ Owns(j.key)
          /\ UNCHANGED <<mode, focused, queue, at, wallOn, requested>>
          /\ \A k \in Sessions : k # j.key => kids[k] = child[k]
      BY <1>1, <2>4 DEF LandWall
    <3>2. \A k \in Sessions : Held(k) => Held(k)'
      BY <3>1 DEF Held, Owns, NextItem, HasNext
    <3>3. Held(j.key)
      BY <3>1 DEF Held
    <3> HIDE DEF kids
    <3>4. ASSUME NEW k \in Sessions, kids[k] # "none", child[k] = "none" \/ Held(k)
          PROVE  Held(k)'
      BY <2>1, <3>1, <3>2, <3>3, <3>4
    <3>5. QED
      BY <3>1, <3>4, StillHeld
  <2>5. CASE DropJob(j)
    <3>1. /\ UNCHANGED <<child, strays>>
          /\ \A k \in Sessions : Held(k) => Held(k)'
      BY <2>5 DEF DropJob, Held, Owns, NextItem, HasNext
    <3>2. QED
      BY <3>1, SameHolders
  <2>6. QED
    BY <1>2, <2>2, <2>3, <2>4, <2>5 DEF Land
<1>3. CASE Snapshot
  <2> DEFINE kids == Without(child, {k \in Sessions : child[k] = "exited" /\ k # focused})
  <2>1. SetChild(kids) /\ \A k \in Sessions : kids[k] # "none" => child[k] # "none"
    BY <1>1, <1>3, WithoutEffect DEF Snapshot
  <2>2. \A k \in Sessions : Held(k) => Held(k)'
    BY <1>3 DEF Snapshot, Held, Owns, NextItem, HasNext
  <2> HIDE DEF kids
  <2>3. QED
    BY <2>1, <2>2, StillHeld
<1>4. CASE Retile
  <2>1. /\ UNCHANGED <<child, strays>>
        /\ \A k \in Sessions : Held(k) => Held(k)'
    BY <1>4 DEF Retile, Held, Owns, NextItem, HasNext
  <2>2. QED
    BY <2>1, SameHolders
<1>5. CASE Frame
  <2> DEFINE kids == Without(child, Expired \ {focused})
  <2>1. /\ SetChild(kids)
        /\ UNCHANGED <<mode, focused, queue, at, wallOn>>
        /\ requested' = (requested \ Expired) \cup Joinable
    BY <1>5 DEF Frame
  <2>2. \A k \in Sessions : kids[k] = IF k \in Expired \ {focused} THEN "none" ELSE child[k]
    BY <1>1, WithoutEffect
  <2> HIDE DEF kids
  <2>3. ASSUME NEW k \in Sessions, kids[k] # "none", Held(k) PROVE Held(k)'
    <3>1. k \notin Expired \/ k = focused
      BY <2>2, <2>3
    <3>2. QED
      BY <2>1, <2>3, <3>1 DEF Held, Owns, NextItem, HasNext
  <2>4. \A k \in Sessions : kids[k] # "none" => child[k] # "none"
    BY <2>2
  <2>5. QED
    BY <2>1, <2>3, <2>4, StillHeld
<1>6. ASSUME NEW k \in Sessions, ChildExits(k) PROVE OnlyStepsBackLinger'
  <2>1. \A d \in Sessions : child'[d] # "none" => child[d] # "none"
    BY <1>1, <1>6 DEF ChildExits
  <2>2. \A d \in Sessions : Held(d) => Held(d)'
    BY <1>6 DEF ChildExits, Held, Owns, NextItem, HasNext
  <2>3. QED
    BY <1>6, <2>1, <2>2, SameHolders DEF ChildExits
<1>7. QED
  BY <1>2, <1>3, <1>4, <1>5, <1>6

LEMMA HeldInputs ==
    ASSUME HeldInv, Input
    PROVE  OnlyStepsBackLinger'
<1> USE DEF HeldInv, ViewInv, TypeInv, triage, wall
<1>1. child \in [Sessions -> ChildState]
  BY DEF TypeOK, ChildState
<1>2. mode \in {"list", "modal"} => focused = NoSession /\ \A k \in Sessions : Held(k) => Owns(k)
  BY SessionAssumption DEF KeysReachWhatIsShown, Held
<1>3. ASSUME NoEvent \/ OpenModal \/ CloseModal \/ \E k \in Sessions : Attach(k)
      PROVE  OnlyStepsBackLinger'
  <2>1. UNCHANGED <<focused, child, queue, at, wallOn, requested, strays>>
    BY <1>3 DEF NoEvent, OpenModal, CloseModal, Attach
  <2>2. mode' = mode \/ (mode \in {"list", "modal"} /\ mode' \in {"list", "modal"})
    BY <1>3 DEF NoEvent, OpenModal, CloseModal, Attach
  <2>3. \A k \in Sessions : Held(k) => Held(k)'
    BY <2>1, <2>2 DEF Held, Owns, NextItem, HasNext
  <2>4. QED
    BY <2>1, <2>3, SameHolders
<1>4. CASE OpenWall
  <2>1. \A k \in Sessions : ~ Held(k)
    BY <1>2, <1>4 DEF OpenWall, Owns
  <2>2. QED
    BY <1>4, <2>1, SameHolders DEF OpenWall
<1>5. CASE CloseWall
  <2> DEFINE kids == Without(child, requested \ {focused})
  <2>1. SetChild(kids) /\ mode \in {"list", "modal"}
    BY <1>5 DEF CloseWall
  <2>2. \A k \in Sessions : kids[k] = IF k \in requested \ {focused} THEN "none" ELSE child[k]
    BY <1>1, WithoutEffect
  <2> HIDE DEF kids
  <2>3. ASSUME NEW k \in Sessions, kids[k] # "none" PROVE child[k] # "none" /\ ~ Held(k)
    BY <1>2, <2>1, <2>2, <2>3, SessionAssumption DEF Owns
  <2>4. QED
    BY <2>1, <2>3, StillHeld
<1>6. CASE Leave
  <2> DEFINE kids == Released({focused})
  <2>1. SetChild(kids) /\ mode = "attached" /\ UNCHANGED <<wallOn, requested>>
    BY <1>6 DEF Leave
  <2>2. \A k \in Sessions : kids[k] = IF k \in {focused} /\ ~ Owns(k) THEN "none" ELSE child[k]
    BY ReleasedEffect
  <2> HIDE DEF kids
  <2>3. ASSUME NEW k \in Sessions, kids[k] # "none" PROVE child[k] # "none" /\ (Held(k) => Held(k)')
    BY <2>1, <2>2, <2>3 DEF Held, Owns
  <2>4. QED
    BY <2>1, <2>3, StillHeld
<1>7. CASE LeaveDead
  <2> DEFINE kids == Without(child, {focused})
  <2>1. SetChild(kids) /\ mode = "attached" /\ UNCHANGED <<wallOn, requested>>
    BY <1>7 DEF LeaveDead
  <2>2. \A k \in Sessions : kids[k] = IF k \in {focused} THEN "none" ELSE child[k]
    BY <1>1, WithoutEffect
  <2> HIDE DEF kids
  <2>3. ASSUME NEW k \in Sessions, kids[k] # "none" PROVE child[k] # "none" /\ (Held(k) => Held(k)')
    BY <2>1, <2>2, <2>3 DEF Held, Owns
  <2>4. QED
    BY <2>1, <2>3, StillHeld
<1>8. ASSUME NEW S \in SUBSET listed, NEW q \in Orders(S), OpenTriage(q) PROVE OnlyStepsBackLinger'
  <2>1. mode \in {"list", "modal"} /\ UNCHANGED <<child, strays, wallOn, requested>>
    BY <1>8 DEF OpenTriage
  <2>2. \A k \in Sessions : Held(k) => Held(k)'
    BY <1>2, <2>1 DEF Held, Owns
  <2>3. QED
    BY <2>1, <2>2, SameHolders
<1>9. CASE CloseTriage
  <2> DEFINE kids == Released({focused, NextItem})
  <2>1. SetChild(kids) /\ mode = "triage" /\ UNCHANGED <<wallOn, requested>>
    BY <1>9 DEF CloseTriage
  <2>2. \A k \in Sessions : kids[k] = IF k \in {focused, NextItem} /\ ~ Owns(k) THEN "none" ELSE child[k]
    BY ReleasedEffect
  <2> HIDE DEF kids
  <2>3. ASSUME NEW k \in Sessions, kids[k] # "none" PROVE child[k] # "none" /\ (Held(k) => Held(k)')
    BY <2>1, <2>2, <2>3 DEF Held, Owns
  <2>4. QED
    BY <2>1, <2>3, StillHeld
<1>10. CASE Skip
  <2> DEFINE kids == Released({Current})
  <2>1. /\ SetChild(kids) /\ mode = "triage" /\ UNCHANGED <<wallOn, requested>>
        /\ focused = Current /\ HasNext /\ focused' = queue[at + 1]
    BY <1>10 DEF Skip, AttachItem, KeysReachWhatIsShown
  <2>2. \A k \in Sessions : kids[k] = IF k \in {Current} /\ ~ Owns(k) THEN "none" ELSE child[k]
    BY ReleasedEffect
  <2> HIDE DEF kids
  <2>3. ASSUME NEW k \in Sessions, kids[k] # "none" PROVE child[k] # "none" /\ (Held(k) => Held(k)')
    BY <2>1, <2>2, <2>3 DEF Held, Owns, NextItem
  <2>4. QED
    BY <2>1, <2>3, StillHeld
<1>11. CASE Back
  <2>1. /\ mode = "triage" /\ UNCHANGED <<wallOn, requested>>
        /\ focused = Current
        /\ child' = Released({Current})
        /\ strays' = {k \in Sessions : k \in strays \cup {NextItem} /\ child'[k] # "none"}
    BY <1>11 DEF Back, KeysReachWhatIsShown
  <2>2. \A k \in Sessions : child'[k] = IF k \in {Current} /\ ~ Owns(k) THEN "none" ELSE child[k]
    BY <2>1, ReleasedEffect
  <2>3. ASSUME NEW k \in Sessions, child'[k] # "none" PROVE Held(k)' \/ k \in strays'
    BY <2>1, <2>2, <2>3 DEF OnlyStepsBackLinger, Held, Owns
  <2>4. QED
    BY <2>3 DEF OnlyStepsBackLinger
<1>12. QED
  BY <1>3, <1>4, <1>5, <1>6, <1>7, <1>8, <1>9, <1>10, <1>11 DEF Input, Archive

LEMMA HeldKeeps == ASSUME HeldInv, [Next]_vars PROVE HeldInv'
<1>1. CASE UNCHANGED vars
  <2>1. /\ UNCHANGED <<child, strays>>
        /\ \A k \in Sessions : Held(k) => Held(k)'
    BY <1>1 DEF vars, Held, Owns, NextItem, HasNext
  <2>2. QED
    BY <1>1, <2>1, ViewKeeps, SameHolders DEF HeldInv
<1>2. QED
  BY <1>1, ViewKeeps, HeldDrains, HeldInputs DEF Next, HeldInv

(* A child is only ever embedded while the view, the wall or the look-     *)
(* ahead holds it, but for those a step back in the queue left behind.     *)
THEOREM OthersAreReleased == Spec => []OnlyStepsBackLinger
<1>1. Init => HeldInv
  BY ViewStarts DEF Init, HeldInv, OnlyStepsBackLinger
<1>2. HeldInv /\ [Next]_vars => HeldInv'
  BY HeldKeeps
<1>3. HeldInv => OnlyStepsBackLinger
  BY DEF HeldInv
<1>4. QED
  BY <1>1, <1>2, <1>3, PTL DEF Spec
=============================================================================
