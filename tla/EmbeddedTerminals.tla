------------------------- MODULE EmbeddedTerminals -------------------------
(***************************************************************************)
(* The children the TUI embeds: which sessions it holds an attach PTY for, *)
(* as the run loop lands resolved attaches, draws the video wall and walks *)
(* the triage queue.                                                       *)
(*                                                                         *)
(* Every step is one turn of the run loop's single thread, except that     *)
(* attach workers resolve and children exit at any time.  One iteration    *)
(* drains landed attaches and a new listing, then reconciles the wall (the *)
(* frame), then handles at most one input event.                           *)
(***************************************************************************)
EXTENDS Naturals, Sequences, FiniteSets

CONSTANTS Sessions,
          NoSession,
          MaxTiles,    \* wall::MAX_TILES
          MaxJobs      \* bound: attaches resolving at once

ASSUME SessionAssumption == NoSession \notin Sessions /\ IsFiniteSet(Sessions)
ASSUME LimitAssumption == MaxTiles \in Nat /\ MaxJobs \in Nat

VARIABLES mode,        \* Ui.mode; "modal" is every mode that hosts no child
          focused,     \* Ui.focused
          child,       \* Ui.attached, and whether the child has exited
          queue,       \* TriageState.items, snapshotted on open
          at,          \* TriageState.index, from 1; 0 without a queue
          wallOn,      \* WallState.on
          requested,   \* WallState.requested, the wall's ownership set
          jobs,        \* AttachRunner: attaches not landed yet
          listed,      \* sessions in the newest listing
          tiled,       \* wall::tile_keys now
          phase,       \* where the run loop is in its iteration
          strays       \* history: children a step back left outside the window

triage == <<queue, at>>
wall == <<wallOn, requested>>
lists == <<listed, tiled>>
vars == <<mode, focused, child, queue, at, wallOn, requested, jobs, listed,
          tiled, phase, strays>>

Jobs == [kind : {"focus", "prefetch", "wall"}, key : Sessions, triage : BOOLEAN]

TypeOK ==
    /\ mode \in {"list", "attached", "triage", "modal"}
    /\ focused \in Sessions \cup {NoSession}
    /\ child \in [Sessions -> {"none", "live", "exited"}]
    /\ queue \in Seq(Sessions)
    /\ at \in 0 .. Len(queue)
    /\ wallOn \in BOOLEAN
    /\ requested \subseteq Sessions
    /\ jobs \subseteq Jobs
    /\ tiled \subseteq listed /\ listed \subseteq Sessions
    /\ phase \in {"drain", "event"}
    /\ strays \subseteq Sessions

Init ==
    /\ mode = "list"
    /\ focused = NoSession
    /\ child = [k \in Sessions |-> "none"]
    /\ queue = <<>>
    /\ at = 0
    /\ wallOn = FALSE
    /\ requested = {}
    /\ jobs = {}
    /\ listed = {}
    /\ tiled = {}
    /\ phase = "drain"
    /\ strays = {}

-----------------------------------------------------------------------------
(* TriageState *)

Current == queue[at]
HasNext == at < Len(queue)
NextItem == IF HasNext THEN queue[at + 1] ELSE NoSession

(* WallState::owns *)
Owns(k) == wallOn /\ k \in requested

(* remove_pty, and the two releases that spare a wall tile *)
Without(kids, gone) == [k \in Sessions |-> IF k \in gone THEN "none" ELSE kids[k]]
Released(gone) == Without(child, {k \in gone : ~ Owns(k)})

SetChild(kids) ==
    /\ child' = kids
    /\ strays' = {k \in strays : kids[k] # "none"}

(* AttachRunner::submit: a key already in flight is refused *)
InFlight(js, kind, k) == \E j \in js : j.kind = kind /\ j.key = k
Submit(js, kind, k, inTriage) ==
    IF InFlight(js, kind, k) THEN js
    ELSE js \cup {[kind |-> kind, key |-> k, triage |-> inTriage]}

WithinBound == Cardinality(jobs') <= MaxJobs

-----------------------------------------------------------------------------
(* Draining: apply_attach_result on one landed job.  install_attach_plan   *)
(* reuses the child a session already has.                                 *)

Installed(k) == IF child[k] = "none" THEN [child EXCEPT ![k] = "live"] ELSE child

(* Mutant: an attach asked for from the list lands over any mode *)
AnyModeIsCurrent(j) == j.triage => mode = "triage" /\ Current = j.key

StillCurrent(j) ==
    IF j.triage THEN mode = "triage" /\ Current = j.key ELSE mode = "list"

LandFocus(j) ==
    /\ phase = "drain"
    /\ j.kind = "focus"
    /\ StillCurrent(j)
    /\ SetChild(Installed(j.key))
    /\ focused' = j.key
    /\ mode' = IF mode = "triage" THEN "triage" ELSE "attached"
    /\ jobs' = jobs \ {j}
    /\ UNCHANGED <<triage, wall, lists, phase>>

LandPrefetch(j) ==
    /\ phase = "drain"
    /\ j.kind = "prefetch"
    /\ mode = "triage"
    /\ NextItem = j.key
    /\ SetChild(Installed(j.key))
    /\ focused' = Current
    /\ jobs' = jobs \ {j}
    /\ UNCHANGED <<mode, triage, wall, lists, phase>>

(* install_wall_join inserts without looking for a child *)
LandWall(j) ==
    /\ phase = "drain"
    /\ j.kind = "wall"
    /\ Owns(j.key)
    /\ SetChild([child EXCEPT ![j.key] = "live"])
    /\ jobs' = jobs \ {j}
    /\ UNCHANGED <<mode, focused, triage, wall, lists, phase>>

(* The plan failed, its child did not spawn, or nobody owns it any more *)
DropJob(j) ==
    /\ phase = "drain"
    /\ jobs' = jobs \ {j}
    /\ UNCHANGED <<mode, focused, child, triage, wall, lists, phase, strays>>

(* Mutant: pruning does not spare the focused session *)
SnapshotPrunesAll ==
    /\ phase = "drain"
    /\ listed' \in SUBSET Sessions
    /\ tiled' \in {t \in SUBSET listed' : Cardinality(t) <= MaxTiles}
    /\ SetChild(Without(child, {k \in Sessions : child[k] = "exited"}))
    /\ UNCHANGED <<mode, focused, triage, wall, jobs, phase>>

(* apply_snapshot and its prune_exited *)
Snapshot ==
    /\ phase = "drain"
    /\ listed' \in SUBSET Sessions
    /\ tiled' \in {t \in SUBSET listed' : Cardinality(t) <= MaxTiles}
    /\ SetChild(Without(child, {k \in Sessions : child[k] = "exited" /\ k # focused}))
    /\ UNCHANGED <<mode, focused, triage, wall, jobs, phase>>

(* Tiles come and go between listings: the recency window, a filter, a fold *)
Retile ==
    /\ phase = "drain"
    /\ tiled' \in {t \in SUBSET listed : Cardinality(t) <= MaxTiles}
    /\ UNCHANGED <<mode, focused, child, triage, wall, jobs, listed, phase, strays>>

(* The frame: prune_wall_tiles, then request_wall_joins *)
Expired == IF wallOn THEN requested \ tiled ELSE {}
Joinable == IF wallOn THEN {k \in tiled \ requested : ~ InFlight(jobs, "wall", k)} ELSE {}

Frame ==
    /\ phase = "drain"
    /\ phase' = "event"
    /\ SetChild(Without(child, Expired \ {focused}))
    /\ requested' = (requested \ Expired) \cup Joinable
    /\ jobs' = jobs \cup {[kind |-> "wall", key |-> k, triage |-> FALSE] : k \in Joinable}
    /\ WithinBound
    /\ UNCHANGED <<mode, focused, triage, wallOn, lists>>

-----------------------------------------------------------------------------
(* Input events: at most one, then the loop drains again *)

Handled == phase = "event" /\ phase' = "drain"

NoEvent ==
    /\ Handled
    /\ UNCHANGED <<mode, focused, child, triage, wall, jobs, lists, strays>>

(* Enter on a row, Ctrl+O on a tile, Attach or a session in the palette *)
Attach(k) ==
    /\ Handled
    /\ (mode = "list" /\ k \in listed) \/ mode = "modal"
    /\ mode' = "list"
    /\ jobs' = Submit(jobs, "focus", k, FALSE)
    /\ WithinBound
    /\ UNCHANGED <<focused, child, triage, wall, lists, strays>>

OpenModal ==
    /\ Handled
    /\ mode = "list"
    /\ mode' = "modal"
    /\ UNCHANGED <<focused, child, triage, wall, jobs, lists, strays>>

CloseModal ==
    /\ Handled
    /\ mode = "modal"
    /\ mode' = "list"
    /\ UNCHANGED <<focused, child, triage, wall, jobs, lists, strays>>

OpenWall ==
    /\ Handled
    /\ mode = "list"
    /\ ~ wallOn
    /\ wallOn' = TRUE
    /\ requested' = {}
    /\ UNCHANGED <<mode, focused, child, triage, jobs, lists, strays>>

(* close_wall; also from the compose box that floats over the wall *)
CloseWall ==
    /\ Handled
    /\ mode \in {"list", "modal"}
    /\ wallOn
    /\ mode' = "list"
    /\ wallOn' = FALSE
    /\ requested' = {}
    /\ SetChild(Without(child, requested \ {focused}))
    /\ UNCHANGED <<focused, triage, jobs, lists>>

(* close_attached, and the archive chord that runs it first *)
Leave ==
    /\ Handled
    /\ mode = "attached"
    /\ SetChild(Released({focused}))
    /\ mode' = "list"
    /\ focused' = NoSession
    /\ UNCHANGED <<triage, wall, jobs, lists>>

(* Any other key on a child that has exited drops it, a wall tile's too *)
LeaveDead ==
    /\ Handled
    /\ mode = "attached"
    /\ child[focused] # "live"
    /\ SetChild(Without(child, {focused}))
    /\ mode' = "list"
    /\ focused' = NoSession
    /\ UNCHANGED <<triage, wall, jobs, lists>>

(* attach_triage_item, with preload_triage_next: item i of q, once the     *)
(* children are kids                                                       *)
AttachItem(q, i, kids) ==
    LET shown == IF kids[q[i]] = "none" THEN Submit(jobs, "focus", q[i], TRUE) ELSE jobs
        wanted == i < Len(q) /\ q[i + 1] \in listed /\ kids[q[i + 1]] = "none"
    IN /\ focused' = q[i]
       /\ jobs' = IF q[i] \notin listed THEN jobs
                  ELSE IF wanted THEN Submit(shown, "prefetch", q[i + 1], FALSE)
                  ELSE shown
       /\ WithinBound

(* triage_queue orders by waiting time: any order of any shown sessions *)
Orders(S) ==
    {q \in [1 .. Cardinality(S) -> S] : \A k \in S : \E i \in DOMAIN q : q[i] = k}

OpenTriage(q) ==
    /\ Handled
    /\ mode \in {"list", "modal"}
    /\ q # <<>>
    /\ mode' = "triage"
    /\ queue' = q
    /\ at' = 1
    /\ AttachItem(q, 1, child)
    /\ UNCHANGED <<child, wall, lists, strays>>

(* Mutants: closing the queue keeps its prefetched child, or its index *)
CloseTriageKeepsNext ==
    /\ Handled
    /\ mode = "triage"
    /\ SetChild(Released({focused}))
    /\ mode' = "list"
    /\ focused' = NoSession
    /\ queue' = <<>>
    /\ at' = 0
    /\ UNCHANGED <<wall, jobs, lists>>

CloseTriageKeepsIndex ==
    /\ Handled
    /\ mode = "triage"
    /\ SetChild(Released({focused, NextItem}))
    /\ mode' = "list"
    /\ focused' = NoSession
    /\ queue' = <<>>
    /\ UNCHANGED <<at, wall, jobs, lists>>

CloseTriage ==
    /\ Handled
    /\ mode = "triage"
    /\ SetChild(Released({focused, NextItem}))
    /\ mode' = "list"
    /\ focused' = NoSession
    /\ queue' = <<>>
    /\ at' = 0
    /\ UNCHANGED <<wall, jobs, lists>>

(* skip_triage_item; running off the end closes the queue *)
Skip ==
    /\ Handled
    /\ mode = "triage"
    /\ HasNext
    /\ SetChild(Released({Current}))
    /\ at' = at + 1
    /\ AttachItem(queue, at + 1, Released({Current}))
    /\ UNCHANGED <<mode, queue, wall, lists>>

(* archive_triage_item: a session that left the listing stays where it is *)
Archive ==
    /\ mode = "triage"
    /\ Current \in listed
    /\ Skip \/ (~ HasNext /\ CloseTriage)

(* back_triage_item releases the item it leaves and nothing else *)
Back ==
    /\ Handled
    /\ mode = "triage"
    /\ at > 1
    /\ child' = Released({Current})
    /\ strays' = {k \in Sessions : k \in strays \cup {NextItem} /\ child'[k] # "none"}
    /\ at' = at - 1
    /\ AttachItem(queue, at - 1, Released({Current}))
    /\ UNCHANGED <<mode, queue, wall, lists>>

ChildExits(k) ==
    /\ child[k] = "live"
    /\ child' = [child EXCEPT ![k] = "exited"]
    /\ UNCHANGED <<mode, focused, triage, wall, jobs, lists, phase, strays>>

Land(j) == LandFocus(j) \/ LandPrefetch(j) \/ LandWall(j) \/ DropJob(j)

Input ==
    \/ NoEvent
    \/ \E k \in Sessions : Attach(k)
    \/ OpenModal
    \/ CloseModal
    \/ OpenWall
    \/ CloseWall
    \/ Leave
    \/ LeaveDead
    \/ \E S \in SUBSET listed : \E q \in Orders(S) : OpenTriage(q)
    \/ CloseTriage
    \/ Archive
    \/ Skip
    \/ Back

Next ==
    \/ \E j \in jobs : Land(j)
    \/ Snapshot
    \/ Retile
    \/ Frame
    \/ Input
    \/ \E k \in Sessions : ChildExits(k)

Spec == Init /\ [][Next]_vars

-----------------------------------------------------------------------------
(* Why a child may be held: it is on screen, the wall owns it, or it is    *)
(* the one item triage looks ahead to                                      *)
Held(k) == k = focused \/ Owns(k) \/ (mode = "triage" /\ k = NextItem)

(* Safety: "nothing lingers here once it is off screen" (Ui.attached), and *)
(* "the current session and only its immediate successor may be attached". *)
NothingLingers == \A k \in Sessions : child[k] # "none" => Held(k)

(* Safety: stepping back is the only way a child is left behind: every     *)
(* other path, with attaches, joins and prefetches landing late, a tile    *)
(* expiring under a zoom and the wall closing over a queue, drops it.      *)
OnlyStepsBackLinger ==
    \A k \in Sessions : child[k] # "none" => Held(k) \/ k \in strays

(* Safety: keys go to a child that is there: the full screen view always   *)
(* has one, the triage panel always points at its current item.            *)
KeysReachWhatIsShown ==
    /\ mode = "attached" => focused # NoSession /\ child[focused] # "none"
    /\ mode = "triage" => focused = Current
    /\ mode \in {"list", "modal"} => focused = NoSession

(* Action property: landing takes the keyboard from the list alone; over a *)
(* full screen session, a queue or a modal it changes no focus.            *)
LandingStealsNothing ==
    [][mode # "list" /\ phase = "drain"
          => focused' = focused /\ mode' = mode]_vars
=============================================================================
