----------------------------- MODULE SpawnPins ------------------------------
(***************************************************************************)
(* The sessions a viewer starts itself.  Only a codex exec run hands back  *)
(* a pid, and only such a run is recorded in viewer.db; its session is a   *)
(* companion, which the list hides unless the record pins it.  A record is *)
(* written after the process was started, is resolved by the first viewer  *)
(* that sees a session of the same folder and time, expires when nobody    *)
(* does, and once resolved is pruned when it is old and its session gone.  *)
(*                                                                         *)
(* Every viewer, terminal or companion server, does all of this on each    *)
(* listing it applies, one database statement at a time, between those of  *)
(* the others.  The listing it applies is the last the provider answered:  *)
(* empty until the first answer, older while the provider fails.           *)
(***************************************************************************)
EXTENDS Integers, FiniteSets

CONSTANTS Viewers,    \* terminals and companion servers on one viewer.db
          Spawns,     \* codex exec runs started from a viewer
          Sessions,   \* codex exec sessions, of a viewer or of a script
          Folders,    \* working directories
          NoSession,  \* session_id IS NULL
          NoSpawn,    \* no row under this id
          Nobody, Nowhere,  \* of a spawn or a session yet to come
          Before,     \* the 2 s a session may be older than its record
          After,      \* the 30 s it may be younger
          Abandon,    \* SPAWN_ABANDON_MS
          Retention,  \* PRUNE_RETENTION_WINDOW_MS
          Lag,        \* oldest listing a viewer that has one applies
          LaunchBy,   \* bound: nothing is started or created later
          MaxNow,     \* bound: the clock stops here
          MaxFaults   \* bound: crashes and failed statements

ASSUME NameAssumption == /\ NoSession \notin Sessions
                         /\ NoSpawn \notin Spawns
                         /\ IsFiniteSet(Spawns)
                         /\ Nobody \notin Viewers
                         /\ Nowhere \notin Folders
ASSUME TimeAssumption ==
    /\ {Before, After, Abandon, Retention, Lag, LaunchBy, MaxNow, MaxFaults} \subseteq Nat
    /\ Abandon <= Retention
(* A provider fails for less than the nine and a half minutes between the  *)
(* end of a record's window and its expiry                                 *)
ASSUME LagAssumption == Lag + After <= Abandon

VARIABLES now,      \* the wall clock
          spawn,    \* the processes started
          session,  \* the provider's sessions
          record,   \* the table spawned, by rowid
          view,     \* per viewer: its listing and the pass over it
          shown,    \* per viewer: exec sessions the pass does not hide
          faults    \* faults taken so far

vars == <<now, spawn, session, record, view, shown, faults>>

Never == -1

(* A process runs, its viewer still has to write the record, or has        *)
Spawn == [state : {"none", "started", "over"}, by : Viewers \cup {Nobody},
          folder : Folders \cup {Nowhere}, at : Nat]

Session == [state : {"none", "here", "gone"}, folder : Folders \cup {Nowhere},
            created : Nat]

Ids == 1 .. Cardinality(Spawns)

(* cwd, pid and spawned_at_ms are those of the spawn, and never change     *)
Record == [of : Spawns \cup {NoSpawn}, session : Sessions \cup {NoSession}]

(* Mutant: the columns of an absent row are swapped *)
NoRecordSwapped == [of |-> NoSession, session |-> NoSpawn]

NoRecord == [of |-> NoSpawn, session |-> NoSession]

(* A row as a pass read it; unresolved ones all read the same session      *)
Reading == [id : Ids, row : Record]

Steps == {"idle", "pinned", "settling", "pruning", "down"}

(* listed, taken: the last good listing and its time; clock: the time the  *)
(* pass goes by; todo, doomed: the records it means to settle or to prune  *)
View == [pc : Steps, listed : SUBSET Sessions, taken : Nat \cup {Never},
         clock : Nat, todo : SUBSET Reading, doomed : SUBSET Reading]

Fresh == [pc |-> "idle", listed |-> {}, taken |-> Never,
          clock |-> 0, todo |-> {}, doomed |-> {}]

TypeOK ==
    /\ now \in Nat
    /\ spawn \in [Spawns -> Spawn]
    /\ session \in [Sessions -> Session]
    /\ record \in [Ids -> Record]
    /\ view \in [Viewers -> View]
    /\ shown \in [Viewers -> SUBSET Sessions]
    /\ faults \in Nat

Init ==
    /\ now = 0
    /\ spawn = [p \in Spawns |-> [state |-> "none", by |-> Nobody,
                                  folder |-> Nowhere, at |-> 0]]
    /\ session = [s \in Sessions |-> [state |-> "none", folder |-> Nowhere,
                                      created |-> 0]]
    /\ record = [id \in Ids |-> NoRecord]
    /\ view = [v \in Viewers |-> Fresh]
    /\ shown = [v \in Viewers |-> {}]
    /\ faults = 0

-----------------------------------------------------------------------------
(* Matching *)

Here == {s \in Sessions : session[s].state = "here"}

Used == {id \in Ids : record[id].of # NoSpawn}

Resolved == {id \in Used : record[id].session # NoSession}

Fits(p, s) == /\ session[s].folder = spawn[p].folder
              /\ session[s].created \in spawn[p].at - Before .. spawn[p].at + After

Apart(p, s) == IF session[s].created < spawn[p].at
               THEN spawn[p].at - session[s].created
               ELSE session[s].created - spawn[p].at

Fitting(p, rows) == {s \in rows : Fits(p, s)}

(* The nearest in time; of several, the first listed, any order of which   *)
(* the model allows                                                        *)
Nearest(p, fits) == {s \in fits : \A other \in fits : Apart(p, s) <= Apart(p, other)}

-----------------------------------------------------------------------------
(* Starting a session *)

(* The stamp is taken before the provider is started *)
Launch(v, p, f) ==
    /\ view[v].pc # "down"
    /\ spawn[p].state = "none"
    /\ now <= LaunchBy
    /\ spawn' = [spawn EXCEPT ![p] = [state |-> "started", by |-> v, folder |-> f, at |-> now]]
    /\ UNCHANGED <<now, session, record, view, shown, faults>>

(* By a run of a viewer's, or of a script's in the same folder *)
Appear(s, f) ==
    /\ session[s].state = "none"
    /\ now <= LaunchBy
    /\ session' = [session EXCEPT ![s] = [state |-> "here", folder |-> f, created |-> now]]
    /\ UNCHANGED <<now, spawn, record, view, shown, faults>>

(* Its files are deleted, or it is archived *)
Vanish(s) ==
    /\ session[s].state = "here"
    /\ session' = [session EXCEPT ![s].state = "gone"]
    /\ UNCHANGED <<now, spawn, record, view, shown, faults>>

(* The table has no AUTOINCREMENT: the next id is one more than the        *)
(* largest in use, and an id deleted from the end is given out again       *)
RecordSpawn(p, id) ==
    /\ spawn[p].state = "started"
    /\ id \notin Used
    /\ \A used \in Used : used < id
    /\ id - 1 \in Used \cup {0}
    /\ record' = [record EXCEPT ![id] = [of |-> p, session |-> NoSession]]
    /\ spawn' = [spawn EXCEPT ![p].state = "over"]
    /\ UNCHANGED <<now, session, view, shown, faults>>

-----------------------------------------------------------------------------
(* A pass over a listing *)

Look(v, changed) ==
    /\ view' = [view EXCEPT ![v] = changed]
    /\ UNCHANGED <<now, spawn, session>>

(* A statement that fails changes nothing and returns nothing *)
Statement(ok) == /\ ~ ok => faults < MaxFaults
                 /\ faults' = IF ok THEN faults ELSE faults + 1

(* A listing that fails leaves the last good one where it is; one that     *)
(* lands during a pass waits in its channel for the next                   *)
List(v) ==
    /\ view[v].pc = "idle"
    /\ Look(v, [view[v] EXCEPT !.listed = Here, !.taken = now])
    /\ UNCHANGED <<record, shown, faults>>

(* Mutant: a viewer pins only what it spawned itself *)
PinnedOwn(v) == {s \in view[v].listed :
                     \E id \in Used : record[id].session = s /\ spawn[record[id].of].by = v}

Pinned(v) == {s \in view[v].listed : \E id \in Used : record[id].session = s}

(* viewer_state reads the pins before anything is resolved *)
ReadPins(v, ok) ==
    /\ view[v].pc = "idle"
    /\ Statement(ok)
    /\ Look(v, [view[v] EXCEPT !.pc = "pinned"])
    /\ shown' = [shown EXCEPT ![v] = IF ok THEN Pinned(v) ELSE {}]
    /\ UNCHANGED record

Read(id) == [id |-> id, row |-> record[id]]

ReadUnresolved(v, ok) ==
    /\ view[v].pc = "pinned"
    /\ Statement(ok)
    /\ Look(v, [view[v] EXCEPT
                  !.pc = "settling", !.clock = now,
                  !.todo = IF ok THEN {Read(id) : id \in Used \ Resolved} ELSE {}])
    /\ UNCHANGED <<record, shown>>

(* An id that is gone by now is updated or deleted in vain *)
Resolve(id, s) ==
    record' = IF id \in Used THEN [record EXCEPT ![id].session = s] ELSE record

Delete(id) == record' = [record EXCEPT ![id] = NoRecord]

(* Mutant: a record that matches nothing is deleted at once *)
ExpiredAtOnce(v, p) == view[v].clock >= spawn[p].at

(* Mutant: a record is left to the viewer that wrote it *)
ExpiredOwn(v, p) == spawn[p].by = v /\ view[v].clock - spawn[p].at > Abandon

Expired(v, p) == view[v].clock - spawn[p].at > Abandon

(* A record that matches is resolved, one that does not expires in time *)
Settle(v, read, ok) ==
    /\ view[v].pc = "settling"
    /\ read \in view[v].todo
    /\ Look(v, [view[v] EXCEPT !.todo = @ \ {read}])
    /\ Statement(ok)
    /\ UNCHANGED shown
    /\ LET p == read.row.of
           fits == Fitting(p, view[v].listed)
       IN  \/ ok /\ \E s \in Nearest(p, fits) : Resolve(read.id, s)
           \/ ok /\ fits = {} /\ Expired(v, p) /\ Delete(read.id)
           \/ /\ ok => fits = {} /\ ~ Expired(v, p)
              /\ UNCHANGED record

(* Resolved, older than the retention, and not in the listing *)
Prunable(v) == {id \in Resolved : /\ spawn[record[id].of].at < now - Retention
                                  /\ record[id].session \notin view[v].listed}

(* The pass is over when nothing is left to delete *)
Doom(v, doomed) ==
    Look(v, [view[v] EXCEPT !.pc = IF doomed = {} THEN "idle" ELSE "pruning",
                            !.clock = 0, !.doomed = doomed])

SelectPrunable(v, ok) ==
    /\ view[v].pc = "settling"
    /\ view[v].todo = {}
    /\ Statement(ok)
    /\ Doom(v, IF ok THEN {Read(id) : id \in Prunable(v)} ELSE {})
    /\ UNCHANGED <<record, shown>>

(* The first failure ends the prune *)
Prune(v, read, ok) ==
    /\ view[v].pc = "pruning"
    /\ read \in view[v].doomed
    /\ Doom(v, IF ok THEN view[v].doomed \ {read} ELSE {})
    /\ Statement(ok)
    /\ IF ok THEN Delete(read.id) ELSE UNCHANGED record
    /\ UNCHANGED shown

-----------------------------------------------------------------------------
(* Viewers and time *)

(* A record that was not yet written is never written *)
Crash(v) ==
    /\ view[v].pc # "down"
    /\ faults < MaxFaults
    /\ view' = [view EXCEPT ![v] = [Fresh EXCEPT !.pc = "down"]]
    /\ shown' = [shown EXCEPT ![v] = {}]
    /\ spawn' = [p \in Spawns |-> IF spawn[p].state = "started" /\ spawn[p].by = v
                                  THEN [spawn[p] EXCEPT !.state = "over"] ELSE spawn[p]]
    /\ faults' = faults + 1
    /\ UNCHANGED <<now, session, record>>

Restart(v) ==
    /\ view[v].pc = "down"
    /\ view' = [view EXCEPT ![v] = Fresh]
    /\ UNCHANGED <<now, spawn, session, record, shown, faults>>

Recent(time) == time # Never => now - time < Lag

Tick ==
    /\ now < MaxNow
    /\ \A v \in Viewers : Recent(view[v].taken)
    /\ now' = now + 1
    /\ UNCHANGED <<spawn, session, record, view, shown, faults>>

Pass(v) ==
    \E ok \in BOOLEAN :
        \/ ReadPins(v, ok)
        \/ ReadUnresolved(v, ok)
        \/ \E read \in view[v].todo : Settle(v, read, ok)
        \/ \E read \in view[v].doomed : Prune(v, read, ok)
        \/ SelectPrunable(v, ok)

Next ==
    \/ \E v \in Viewers : List(v) \/ Pass(v) \/ Crash(v) \/ Restart(v)
    \/ \E v \in Viewers, p \in Spawns, f \in Folders : Launch(v, p, f)
    \/ \E s \in Sessions, f \in Folders : Appear(s, f)
    \/ \E s \in Sessions : Vanish(s)
    \/ \E p \in Spawns, id \in Ids : RecordSpawn(p, id)
    \/ Tick

(* A viewer lists every second and applies what it has; the clock runs     *)
Fairness ==
    /\ WF_vars(Tick)
    /\ \A v \in Viewers : SF_vars(List(v)) /\ WF_vars(Pass(v))

Spec == Init /\ [][Next]_vars /\ Fairness

-----------------------------------------------------------------------------
(* Properties *)

Lost(id) == record[id].of # NoSpawn /\ record'[id] = NoRecord

(* A viewer whose provider never answered deletes by an empty listing      *)
Blind(v) == view[v].taken = Never

(* What v read under this id is still what it is about to delete: the id   *)
(* was not given out again, nor the row resolved again                     *)
Means(v, id) ==
    \/ /\ view[v].pc = "settling"
       /\ \E read \in view[v].todo : read.id = id /\ read.row.of = record[id].of
    \/ /\ view[v].pc = "pruning"
       /\ Read(id) \in view[v].doomed

Acts(v) == view'[v] # view[v]

(* However stale a viewer's reading of the table is, and whatever the      *)
(* others resolve and delete meanwhile, a record is not deleted while its  *)
(* session exists: neither one already resolved to it, nor one for which   *)
(* it waits within the window.  Two cases are excepted, and shown to be    *)
(* real by NoPinIsLost and OnlyOldRecordsGo: a viewer without a listing,   *)
(* and an id that was given out again.  (state.rs:1010, main.rs:1680)      *)
RecordsOutliveListings ==
    [][\A id \in Ids :
           Lost(id) => \/ \E v \in Viewers : Acts(v) /\ (Blind(v) \/ ~ Means(v, id))
                       \/ \A s \in Here : Fits(record[id].of, s)
                                            => record[id].session \notin {s, NoSession}]_vars

(* A spawn's record is resolved or expires, whoever spawned it and whoever *)
(* dies, while one viewer stays up: nothing waits in the table for a       *)
(* process that is gone.  (main.rs:1680, lib.rs:791)                       *)
SpawnsSettle ==
    \A id \in Ids :
        (id \in Used \ Resolved) ~> (\/ id \notin Used \ Resolved
                                     \/ \A v \in Viewers : view[v].pc = "down")

(* The session a record came to name is shown by every viewer that stays   *)
(* up, also by one that resolved it only after it had read the pins, for   *)
(* as long as the record stands and the session exists.  (main.rs:1673)    *)
PinsShow ==
    \A s \in Sessions, v \in Viewers :
        (s \in Here /\ \E id \in Used : record[id].session = s)
            ~> (\/ s \in shown[v]
                \/ s \notin Here
                \/ view[v].pc = "down"
                \/ \A id \in Used : record[id].session # s)

(* The comment at state.rs:1013: a still-existing session keeps its pin no *)
(* matter how old the row is.                                              *)
NoPinIsLost ==
    [][\A id \in Ids : id \in Resolved /\ Lost(id) => record[id].session \notin Here]_vars

(* The comment at state.rs:1076: unresolved records go when older than ten *)
(* minutes.                                                                *)
OnlyOldRecordsGo ==
    [][\A id \in Used \ Resolved : Lost(id) => now - spawn[record[id].of].at > Abandon]_vars

=============================================================================
