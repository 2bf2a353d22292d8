-------------------------- MODULE SpawnPinsProofs ---------------------------
(***************************************************************************)
(* Proofs about the spawn records: the type invariant, and that no record  *)
(* is lost while its session exists but for the two cases the property     *)
(* names.  The argument: a listing is never older than Lag, and holds      *)
(* every session created before it was taken that is still there; so once  *)
(* a record is old enough to expire or to be pruned, its whole window lies *)
(* before the listing the pass goes by.                                    *)
(***************************************************************************)
EXTENDS SpawnPins, TLAPS

(* What a row or a reading of it is about was started, and so its stamp    *)
(* and folder stand                                                        *)
Begun(p) == p \in Spawns /\ spawn[p].state # "none"

RowsAreBegun == \A id \in Ids : record[id].of # NoSpawn => Begun(record[id].of)

ReadingsAreBegun ==
    \A v \in Viewers : \A read \in view[v].todo \cup view[v].doomed : Begun(read.row.of)

NoSessionFromTheFuture == \A s \in Sessions : session[s].created <= now

PassesArePast == \A v \in Viewers : view[v].clock <= now

(* A listing is at most Lag old                                            *)
ListingsAreRecent ==
    \A v \in Viewers : view[v].taken # Never => /\ view[v].taken <= now
                                                /\ now - view[v].taken <= Lag

(* What was there before it was taken, and still is, is in it              *)
ListingsAreComplete ==
    \A v \in Viewers : view[v].taken # Never =>
        \A s \in Here : session[s].created < view[v].taken => s \in view[v].listed

(* What a pass means to prune is old, resolved, and not in its listing     *)
DoomedAreOld ==
    \A v \in Viewers : \A read \in view[v].doomed :
        /\ spawn[read.row.of].at < now - Retention
        /\ read.row.session # NoSession
        /\ read.row.session \notin view[v].listed

(* One reading of the table says one thing about an id                     *)
ReadingsDiffer ==
    \A v \in Viewers :
        /\ \A a, b \in view[v].todo : a.id = b.id => a = b
        /\ \A a, b \in view[v].doomed : a.id = b.id => a = b

IdlePrunesNothing ==
    \A v \in Viewers : view[v].pc # "pruning" => view[v].doomed = {}

IInv ==
    /\ TypeOK
    /\ ReadingsDiffer
    /\ IdlePrunesNothing
    /\ RowsAreBegun
    /\ ReadingsAreBegun
    /\ NoSessionFromTheFuture
    /\ PassesArePast
    /\ ListingsAreRecent
    /\ ListingsAreComplete
    /\ DoomedAreOld

-----------------------------------------------------------------------------
(* Types *)

LEMMA InitTyped == Init => TypeOK
  BY NameAssumption DEF Init, TypeOK, Spawn, Session, Record, NoRecord, View, Fresh, Steps

(* The shapes of record a pass leaves behind *)
LEMMA StartedTyped ==
    ASSUME NEW w \in View, NEW step \in Steps
    PROVE  [w EXCEPT !.pc = step] \in View
  BY DEF View

LEMMA ListedTyped ==
    ASSUME NEW w \in View, NEW rows \in SUBSET Sessions, NEW time \in Nat
    PROVE  [w EXCEPT !.listed = rows, !.taken = time] \in View
  BY DEF View

LEMMA ReadTyped ==
    ASSUME NEW w \in View, NEW time \in Nat, NEW todo \in SUBSET Reading
    PROVE  [w EXCEPT !.pc = "settling", !.clock = time, !.todo = todo] \in View
  BY DEF View, Steps

LEMMA SettledTyped ==
    ASSUME NEW w \in View, NEW todo \in SUBSET Reading
    PROVE  [w EXCEPT !.todo = todo] \in View
  BY DEF View

LEMMA DoomedTyped ==
    ASSUME NEW w \in View, NEW step \in Steps, NEW doomed \in SUBSET Reading
    PROVE  [w EXCEPT !.pc = step, !.clock = 0, !.doomed = doomed] \in View
  BY DEF View

LEMMA FreshTyped == Fresh \in View /\ [Fresh EXCEPT !.pc = "down"] \in View
  BY DEF View, Fresh, Steps

LEMMA RowsTyped ==
    ASSUME TypeOK, NEW ids \in SUBSET Ids
    PROVE  {Read(id) : id \in ids} \in SUBSET Reading
  BY DEF TypeOK, Read, Reading

LEMMA DeleteTyped ==
    ASSUME TypeOK, NEW id \in Ids, Delete(id)
    PROVE  record' \in [Ids -> Record]
  BY NameAssumption DEF TypeOK, Delete, NoRecord, Record

LEMMA ResolveTyped ==
    ASSUME TypeOK, NEW id \in Ids, NEW s \in Sessions, Resolve(id, s)
    PROVE  record' \in [Ids -> Record]
  BY DEF TypeOK, Resolve, Record

LEMMA StatementTyped ==
    ASSUME TypeOK, NEW ok \in BOOLEAN, Statement(ok)
    PROVE  faults' \in Nat
  BY DEF TypeOK, Statement

(* A viewer's pass touches its view, what it shows, and the table *)
LEMMA PassTyped ==
    ASSUME TypeOK, NEW v \in Viewers, NEW changed \in View, Look(v, changed),
           record' \in [Ids -> Record], shown' \in [Viewers -> SUBSET Sessions],
           faults' \in Nat
    PROVE  TypeOK'
  BY DEF TypeOK, Look

LEMMA SettleChoices ==
    ASSUME NEW v, NEW read, NEW ok \in BOOLEAN, Settle(v, read, ok)
    PROVE  \/ \E s \in Fitting(read.row.of, view[v].listed) : ok /\ Resolve(read.id, s)
           \/ /\ ok
              /\ Fitting(read.row.of, view[v].listed) = {}
              /\ Expired(v, read.row.of)
              /\ Delete(read.id)
           \/ UNCHANGED record
  BY DEF Settle, Nearest

LEMMA SettleTyped ==
    ASSUME TypeOK, NEW v \in Viewers, NEW read \in view[v].todo, NEW ok \in BOOLEAN,
           Settle(v, read, ok)
    PROVE  TypeOK'
<1>1. /\ view[v] \in View
      /\ read.id \in Ids
      /\ view[v].todo \ {read} \in SUBSET Reading
  BY DEF TypeOK, View, Reading
<1>2. [view[v] EXCEPT !.todo = view[v].todo \ {read}] \in View
  BY <1>1, SettledTyped
<1>3. Look(v, [view[v] EXCEPT !.todo = view[v].todo \ {read}])
  BY DEF Settle
<1>4. record' \in [Ids -> Record]
  <2>1. CASE UNCHANGED record
    BY <2>1 DEF TypeOK
  <2>2. CASE Delete(read.id)
    BY <1>1, <2>2, DeleteTyped
  <2>3. ASSUME NEW s \in Fitting(read.row.of, view[v].listed), Resolve(read.id, s)
        PROVE  record' \in [Ids -> Record]
    <3>1. s \in Sessions
      BY <1>1 DEF Fitting, View
    <3> QED BY <1>1, <2>3, <3>1, ResolveTyped
  <2> QED BY <2>1, <2>2, <2>3, SettleChoices
<1>5. faults' \in Nat
  BY StatementTyped DEF Settle
<1>6. shown' \in [Viewers -> SUBSET Sessions]
  BY DEF Settle, TypeOK
<1> QED BY <1>2, <1>3, <1>4, <1>5, <1>6, PassTyped

LEMMA DoomTyped ==
    ASSUME TypeOK, NEW v \in Viewers, NEW doomed \in SUBSET Reading, Doom(v, doomed),
           record' \in [Ids -> Record], UNCHANGED shown, faults' \in Nat
    PROVE  TypeOK'
<1> DEFINE step == IF doomed = {} THEN "idle" ELSE "pruning"
           changed == [view[v] EXCEPT !.pc = step, !.clock = 0, !.doomed = doomed]
<1>1. step \in Steps
  BY DEF Steps
<1>2. view[v] \in View
  BY DEF TypeOK
<1>3. Look(v, changed)
  BY DEF Doom
<1> HIDE DEF step
<1>4. changed \in View
  BY <1>1, <1>2, DoomedTyped
<1>5. shown' \in [Viewers -> SUBSET Sessions]
  BY DEF TypeOK
<1> HIDE DEF changed
<1> QED BY <1>3, <1>4, <1>5, PassTyped

LEMMA NextTyped == TypeOK /\ [Next]_vars => TypeOK'
<1> SUFFICES ASSUME TypeOK, [Next]_vars PROVE TypeOK'
  OBVIOUS
<1>1. ASSUME NEW v \in Viewers PROVE view[v] \in View
  BY DEF TypeOK
<1>2. ASSUME NEW v \in Viewers, List(v) PROVE TypeOK'
  <2>1. Here \in SUBSET Sessions /\ now \in Nat
    BY DEF Here, TypeOK
  <2>2. [view[v] EXCEPT !.listed = Here, !.taken = now] \in View
    BY <1>1, <2>1, ListedTyped
  <2>3. UNCHANGED <<record, shown, faults>>
        /\ Look(v, [view[v] EXCEPT !.listed = Here, !.taken = now])
    BY <1>2 DEF List
  <2> QED BY <2>2, <2>3, PassTyped DEF TypeOK
<1>3. ASSUME NEW v \in Viewers, NEW ok \in BOOLEAN, ReadPins(v, ok) PROVE TypeOK'
  <2>1. [view[v] EXCEPT !.pc = "pinned"] \in View
    BY <1>1, StartedTyped DEF Steps
  <2>2. Look(v, [view[v] EXCEPT !.pc = "pinned"]) /\ UNCHANGED record
    BY <1>3 DEF ReadPins
  <2>3. Pinned(v) \subseteq Sessions
    BY <1>1 DEF Pinned, View
  <2>4. shown' \in [Viewers -> SUBSET Sessions]
    BY <1>3, <2>3 DEF ReadPins, TypeOK
  <2>5. faults' \in Nat
    BY <1>3, StatementTyped DEF ReadPins
  <2>6. record' \in [Ids -> Record]
    BY <2>2 DEF TypeOK
  <2> QED BY <2>1, <2>2, <2>4, <2>5, <2>6, PassTyped
<1>4. ASSUME NEW v \in Viewers, NEW ok \in BOOLEAN, ReadUnresolved(v, ok) PROVE TypeOK'
  <2> DEFINE todo == IF ok THEN {Read(id) : id \in Used \ Resolved} ELSE {}
             changed == [view[v] EXCEPT !.pc = "settling", !.clock = now, !.todo = todo]
  <2>1. todo \in SUBSET Reading
    BY RowsTyped DEF Used
  <2>2. now \in Nat
    BY DEF TypeOK
  <2>3. Look(v, changed) /\ UNCHANGED <<record, shown>>
    BY <1>4 DEF ReadUnresolved
  <2> HIDE DEF todo
  <2>4. changed \in View
    BY <1>1, <2>1, <2>2, ReadTyped
  <2>5. faults' \in Nat
    BY <1>4, StatementTyped DEF ReadUnresolved
  <2>6. record' \in [Ids -> Record] /\ shown' \in [Viewers -> SUBSET Sessions]
    BY <2>3 DEF TypeOK
  <2> HIDE DEF changed
  <2> QED BY <2>3, <2>4, <2>5, <2>6, PassTyped
<1>5. ASSUME NEW v \in Viewers, NEW ok \in BOOLEAN, SelectPrunable(v, ok) PROVE TypeOK'
  <2> DEFINE doomed == IF ok THEN {Read(id) : id \in Prunable(v)} ELSE {}
  <2>1. doomed \in SUBSET Reading
    BY RowsTyped DEF Prunable, Resolved, Used
  <2>2. Doom(v, doomed) /\ UNCHANGED <<record, shown>>
    BY <1>5 DEF SelectPrunable
  <2>3. faults' \in Nat
    BY <1>5, StatementTyped DEF SelectPrunable
  <2> HIDE DEF doomed
  <2>4. record' \in [Ids -> Record]
    BY <2>2 DEF TypeOK
  <2> QED BY <2>1, <2>2, <2>3, <2>4, DoomTyped
<1>6. ASSUME NEW v \in Viewers, NEW ok \in BOOLEAN, NEW read \in view[v].doomed,
             Prune(v, read, ok)
      PROVE  TypeOK'
  <2> DEFINE doomed == IF ok THEN view[v].doomed \ {read} ELSE {}
  <2>1. doomed \in SUBSET Reading /\ read.id \in Ids
    BY <1>1 DEF View, Reading
  <2>2. Doom(v, doomed) /\ UNCHANGED shown
    BY <1>6 DEF Prune
  <2>3. faults' \in Nat
    BY <1>6, StatementTyped DEF Prune
  <2>4. record' \in [Ids -> Record]
    <3>1. Delete(read.id) \/ UNCHANGED record
      BY <1>6 DEF Prune
    <3> QED BY <2>1, <3>1, DeleteTyped DEF TypeOK
  <2> HIDE DEF doomed
  <2> QED BY <2>1, <2>2, <2>3, <2>4, DoomTyped
<1>7. ASSUME NEW v \in Viewers, Crash(v) PROVE TypeOK'
  <2>1. view' \in [Viewers -> View]
    BY <1>7, FreshTyped DEF Crash, TypeOK
  <2>2. spawn' \in [Spawns -> Spawn]
    BY <1>7 DEF Crash, TypeOK, Spawn
  <2> QED BY <1>7, <2>1, <2>2 DEF Crash, TypeOK
<1>8. ASSUME NEW v \in Viewers, Restart(v) PROVE TypeOK'
  BY <1>8, FreshTyped DEF Restart, TypeOK
<1>9. ASSUME NEW v \in Viewers, NEW p \in Spawns, NEW f \in Folders, Launch(v, p, f)
      PROVE  TypeOK'
  BY <1>9 DEF Launch, TypeOK, Spawn
<1>10. ASSUME NEW s \in Sessions, NEW f \in Folders, Appear(s, f) PROVE TypeOK'
  BY <1>10 DEF Appear, TypeOK, Session
<1>11. ASSUME NEW s \in Sessions, Vanish(s) PROVE TypeOK'
  BY <1>11 DEF Vanish, TypeOK, Session
<1>12. ASSUME NEW p \in Spawns, NEW id \in Ids, RecordSpawn(p, id) PROVE TypeOK'
  BY <1>12 DEF RecordSpawn, TypeOK, Record, Spawn
<1>13. CASE Tick
  BY <1>13 DEF Tick, TypeOK
<1>14. CASE UNCHANGED vars
  BY <1>14 DEF vars, TypeOK
<1>15. ASSUME NEW v \in Viewers, Pass(v) PROVE TypeOK'
  BY <1>3, <1>4, <1>5, <1>6, <1>15, SettleTyped DEF Pass
<1> QED
  BY <1>2, <1>7, <1>8, <1>9, <1>10, <1>11, <1>12, <1>13, <1>14, <1>15 DEF Next

(* Every state of the program is well typed.  (state.rs:407)               *)
THEOREM TypeCorrect == Spec => []TypeOK
<1>1. Init => TypeOK
  BY InitTyped
<1>2. TypeOK /\ [Next]_vars => TypeOK'
  BY NextTyped
<1> QED BY <1>1, <1>2, PTL DEF Spec

-----------------------------------------------------------------------------
(* What a step may do *)

LEMMA PassLooks ==
    ASSUME NEW v \in Viewers, Pass(v)
    PROVE  /\ UNCHANGED <<now, spawn, session>>
           /\ \A w \in Viewers \ {v} : view'[w] = view[w] \/ view \notin [Viewers -> View]
<1>1. ASSUME NEW changed, Look(v, changed)
      PROVE  /\ UNCHANGED <<now, spawn, session>>
             /\ \A w \in Viewers \ {v} : view'[w] = view[w] \/ view \notin [Viewers -> View]
  BY <1>1 DEF Look
<1>2. \E changed : Look(v, changed)
  <2>1. ASSUME NEW ok \in BOOLEAN, ReadPins(v, ok) PROVE \E changed : Look(v, changed)
    BY <2>1 DEF ReadPins
  <2>2. ASSUME NEW ok \in BOOLEAN, ReadUnresolved(v, ok) PROVE \E changed : Look(v, changed)
    BY <2>2 DEF ReadUnresolved
  <2>3. ASSUME NEW ok \in BOOLEAN, NEW read, Settle(v, read, ok)
        PROVE  \E changed : Look(v, changed)
    BY <2>3 DEF Settle
  <2>4. ASSUME NEW ok \in BOOLEAN, NEW read, Prune(v, read, ok)
        PROVE  \E changed : Look(v, changed)
    BY <2>4 DEF Prune, Doom
  <2>5. ASSUME NEW ok \in BOOLEAN, SelectPrunable(v, ok) PROVE \E changed : Look(v, changed)
    BY <2>5 DEF SelectPrunable, Doom
  <2> QED BY <2>1, <2>2, <2>3, <2>4, <2>5 DEF Pass
<1> QED BY <1>1, <1>2

LEMMA BegunStays ==
    ASSUME TypeOK, [Next]_vars, NEW p \in Spawns, Begun(p)
    PROVE  /\ Begun(p)'
           /\ spawn'[p].at = spawn[p].at
           /\ spawn'[p].folder = spawn[p].folder
<1>1. CASE UNCHANGED spawn
  BY <1>1 DEF Begun
<1>2. ASSUME NEW v \in Viewers, NEW q \in Spawns, NEW f \in Folders, Launch(v, q, f)
      PROVE  spawn'[p] = spawn[p]
  BY <1>2 DEF Launch, Begun, TypeOK
<1>3. ASSUME NEW q \in Spawns, NEW id \in Ids, RecordSpawn(q, id)
      PROVE  spawn'[p] \in {spawn[p], [spawn[p] EXCEPT !.state = "over"]}
  BY <1>3 DEF RecordSpawn, TypeOK
<1>4. ASSUME NEW v \in Viewers, Crash(v)
      PROVE  spawn'[p] \in {spawn[p], [spawn[p] EXCEPT !.state = "over"]}
  BY <1>4 DEF Crash
<1>5. ASSUME spawn'[p] \in {spawn[p], [spawn[p] EXCEPT !.state = "over"]}
      PROVE  /\ Begun(p)'
             /\ spawn'[p].at = spawn[p].at
             /\ spawn'[p].folder = spawn[p].folder
  BY <1>5 DEF Begun, TypeOK, Spawn
<1>6. \/ UNCHANGED spawn
      \/ \E v \in Viewers, q \in Spawns, f \in Folders : Launch(v, q, f)
      \/ \E q \in Spawns, id \in Ids : RecordSpawn(q, id)
      \/ \E v \in Viewers : Crash(v)
  BY PassLooks DEF Next, vars, List, Restart, Appear, Vanish, Tick, Look
<1> QED BY <1>1, <1>2, <1>3, <1>4, <1>5, <1>6 DEF Begun

(* Only recording a spawn makes a row about something else *)
LEMMA RowSteps ==
    ASSUME TypeOK, [Next]_vars, NEW id \in Ids
    PROVE  \/ record'[id].of \in {record[id].of, NoSpawn}
           \/ \E p \in Spawns : RecordSpawn(p, id) /\ record'[id].of = p
<1>1. ASSUME NEW other \in Ids, Delete(other)
      PROVE  record'[id].of \in {record[id].of, NoSpawn}
  BY <1>1 DEF Delete, NoRecord, TypeOK
<1>2. ASSUME NEW other \in Ids, NEW s, Resolve(other, s)
      PROVE  record'[id].of \in {record[id].of, NoSpawn}
  BY <1>2 DEF Resolve, TypeOK, Record
<1>3. ASSUME NEW v \in Viewers, NEW ok \in BOOLEAN, NEW read \in view[v].todo,
             Settle(v, read, ok)
      PROVE  record'[id].of \in {record[id].of, NoSpawn}
  <2>1. read.id \in Ids
    BY DEF TypeOK, View, Reading
  <2> QED BY <1>1, <1>2, <1>3, <2>1, SettleChoices
<1>4. ASSUME NEW v \in Viewers, NEW ok \in BOOLEAN, NEW read \in view[v].doomed,
             Prune(v, read, ok)
      PROVE  record'[id].of \in {record[id].of, NoSpawn}
  <2>1. read.id \in Ids
    BY DEF TypeOK, View, Reading
  <2>2. Delete(read.id) \/ UNCHANGED record
    BY <1>4 DEF Prune
  <2> QED BY <1>1, <2>1, <2>2
<1>5. ASSUME NEW p \in Spawns, NEW other \in Ids, RecordSpawn(p, other)
      PROVE  \/ record'[id].of = record[id].of
             \/ RecordSpawn(p, id) /\ record'[id].of = p
  <2>1. CASE id = other
    <3>1. RecordSpawn(p, id)
      BY <1>5, <2>1
    <3> QED BY <3>1 DEF RecordSpawn, TypeOK
  <2>2. CASE id # other
    BY <1>5, <2>2 DEF RecordSpawn, TypeOK
  <2> QED BY <2>1, <2>2
<1>6. \/ UNCHANGED record
      \/ \E v \in Viewers, ok \in BOOLEAN :
             \/ \E read \in view[v].todo : Settle(v, read, ok)
             \/ \E read \in view[v].doomed : Prune(v, read, ok)
      \/ \E p \in Spawns, other \in Ids : RecordSpawn(p, other)
  BY DEF Next, vars, List, Pass, Crash, Restart, Launch, Appear, Vanish, Tick, ReadPins,
         ReadUnresolved, SelectPrunable
<1>7. CASE UNCHANGED record
  BY <1>7
<1>8. CASE \E v \in Viewers, ok \in BOOLEAN :
               \/ \E read \in view[v].todo : Settle(v, read, ok)
               \/ \E read \in view[v].doomed : Prune(v, read, ok)
  BY <1>3, <1>4, <1>8
<1>9. CASE \E p \in Spawns, other \in Ids : RecordSpawn(p, other)
  BY <1>5, <1>9
<1> QED BY <1>6, <1>7, <1>8, <1>9

(* The five ways a viewer's reading can change *)
SameListing(v) == /\ view'[v].listed = view[v].listed
                  /\ view'[v].taken = view[v].taken

Shrinks(v) == /\ SameListing(v)
              /\ view'[v].clock \in {view[v].clock, 0}
              /\ view'[v].todo \subseteq view[v].todo
              /\ view'[v].doomed \subseteq view[v].doomed

Lists(v) == /\ view'[v].listed = Here
            /\ view'[v].taken = now
            /\ view'[v].clock = view[v].clock
            /\ view'[v].todo = view[v].todo
            /\ view'[v].doomed = view[v].doomed
            /\ view[v].pc = "idle"
            /\ UNCHANGED <<now, spawn, session, record>>

Reads(v) == /\ SameListing(v)
            /\ view'[v].clock = now
            /\ view'[v].todo \subseteq {Read(id) : id \in Used}
            /\ view'[v].doomed = view[v].doomed
            /\ UNCHANGED <<now, spawn, session, record>>

Selects(v) == /\ SameListing(v)
              /\ view'[v].clock = 0
              /\ view'[v].todo = view[v].todo
              /\ view'[v].doomed \subseteq {Read(id) : id \in Prunable(v)}
              /\ UNCHANGED <<now, spawn, session, record>>

Resets(v) == /\ view'[v].taken = Never
             /\ view'[v].clock = 0
             /\ view'[v].todo = {}
             /\ view'[v].doomed = {}

LEMMA ViewSteps ==
    ASSUME TypeOK, [Next]_vars, NEW v \in Viewers
    PROVE  Shrinks(v) \/ Lists(v) \/ Reads(v) \/ Selects(v) \/ Resets(v)
<1>0. view[v] \in View
  BY DEF TypeOK
<1>1. ASSUME view'[v] = view[v] PROVE Shrinks(v)
  BY <1>1 DEF Shrinks, SameListing
<1>2. CASE List(v)
  <2>1. view'[v] = [view[v] EXCEPT !.listed = Here, !.taken = now]
    BY <1>2 DEF List, Look, TypeOK
  <2>2. UNCHANGED <<now, spawn, session, record>> /\ view[v].pc = "idle"
    BY <1>2 DEF List, Look
  <2>3. /\ view'[v].listed = Here /\ view'[v].taken = now
        /\ view'[v].clock = view[v].clock /\ view'[v].todo = view[v].todo
        /\ view'[v].doomed = view[v].doomed
    BY <1>0, <2>1 DEF View
  <2> QED BY <2>2, <2>3 DEF Lists
<1>3. ASSUME NEW ok \in BOOLEAN, ReadPins(v, ok) PROVE Shrinks(v)
  <2>1. view'[v] = [view[v] EXCEPT !.pc = "pinned"]
    BY <1>3 DEF ReadPins, Look, TypeOK
  <2> QED BY <1>0, <2>1 DEF Shrinks, SameListing, View
<1>4. ASSUME NEW ok \in BOOLEAN, ReadUnresolved(v, ok) PROVE Reads(v)
  <2> DEFINE todo == IF ok THEN {Read(id) : id \in Used \ Resolved} ELSE {}
  <2>1. view'[v] = [view[v] EXCEPT !.pc = "settling", !.clock = now, !.todo = todo]
    BY <1>4 DEF ReadUnresolved, Look, TypeOK
  <2>2. todo \subseteq {Read(id) : id \in Used}
    OBVIOUS
  <2>3. UNCHANGED <<now, spawn, session, record>>
    BY <1>4 DEF ReadUnresolved, Look
  <2> HIDE DEF todo
  <2> QED BY <1>0, <2>1, <2>2, <2>3 DEF Reads, SameListing, View
<1>5. ASSUME NEW ok \in BOOLEAN, NEW read \in view[v].todo, Settle(v, read, ok)
      PROVE  Shrinks(v)
  <2>1. view'[v] = [view[v] EXCEPT !.todo = view[v].todo \ {read}]
    BY <1>5 DEF Settle, Look, TypeOK
  <2> QED BY <1>0, <2>1 DEF Shrinks, SameListing, View
<1>6. ASSUME NEW ok \in BOOLEAN, NEW read \in view[v].doomed, Prune(v, read, ok)
      PROVE  Shrinks(v)
  <2> DEFINE doomed == IF ok THEN view[v].doomed \ {read} ELSE {}
             step == IF doomed = {} THEN "idle" ELSE "pruning"
  <2>1. view'[v] = [view[v] EXCEPT !.pc = step, !.clock = 0, !.doomed = doomed]
    BY <1>6 DEF Prune, Doom, Look, TypeOK
  <2>2. doomed \subseteq view[v].doomed
    OBVIOUS
  <2> HIDE DEF doomed, step
  <2> QED BY <1>0, <2>1, <2>2 DEF Shrinks, SameListing, View
<1>7. ASSUME NEW ok \in BOOLEAN, SelectPrunable(v, ok) PROVE Selects(v)
  <2> DEFINE doomed == IF ok THEN {Read(id) : id \in Prunable(v)} ELSE {}
             step == IF doomed = {} THEN "idle" ELSE "pruning"
  <2>1. view'[v] = [view[v] EXCEPT !.pc = step, !.clock = 0, !.doomed = doomed]
    BY <1>7 DEF SelectPrunable, Doom, Look, TypeOK
  <2>2. doomed \subseteq {Read(id) : id \in Prunable(v)}
    OBVIOUS
  <2>3. UNCHANGED <<now, spawn, session, record>>
    BY <1>7 DEF SelectPrunable, Doom, Look
  <2> HIDE DEF doomed, step
  <2> QED BY <1>0, <2>1, <2>2, <2>3 DEF Selects, SameListing, View
<1>8. CASE Crash(v) \/ Restart(v)
  <2>1. view'[v] = [Fresh EXCEPT !.pc = "down"] \/ view'[v] = Fresh
    BY <1>8 DEF Crash, Restart, TypeOK
  <2>2. Resets(v)
    BY <2>1 DEF Resets, Fresh
  <2> QED BY <2>2
<1>9. CASE Pass(v)
  BY <1>3, <1>4, <1>5, <1>6, <1>7, <1>9 DEF Pass
<1>10. \/ view'[v] = view[v]
       \/ List(v) \/ Pass(v) \/ Crash(v) \/ Restart(v)
  <2>1. ASSUME NEW w \in Viewers \ {v}, List(w) \/ Pass(w) \/ Crash(w) \/ Restart(w)
        PROVE  view'[v] = view[v]
    BY <2>1, PassLooks DEF List, Look, Crash, Restart, TypeOK
  <2>2. ASSUME ~ \E w \in Viewers : List(w) \/ Pass(w) \/ Crash(w) \/ Restart(w)
        PROVE  view'[v] = view[v]
    BY <2>2 DEF Next, vars, Launch, Appear, Vanish, RecordSpawn, Tick
  <2> QED BY <2>1, <2>2
<1> QED BY <1>1, <1>2, <1>8, <1>9, <1>10

LEMMA TimeSteps == ASSUME TypeOK, [Next]_vars PROVE now' = now \/ Tick
  BY PassLooks DEF Next, vars, List, Look, Crash, Restart, Launch, Appear, Vanish, RecordSpawn

(* A session appears now, vanishes, or stays as it is *)
LEMMA SessionSteps ==
    ASSUME TypeOK, [Next]_vars, NEW s \in Sessions
    PROVE  \/ session'[s] = session[s]
           \/ /\ session'[s].created = now
              /\ now' = now
           \/ /\ session'[s].state = "gone"
              /\ session'[s].created = session[s].created
              /\ now' = now
<1>1. ASSUME NEW other \in Sessions, NEW f \in Folders, Appear(other, f)
      PROVE  \/ session'[s] = session[s]
             \/ session'[s].created = now /\ now' = now
  BY <1>1 DEF Appear, TypeOK
<1>2. ASSUME NEW other \in Sessions, Vanish(other)
      PROVE  \/ session'[s] = session[s]
             \/ /\ session'[s].state = "gone"
                /\ session'[s].created = session[s].created
                /\ now' = now
  BY <1>2 DEF Vanish, TypeOK, Session
<1>3. \/ UNCHANGED session
      \/ \E other \in Sessions, f \in Folders : Appear(other, f)
      \/ \E other \in Sessions : Vanish(other)
  BY PassLooks DEF Next, vars, List, Look, Crash, Restart, Launch, RecordSpawn, Tick
<1> QED BY <1>1, <1>2, <1>3

-----------------------------------------------------------------------------
(* The inductive invariant *)

LEMMA InitInv == Init => IInv
<1> SUFFICES ASSUME Init PROVE IInv
  OBVIOUS
<1>1. TypeOK
  BY InitTyped
<1>2. \A v \in Viewers : view[v] = Fresh
  BY DEF Init
<1>3. /\ ReadingsDiffer /\ IdlePrunesNothing /\ ReadingsAreBegun /\ ListingsAreRecent
      /\ ListingsAreComplete /\ DoomedAreOld
  BY <1>2 DEF Fresh, ReadingsDiffer, IdlePrunesNothing, ReadingsAreBegun, ListingsAreRecent,
              ListingsAreComplete, DoomedAreOld
<1>4. PassesArePast
  BY <1>2 DEF Init, Fresh, PassesArePast
<1>5. RowsAreBegun /\ NoSessionFromTheFuture
  BY DEF Init, NoRecord, RowsAreBegun, NoSessionFromTheFuture
<1> QED BY <1>1, <1>3, <1>4, <1>5 DEF IInv

LEMMA RowsStayBegun ==
    ASSUME IInv, [Next]_vars
    PROVE  RowsAreBegun'
<1> SUFFICES ASSUME NEW id \in Ids, record'[id].of # NoSpawn
             PROVE  /\ record'[id].of \in Spawns
                    /\ spawn'[record'[id].of].state # "none"
  BY DEF RowsAreBegun, Begun
<1>1. PICK p \in Spawns : record'[id].of = p /\ Begun(p)
  <2>1. CASE record'[id].of = record[id].of
    BY <2>1 DEF IInv, RowsAreBegun, Begun
  <2>2. ASSUME NEW p \in Spawns, RecordSpawn(p, id), record'[id].of = p PROVE Begun(p)
    BY <2>2 DEF RecordSpawn, Begun
  <2> QED BY <2>1, <2>2, RowSteps DEF IInv
<1>2. Begun(p)'
  BY <1>1, BegunStays DEF IInv
<1> QED BY <1>1, <1>2 DEF Begun

LEMMA ReadingsStayBegun ==
    ASSUME IInv, [Next]_vars
    PROVE  ReadingsAreBegun'
<1> SUFFICES ASSUME NEW v \in Viewers, NEW read \in view'[v].todo \cup view'[v].doomed
             PROVE  Begun(read.row.of)'
  BY DEF ReadingsAreBegun
<1>1. Begun(read.row.of)
  <2>1. CASE read \in view[v].todo \cup view[v].doomed
    BY <2>1 DEF IInv, ReadingsAreBegun
  <2>2. ASSUME NEW id \in Used, read = Read(id) PROVE Begun(read.row.of)
    BY <2>2 DEF IInv, RowsAreBegun, Used, Read
  <2>3. Prunable(v) \subseteq Used
    BY DEF Prunable, Resolved
  <2>4. \/ read \in view[v].todo \cup view[v].doomed
        \/ \E id \in Used : read = Read(id)
    BY <2>3, ViewSteps DEF IInv, Shrinks, Lists, Reads, Selects, Resets
  <2> QED BY <2>1, <2>2, <2>4
<1> QED BY <1>1, BegunStays DEF IInv, Begun

LEMMA NoneFromTheFuture ==
    ASSUME IInv, [Next]_vars
    PROVE  NoSessionFromTheFuture'
<1> SUFFICES ASSUME NEW s \in Sessions PROVE session'[s].created <= now'
  BY DEF NoSessionFromTheFuture
<1>1. now \in Nat /\ session[s].created \in Nat /\ session[s].created <= now
  BY DEF IInv, TypeOK, Session, NoSessionFromTheFuture
<1>2. now' \in {now, now + 1}
  BY TimeSteps DEF Tick, IInv
<1>3. session'[s].created \in {session[s].created, now}
  BY SessionSteps DEF IInv
<1> QED BY <1>1, <1>2, <1>3

LEMMA PassesStayPast ==
    ASSUME IInv, [Next]_vars
    PROVE  PassesArePast'
<1> SUFFICES ASSUME NEW v \in Viewers PROVE view'[v].clock <= now'
  BY DEF PassesArePast
<1>1. now \in Nat /\ view[v].clock \in Nat /\ view[v].clock <= now
  BY DEF IInv, TypeOK, View, PassesArePast
<1>2. now' \in {now, now + 1}
  BY TimeSteps DEF Tick, IInv
<1>3. view'[v].clock \in {view[v].clock, now, 0}
  BY ViewSteps DEF IInv, Shrinks, Lists, Reads, Selects, Resets
<1> QED BY <1>1, <1>2, <1>3

LEMMA ListingsStayRecent ==
    ASSUME IInv, [Next]_vars
    PROVE  ListingsAreRecent'
<1> SUFFICES ASSUME NEW v \in Viewers, view'[v].taken # Never
             PROVE  view'[v].taken <= now' /\ now' - view'[v].taken <= Lag
  BY DEF ListingsAreRecent
<1>1. now \in Nat /\ view[v].taken \in Nat \cup {Never} /\ Lag \in Nat
  BY TimeAssumption DEF IInv, TypeOK, View
<1>2. CASE Lists(v)
  BY <1>1, <1>2 DEF Lists
<1>3. CASE view'[v].taken = view[v].taken
  <2>1. view[v].taken \in Nat /\ view[v].taken <= now /\ now - view[v].taken <= Lag
    BY <1>1, <1>3 DEF IInv, ListingsAreRecent
  <2>2. CASE now' = now
    BY <1>3, <2>1, <2>2
  <2>3. CASE Tick
    <3>1. now' = now + 1 /\ now - view[v].taken < Lag
      BY <1>3, <2>3 DEF Tick, Recent
    <3> QED BY <1>1, <1>3, <2>1, <3>1
  <2> QED BY <2>2, <2>3, TimeSteps DEF IInv
<1> QED BY <1>2, <1>3, ViewSteps DEF IInv, Shrinks, Reads, Selects, Resets, SameListing

LEMMA ListingsStayComplete ==
    ASSUME IInv, [Next]_vars
    PROVE  ListingsAreComplete'
<1> SUFFICES ASSUME NEW v \in Viewers, view'[v].taken # Never,
                    NEW s \in Sessions, session'[s].state = "here",
                    session'[s].created < view'[v].taken
             PROVE  s \in view'[v].listed
  BY DEF ListingsAreComplete, Here
<1>1. now \in Nat
  BY DEF IInv, TypeOK
<1>2. CASE Lists(v)
  BY <1>2 DEF Lists, Here
<1>3. CASE SameListing(v)
  <2>1. view[v].taken \in Nat /\ view[v].taken <= now
    BY <1>3 DEF IInv, TypeOK, View, ListingsAreRecent, SameListing
  <2>2. session'[s] = session[s]
    BY <1>1, <1>3, <2>1, SessionSteps DEF IInv, SameListing
  <2> QED BY <1>3, <2>2 DEF IInv, ListingsAreComplete, SameListing, Here
<1> QED BY <1>2, <1>3, ViewSteps DEF IInv, Shrinks, Reads, Selects, Resets

LEMMA DoomedStayOld ==
    ASSUME IInv, [Next]_vars
    PROVE  DoomedAreOld'
<1> SUFFICES ASSUME NEW v \in Viewers, NEW read \in view'[v].doomed
             PROVE  /\ spawn'[read.row.of].at < now' - Retention
                    /\ read.row.session # NoSession
                    /\ read.row.session \notin view'[v].listed
  BY DEF DoomedAreOld
<1>1. /\ spawn[read.row.of].at < now - Retention
      /\ read.row.session # NoSession
      /\ read.row.session \notin view'[v].listed
  <2>1. CASE read \in view[v].doomed /\ SameListing(v)
    BY <2>1 DEF IInv, DoomedAreOld, SameListing
  <2>2. CASE read \in view[v].doomed /\ Lists(v)
    BY <2>2 DEF IInv, IdlePrunesNothing, Lists
  <2>3. ASSUME SameListing(v), NEW id \in Prunable(v), read = Read(id)
        PROVE  /\ spawn[read.row.of].at < now - Retention
               /\ read.row.session # NoSession
               /\ read.row.session \notin view'[v].listed
    BY <2>3 DEF Prunable, Resolved, Read, SameListing
  <2>4. \/ read \in view[v].doomed /\ SameListing(v)
        \/ read \in view[v].doomed /\ Lists(v)
        \/ SameListing(v) /\ \E id \in Prunable(v) : read = Read(id)
    BY ViewSteps DEF IInv, Shrinks, Lists, Reads, Selects, Resets
  <2> QED BY <2>1, <2>2, <2>3, <2>4
<1>2. Begun(read.row.of)
  <2>1. CASE read \in view[v].doomed
    BY <2>1 DEF IInv, ReadingsAreBegun
  <2>2. ASSUME NEW id \in Prunable(v), read = Read(id) PROVE Begun(read.row.of)
    BY <2>2 DEF IInv, RowsAreBegun, Prunable, Resolved, Used, Read
  <2> QED BY <2>1, <2>2, ViewSteps DEF IInv, Shrinks, Lists, Reads, Selects, Resets
<1>3. spawn'[read.row.of].at = spawn[read.row.of].at /\ spawn[read.row.of].at \in Nat
  BY <1>2, BegunStays DEF IInv, Begun, TypeOK, Spawn
<1>4. now \in Nat /\ Retention \in Nat /\ now' \in {now, now + 1}
  BY TimeAssumption, TimeSteps DEF Tick, IInv, TypeOK
<1> QED BY <1>1, <1>3, <1>4

LEMMA IdleStays ==
    ASSUME IInv, [Next]_vars
    PROVE  IdlePrunesNothing'
<1> SUFFICES ASSUME NEW v \in Viewers, view'[v].pc # "pruning"
             PROVE  view'[v].doomed = {}
  BY DEF IdlePrunesNothing
<1>0. view[v] \in View /\ (view[v].pc # "pruning" => view[v].doomed = {})
  BY DEF IInv, TypeOK, IdlePrunesNothing
<1>1. ASSUME NEW doomed, Doom(v, doomed) PROVE view'[v].doomed = {}
  <2> DEFINE step == IF doomed = {} THEN "idle" ELSE "pruning"
  <2>1. view'[v] = [view[v] EXCEPT !.pc = step, !.clock = 0, !.doomed = doomed]
    BY <1>1 DEF Doom, Look, IInv, TypeOK
  <2>2. step = "pruning" \/ doomed = {}
    OBVIOUS
  <2> HIDE DEF step
  <2>3. view'[v].pc = step /\ view'[v].doomed = doomed
    BY <1>0, <2>1 DEF View
  <2> QED BY <2>2, <2>3
<1>2. ASSUME view'[v].doomed = view[v].doomed,
             view[v].pc # "pruning" \/ view'[v].pc = view[v].pc
      PROVE  view'[v].doomed = {}
  BY <1>0, <1>2
<1>3. CASE List(v)
  <2>1. view'[v] = [view[v] EXCEPT !.listed = Here, !.taken = now] /\ view[v].pc = "idle"
    BY <1>3 DEF List, Look, IInv, TypeOK
  <2> QED BY <1>0, <1>2, <2>1 DEF View
<1>4. ASSUME NEW ok \in BOOLEAN, ReadPins(v, ok) PROVE view'[v].doomed = {}
  <2>1. view'[v] = [view[v] EXCEPT !.pc = "pinned"] /\ view[v].pc = "idle"
    BY <1>4 DEF ReadPins, Look, IInv, TypeOK
  <2> QED BY <1>0, <1>2, <2>1 DEF View
<1>5. ASSUME NEW ok \in BOOLEAN, ReadUnresolved(v, ok) PROVE view'[v].doomed = {}
  <2> DEFINE todo == IF ok THEN {Read(id) : id \in Used \ Resolved} ELSE {}
  <2>1. /\ view'[v] = [view[v] EXCEPT !.pc = "settling", !.clock = now, !.todo = todo]
        /\ view[v].pc = "pinned"
    BY <1>5 DEF ReadUnresolved, Look, IInv, TypeOK
  <2> HIDE DEF todo
  <2> QED BY <1>0, <1>2, <2>1 DEF View
<1>6. ASSUME NEW ok \in BOOLEAN, NEW read \in view[v].todo, Settle(v, read, ok)
      PROVE  view'[v].doomed = {}
  <2>1. view'[v] = [view[v] EXCEPT !.todo = view[v].todo \ {read}] /\ view[v].pc = "settling"
    BY <1>6 DEF Settle, Look, IInv, TypeOK
  <2> QED BY <1>0, <1>2, <2>1 DEF View
<1>7. CASE Pass(v)
  <2>1. ASSUME NEW ok \in BOOLEAN,
               SelectPrunable(v, ok) \/ \E read \in view[v].doomed : Prune(v, read, ok)
        PROVE  view'[v].doomed = {}
    BY <1>1, <2>1 DEF SelectPrunable, Prune
  <2> QED BY <1>4, <1>5, <1>6, <1>7, <2>1 DEF Pass
<1>8. CASE Crash(v) \/ Restart(v)
  <2>1. view'[v] = [Fresh EXCEPT !.pc = "down"] \/ view'[v] = Fresh
    BY <1>8 DEF Crash, Restart, IInv, TypeOK
  <2> QED BY <2>1 DEF Fresh
<1>9. CASE view'[v] = view[v]
  BY <1>0, <1>9
<1>10. \/ view'[v] = view[v]
       \/ List(v) \/ Pass(v) \/ Crash(v) \/ Restart(v)
  <2>1. ASSUME NEW w \in Viewers \ {v}, List(w) \/ Pass(w) \/ Crash(w) \/ Restart(w)
        PROVE  view'[v] = view[v]
    BY <2>1, PassLooks DEF List, Look, Crash, Restart, TypeOK, IInv
  <2>2. ASSUME ~ \E w \in Viewers : List(w) \/ Pass(w) \/ Crash(w) \/ Restart(w)
        PROVE  view'[v] = view[v]
    BY <2>2 DEF Next, vars, Launch, Appear, Vanish, RecordSpawn, Tick
  <2> QED BY <2>1, <2>2
<1> QED BY <1>3, <1>7, <1>8, <1>9, <1>10

LEMMA ReadingsStayDifferent ==
    ASSUME IInv, [Next]_vars
    PROVE  ReadingsDiffer'
<1> SUFFICES ASSUME NEW v \in Viewers
             PROVE  /\ \A a, b \in view'[v].todo : a.id = b.id => a = b
                    /\ \A a, b \in view'[v].doomed : a.id = b.id => a = b
  BY DEF ReadingsDiffer
<1>1. /\ \A a, b \in view[v].todo : a.id = b.id => a = b
      /\ \A a, b \in view[v].doomed : a.id = b.id => a = b
  BY DEF IInv, ReadingsDiffer
<1>2. ASSUME NEW ids, NEW a \in {Read(id) : id \in ids}, NEW b \in {Read(id) : id \in ids},
             a.id = b.id
      PROVE  a = b
  BY <1>2 DEF Read
<1>3. /\ view'[v].todo \subseteq view[v].todo \/ view'[v].todo \subseteq {Read(id) : id \in Used}
      /\ \/ view'[v].doomed \subseteq view[v].doomed
         \/ view'[v].doomed \subseteq {Read(id) : id \in Prunable(v)}
  BY ViewSteps DEF IInv, Shrinks, Lists, Reads, Selects, Resets
<1> QED BY <1>1, <1>2, <1>3

LEMMA StepInv == IInv /\ [Next]_vars => IInv'
  BY NextTyped, ReadingsStayDifferent, IdleStays, RowsStayBegun, ReadingsStayBegun, NoneFromTheFuture,
     PassesStayPast, ListingsStayRecent, ListingsStayComplete, DoomedStayOld DEF IInv

-----------------------------------------------------------------------------
(* No record is lost *)

(* A listing that a pass goes by holds the whole window of an old record   *)
LEMMA WindowIsListed ==
    ASSUME IInv, NEW v \in Viewers, ~ Blind(v), NEW p \in Spawns, NEW s \in Here,
           Fits(p, s), Lag + After < now - spawn[p].at
    PROVE  s \in view[v].listed
<1>1. /\ now \in Nat /\ view[v].taken \in Nat /\ spawn[p].at \in Nat
      /\ Lag \in Nat /\ After \in Nat /\ Before \in Nat /\ s \in Sessions
  BY TimeAssumption DEF IInv, TypeOK, View, Spawn, Blind, Here
<1>2. session[s].created \in Nat /\ session[s].created <= spawn[p].at + After
  BY <1>1 DEF Fits, IInv, TypeOK, Session
<1>3. now - view[v].taken <= Lag
  BY <1>1 DEF IInv, ListingsAreRecent, Blind
<1>4. session[s].created < view[v].taken
  BY <1>1, <1>2, <1>3
<1> QED BY <1>4 DEF IInv, ListingsAreComplete, Blind

LEMMA SettleKeeps ==
    ASSUME IInv, NEW v \in Viewers, NEW ok \in BOOLEAN, NEW read \in view[v].todo,
           Settle(v, read, ok), NEW id \in Ids, Lost(id), ~ Blind(v), Means(v, id),
           NEW s \in Here, Fits(record[id].of, s)
    PROVE  FALSE
<1> DEFINE p == read.row.of
<1>1. read.id \in Ids /\ p \in Spawns
  BY DEF IInv, TypeOK, View, Reading, ReadingsAreBegun, Begun
<1>2. ~ \E t \in Fitting(p, view[v].listed) : Resolve(read.id, t)
  <2>1. ASSUME NEW t, Resolve(read.id, t) PROVE record'[id].of = record[id].of
    BY <1>1, <2>1 DEF Resolve, IInv, TypeOK, Record
  <2> QED BY <2>1 DEF Lost, NoRecord
<1>3. record' # record
  BY DEF Lost, NoRecord
<1>4. /\ Fitting(p, view[v].listed) = {}
      /\ Expired(v, p)
      /\ Delete(read.id)
  BY <1>2, <1>3, SettleChoices
<1>5. read.id = id
  BY <1>1, <1>4 DEF Delete, Lost, NoRecord, IInv, TypeOK
<1>6. record[id].of = p
  BY <1>5 DEF Means, Settle, IInv, ReadingsDiffer
<1>7. Lag + After < now - spawn[p].at
  <2>1. view[v].clock - spawn[p].at > Abandon
    BY <1>4 DEF Expired
  <2>2. /\ view[v].clock \in Nat /\ now \in Nat /\ view[v].clock <= now
        /\ spawn[p].at \in Nat
    BY <1>1 DEF IInv, TypeOK, View, Spawn, PassesArePast
  <2> QED BY <2>1, <2>2, TimeAssumption, LagAssumption
<1>8. s \in view[v].listed
  BY <1>1, <1>6, <1>7, WindowIsListed
<1> QED BY <1>4, <1>6, <1>8 DEF Fitting

LEMMA PruneKeeps ==
    ASSUME IInv, NEW v \in Viewers, NEW ok \in BOOLEAN, NEW read \in view[v].doomed,
           Prune(v, read, ok), NEW id \in Ids, Lost(id), ~ Blind(v), Means(v, id),
           NEW s \in Here, Fits(record[id].of, s)
    PROVE  record[id].session \notin {s, NoSession}
<1> DEFINE p == record[id].of
<1>1. Read(id) \in view[v].doomed
  BY DEF Means, Prune
<1>2. /\ spawn[p].at < now - Retention
      /\ record[id].session # NoSession
      /\ record[id].session \notin view[v].listed
      /\ p \in Spawns
  BY <1>1 DEF IInv, DoomedAreOld, ReadingsAreBegun, Begun, Read
<1>3. Lag + After < now - spawn[p].at
  <2>1. now \in Nat /\ spawn[p].at \in Nat
    BY <1>2 DEF IInv, TypeOK, Spawn
  <2> QED BY <1>2, <2>1, TimeAssumption, LagAssumption
<1>4. s \in view[v].listed
  BY <1>2, <1>3, WindowIsListed
<1> QED BY <1>2, <1>4

(* Only settling and pruning take a record out of the table *)
LEMMA LossSteps ==
    ASSUME TypeOK, [Next]_vars, NEW id \in Ids, Lost(id)
    PROVE  \E v \in Viewers, ok \in BOOLEAN :
               \/ \E read \in view[v].todo : Settle(v, read, ok)
               \/ \E read \in view[v].doomed : Prune(v, read, ok)
<1>1. ASSUME NEW p \in Spawns, NEW other \in Ids, RecordSpawn(p, other) PROVE FALSE
  BY <1>1, NameAssumption DEF RecordSpawn, Lost, NoRecord, TypeOK
<1>2. ~ UNCHANGED record
  BY DEF Lost, NoRecord
<1> QED
  BY <1>1, <1>2 DEF Next, vars, List, Pass, Crash, Restart, Launch, Appear, Vanish, Tick,
                    ReadPins, ReadUnresolved, SelectPrunable

(* A step takes out a record only if its session is not there, or if the   *)
(* viewer that takes it out has no listing, or means another record        *)
LEMMA StepKeeps ==
    ASSUME IInv, [Next]_vars, NEW id \in Ids, Lost(id)
    PROVE  \/ \E v \in Viewers : Acts(v) /\ (Blind(v) \/ ~ Means(v, id))
           \/ \A s \in Here : Fits(record[id].of, s) => record[id].session \notin {s, NoSession}
<1>1. PICK v \in Viewers, ok \in BOOLEAN :
          \/ \E read \in view[v].todo : Settle(v, read, ok)
          \/ \E read \in view[v].doomed : Prune(v, read, ok)
  BY LossSteps DEF IInv
<1>2. view[v] \in View /\ view \in [Viewers -> View]
  BY DEF IInv, TypeOK
<1>3. ASSUME NEW read \in view[v].todo, Settle(v, read, ok) PROVE Acts(v)
  <2>1. view'[v] = [view[v] EXCEPT !.todo = view[v].todo \ {read}]
    BY <1>2, <1>3 DEF Settle, Look
  <2>2. view'[v].todo = view[v].todo \ {read}
    BY <1>2, <2>1 DEF View
  <2> QED BY <2>2 DEF Acts
<1>4. ASSUME NEW read \in view[v].doomed, Prune(v, read, ok) PROVE Acts(v)
  <2> DEFINE doomed == IF ok THEN view[v].doomed \ {read} ELSE {}
             step == IF doomed = {} THEN "idle" ELSE "pruning"
  <2>1. view'[v] = [view[v] EXCEPT !.pc = step, !.clock = 0, !.doomed = doomed]
    BY <1>2, <1>4 DEF Prune, Doom, Look
  <2>2. read \notin doomed
    OBVIOUS
  <2> HIDE DEF doomed, step
  <2>3. view'[v].doomed = doomed
    BY <1>2, <2>1 DEF View
  <2> QED BY <2>2, <2>3 DEF Acts
<1>5. CASE Blind(v) \/ ~ Means(v, id)
  BY <1>1, <1>3, <1>4, <1>5
<1>6. ASSUME ~ Blind(v), Means(v, id), NEW s \in Here, Fits(record[id].of, s)
      PROVE  record[id].session \notin {s, NoSession}
  BY <1>1, <1>6, SettleKeeps, PruneKeeps
<1> QED BY <1>5, <1>6

(* A record is not deleted while its session exists, however stale a       *)
(* viewer's reading of the table is, but by a viewer without a listing or  *)
(* under an id that was given out again.  (state.rs:1010, main.rs:1680)    *)
THEOREM RecordsKept == Spec => RecordsOutliveListings
<1>1. Init => IInv
  BY InitInv
<1>2. IInv /\ [Next]_vars => IInv'
  BY StepInv
<1>3. IInv /\ [Next]_vars =>
          [\A id \in Ids :
              Lost(id) => \/ \E v \in Viewers : Acts(v) /\ (Blind(v) \/ ~ Means(v, id))
                          \/ \A s \in Here : Fits(record[id].of, s)
                                 => record[id].session \notin {s, NoSession}]_vars
  BY StepKeeps
<1> QED BY <1>1, <1>2, <1>3, PTL DEF Spec, RecordsOutliveListings
=============================================================================
