------------------------- MODULE CodexThreadsProofs -------------------------
(***************************************************************************)
(* Proofs about CodexThreads, for any threads, processes and bounds.       *)
(***************************************************************************)
EXTENDS CodexThreads, TLAPS

(* A turn runs in a process that is up and has its rollout open *)
RunnersHold ==
    \A t \in Threads :
        Running(t) => process[turn[t].by] = "up" /\ t \in held[turn[t].by]

HoldersAreUp == \A p \in Processes : held[p] # {} => process[p] = "up"

(* A process of its own has one session and its subagents *)
OneFamily == \A p \in Procs : \A t, u \in held[p] : Root[t] = Root[u]

LiveTails ==
    \A t \in Threads : Running(t) /\ t \notin cut => tail[t] \in {"midTurn", "approval"}

(* An entry under the rollout's length is what its end says *)
CacheIsTrue ==
    \A t \in Threads :
        cache[t] # NoEntry => /\ cache[t].key <= len[t]
                              /\ cache[t].key = len[t] => cache[t].tail = tail[t]

(* The places of a look *)
JobIsPlaced ==
    /\ job.at # "idle" => job.thread \in Threads
    /\ job.at \in {"local", "remote"} => job.kind = "attach"
    /\ job.at \in {"read", "interrupt"} => job.kind = "stop"
    /\ job.at = "tail" => job.key <= len[job.thread]
    /\ job.answered => job.at \in {"remote", "read", "interrupt"}
    /\ job.at = "remote" => job.owner \in Servers
    /\ job.at = "local" => IF job.owner \in Servers THEN ~ job.answered ELSE ~ Refused

SteadyRuns == steady => job.at # "idle" /\ Running(job.thread)

(* The sweep meets whoever runs the turn all the time *)
NotMissed ==
    steady => \/ job.owner # Nobody
              \/ job.at = "sweep" /\ turn[job.thread].by \in job.todo

(* The process found still has the thread, or has gone for good *)
OwnerHolds ==
    job.owner \in Procs =>
        \/ process[job.owner] = "gone"
        \/ process[job.owner] = "up" /\ job.thread \in held[job.owner]

-----------------------------------------------------------------------------
(* Types *)

LEMMA NamesDiffer == /\ Nobody \notin Processes
                     /\ Procs \subseteq Processes
                     /\ Managed \in Processes
                     /\ \A p \in Processes : p \in Servers <=> p \notin Procs
  BY NameAssumption DEF Processes, Servers

LEMMA StatusTyped ==
    ASSUME NEW owner, NEW ending
    PROVE  StatusFrom(owner, ending) \in Statuses
  BY DEF StatusFrom, Statuses, Live

LEMMA LiveStatus ==
    ASSUME NEW owner, owner # Nobody, NEW ending \in {"midTurn", "approval"}
    PROVE  StatusFrom(owner, ending) \in Live
  BY DEF StatusFrom, Live

LEMMA NoJobTyped == NoJob \in Jobs
  BY DEF NoJob, Jobs, Statuses, Live

LEMMA InitTyped == Init => TypeOK
<1>1. NoTurn \in Turns /\ NoEntry \in Entries /\ "none" \in Tails
  BY DEF Turns, NoTurn, Tails, Entries, NoEntry
<1>2. 0 \in 0 .. MaxFaults
  BY BoundAssumption
<1>3. ASSUME Init PROVE TypeOK
  <2>1. turn \in [Threads -> Turns] /\ tail \in [Threads -> Tails]
        /\ cache \in [Threads -> Entries] /\ len \in [Threads -> Nat]
    BY <1>1, <1>3 DEF Init
  <2>2. process \in [Processes -> {"down", "up", "gone"}]
        /\ held \in [Processes -> SUBSET Threads]
    BY <1>3 DEF Init
  <2> QED BY <1>2, <1>3, <2>1, <2>2, NoJobTyped DEF Init, TypeOK
<1> QED BY <1>3

LEMMA AppendedTyped ==
    ASSUME TypeOK, NEW t \in Threads, NEW ending \in Tails, Appended(t, ending)
    PROVE  tail' \in [Threads -> Tails] /\ len' \in [Threads -> Nat]
  BY DEF Appended, TypeOK

LEMMA LoadTyped ==
    ASSUME TypeOK, NEW p \in Processes, NEW t \in Threads, Load(p, t)
    PROVE  /\ process' \in [Processes -> {"down", "up", "gone"}]
           /\ held' \in [Processes -> SUBSET Threads]
           /\ tail' \in [Threads -> Tails] /\ len' \in [Threads -> Nat]
           /\ cut' \subseteq Threads
           /\ turn' \in [Threads -> Turns]
           /\ faults' \in 0 .. MaxFaults
<1>1. tail' \in [Threads -> Tails] /\ len' \in [Threads -> Nat]
  <2>1. CASE tail[t] \in {"midTurn", "approval"}
    <3>1. Appended(t, "complete") /\ "complete" \in Tails
      BY <2>1 DEF Load, Tails
    <3> QED BY <3>1, AppendedTyped
  <2> QED BY <2>1 DEF Load, TypeOK
<1> QED BY <1>1 DEF Load, TypeOK

LEMMA GoneTyped ==
    ASSUME TypeOK, NEW p \in Processes, Gone(p)
    PROVE  /\ process' \in [Processes -> {"down", "up", "gone"}]
           /\ held' \in [Processes -> SUBSET Threads]
           /\ turn' \in [Threads -> Turns]
  BY DEF Gone, TypeOK, Turns, NoTurn

LEMMA CodexTyped == TypeOK /\ CodexStep => TypeOK'
<1> SUFFICES ASSUME TypeOK, CodexStep PROVE TypeOK'
  OBVIOUS
<1>1. ASSUME NEW p \in Processes, NEW t \in Threads, Open(p, t) PROVE TypeOK'
  BY <1>1, LoadTyped DEF Open, TypeOK
<1>2. ASSUME NEW p \in Processes, NEW t \in Threads, Begin(p, t) PROVE TypeOK'
  <2>1. tail' \in [Threads -> Tails] /\ len' \in [Threads -> Nat]
    BY <1>2, AppendedTyped DEF Begin, Tails
  <2>2. [by |-> p, id |-> len[t] + 1] \in Turns
    BY DEF Turns, TypeOK
  <2>3. turn' \in [Threads -> Turns]
    BY <1>2, <2>2 DEF Begin, TypeOK
  <2>4. held' \in [Processes -> SUBSET Threads] /\ cut' \subseteq Threads
    BY <1>2 DEF Begin, TypeOK
  <2>5. steady' \in BOOLEAN
    BY <1>2 DEF Begin, Watch
  <2> QED BY <1>2, <2>1, <2>3, <2>4, <2>5 DEF Begin, TypeOK
<1>3. ASSUME NEW t \in Threads, Ask(t) PROVE TypeOK'
  <2>1. tail' \in [Threads -> Tails] /\ len' \in [Threads -> Nat]
    BY <1>3, AppendedTyped DEF Ask, Tails
  <2> QED BY <1>3, <2>1 DEF Ask, TypeOK
<1>4. ASSUME NEW t \in Threads, End(t) PROVE TypeOK'
  <2>1. tail' \in [Threads -> Tails] /\ len' \in [Threads -> Nat]
    BY <1>4, AppendedTyped DEF End, Tails
  <2>2. turn' \in [Threads -> Turns]
    BY <1>4 DEF End, TypeOK, Turns, NoTurn
  <2>3. steady' \in BOOLEAN
    BY <1>4 DEF End, Watch
  <2> QED BY <1>4, <2>1, <2>2, <2>3 DEF End, TypeOK
<1>5. ASSUME NEW p \in Processes, StartServer(p) PROVE TypeOK'
  BY <1>5 DEF StartServer, TypeOK
<1>6. ASSUME NEW p \in Processes, Exit(p) PROVE TypeOK'
  <2>1. steady' \in BOOLEAN
    BY <1>6 DEF Exit, Watch
  <2>2. faults' \in 0 .. MaxFaults
    BY <1>6, BoundAssumption DEF Exit, TypeOK
  <2> QED BY <1>6, <2>1, <2>2, GoneTyped DEF Exit, TypeOK
<1> QED BY <1>1, <1>2, <1>3, <1>4, <1>5, <1>6 DEF CodexStep

LEMMA LookTyped == TypeOK /\ LookStep => TypeOK'
<1> SUFFICES ASSUME TypeOK, LookStep PROVE TypeOK'
  OBVIOUS
<1>1. ASSUME NEW kind \in {"list", "attach", "stop"}, NEW t \in Threads, Look(kind, t)
      PROVE  TypeOK'
  <2>1. job' \in Jobs
    BY <1>1, NoJobTyped DEF Look, Jobs
  <2> QED BY <1>1, <2>1 DEF Look, TypeOK, codex, Running
<1>2. ASSUME NEW p \in Processes, Visit(p) PROVE TypeOK'
  <2>1. Owner(job.owner, p) \in Processes \cup {Nobody}
    BY DEF Owner, Jobs, TypeOK
  <2>2. job' \in Jobs
    BY <1>2, <2>1 DEF Visit, Jobs, TypeOK
  <2> QED BY <1>2, <2>2 DEF Visit, TypeOK, codex
<1>3. CASE EndSweep
  <2>1. job' \in Jobs
    BY <1>3 DEF EndSweep, Jobs, TypeOK
  <2> QED BY <1>3, <2>1 DEF EndSweep, TypeOK, codex
<1>4. ASSUME NEW ending PROVE Resolved(0, ending) \in Jobs
  <2>1. StatusFrom(job.owner, ending) \in Statuses
    BY StatusTyped
  <2> QED BY <2>1 DEF Resolved, Jobs, TypeOK
<1>5. ASSUME NEW t \in Threads, Stat(t) PROVE TypeOK'
  <2>1. [job EXCEPT !.at = "tail", !.key = len[t]] \in Jobs
    BY <1>5 DEF Jobs, TypeOK
  <2> QED BY <1>4, <1>5, <2>1 DEF Stat, TypeOK, codex
<1>6. ASSUME NEW t \in Threads, ReadTail(t) PROVE TypeOK'
  <2>1. [key |-> job.key, tail |-> tail[t]] \in Entries
    BY DEF Entries, Jobs, TypeOK
  <2>2. cache' \in [Threads -> Entries]
    BY <1>6, <2>1 DEF ReadTail, TypeOK
  <2> QED BY <1>4, <1>6, <2>2 DEF ReadTail, TypeOK, codex
<1>7. CASE Shown
  BY <1>7, NoJobTyped DEF Shown, Finished, TypeOK, codex
<1> QED BY <1>1, <1>2, <1>3, <1>5, <1>6, <1>7 DEF LookStep

LEMMA StopTyped == TypeOK /\ StopStep => TypeOK'
<1> SUFFICES ASSUME TypeOK, StopStep PROVE TypeOK'
  OBVIOUS
<1>1. ASSUME Finished PROVE job' \in Jobs /\ steady' \in BOOLEAN
  BY <1>1, NoJobTyped DEF Finished
<1>2. CASE StopUnsupported
  BY <1>1, <1>2 DEF StopUnsupported, TypeOK, codex
<1>3. CASE Signal
  <2>1. job.owner \in Processes
    BY <1>3, NamesDiffer DEF Signal, Signalled
  <2> QED BY <1>1, <1>3, <2>1, GoneTyped DEF Signal, TypeOK
<1>4. CASE StopHosted
  <2>1. [job EXCEPT !.at = "read", !.answered = TRUE] \in Jobs
    BY DEF Jobs, TypeOK
  <2> QED BY <1>1, <1>4, <2>1 DEF StopHosted, Probe, TypeOK, codex
<1>5. ASSUME NEW t \in Threads, ReadTurn(t) PROVE TypeOK'
  <2>1. [job EXCEPT !.at = "interrupt", !.key = turn[t].id] \in Jobs
    BY DEF Jobs, TypeOK, Turns
  <2> QED BY <1>1, <1>5, <2>1 DEF ReadTurn, TypeOK, codex
<1>6. ASSUME NEW t \in Threads, Interrupt(t) PROVE TypeOK'
  <2>1. tail' \in [Threads -> Tails] /\ len' \in [Threads -> Nat]
    BY <1>6, AppendedTyped DEF Interrupt, Tails, TypeOK
  <2>2. NoTurn \in Turns
    BY DEF Turns, NoTurn
  <2>3. turn' \in [Threads -> Turns]
    BY <1>6, <2>2 DEF Interrupt, TypeOK
  <2> QED BY <1>1, <1>6, <2>1, <2>3 DEF Interrupt, TypeOK
<1>7. CASE StopFails
  BY <1>1, <1>7 DEF StopFails, TypeOK, codex
<1> QED BY <1>2, <1>3, <1>4, <1>5, <1>6, <1>7 DEF StopStep

LEMMA AttachTyped == TypeOK /\ AttachStep => TypeOK'
<1> SUFFICES ASSUME TypeOK, AttachStep PROVE TypeOK'
  OBVIOUS
<1>1. ASSUME Finished PROVE job' \in Jobs /\ steady' \in BOOLEAN
  BY <1>1, NoJobTyped DEF Finished
<1>2. CASE AttachRefused
  BY <1>1, <1>2 DEF AttachRefused, TypeOK, codex
<1>3. [job EXCEPT !.at = "local"] \in Jobs
  BY DEF Jobs, TypeOK
<1>4. CASE AttachOwn
  BY <1>3, <1>4 DEF AttachOwn, TypeOK, codex
<1>5. CASE AttachHosted
  <2>1. [job EXCEPT !.at = "remote", !.answered = TRUE] \in Jobs
    BY DEF Jobs, TypeOK
  <2> QED BY <1>3, <1>5, <2>1 DEF AttachHosted, Probe, TypeOK, codex
<1>6. ASSUME NEW p \in Processes, NEW t \in Threads, LaunchLocal(p, t) PROVE TypeOK'
  BY <1>1, <1>6, LoadTyped DEF LaunchLocal, TypeOK
<1>7. ASSUME NEW t \in Threads, LaunchRemote(t) PROVE TypeOK'
  BY <1>1, <1>7, LoadTyped, NamesDiffer DEF LaunchRemote, TypeOK, codex
<1>8. CASE AttachDropped
  BY <1>1, <1>8 DEF AttachDropped, TypeOK, codex
<1> QED BY <1>2, <1>4, <1>5, <1>6, <1>7, <1>8 DEF AttachStep

LEMMA NextTyped == TypeOK /\ [Next]_vars => TypeOK'
<1>1. TypeOK /\ UNCHANGED vars => TypeOK'
  BY DEF vars, codex, TypeOK
<1> QED BY <1>1, CodexTyped, LookTyped, StopTyped, AttachTyped DEF Next

(* Every state of the looks and of what they look at is well typed.        *)
(* (codex/mod.rs:433)                                                      *)
THEOREM TypeCorrect == Spec => []TypeOK
<1>1. Init => TypeOK
  BY InitTyped
<1>2. TypeOK /\ [Next]_vars => TypeOK'
  BY NextTyped
<1> QED BY <1>1, <1>2, PTL DEF Spec

-----------------------------------------------------------------------------
(* What codex and the viewer may do to processes, turns and rollouts *)

World == RunnersHold /\ HoldersAreUp /\ OneFamily /\ LiveTails

(* Rollouts are append-only *)
Grows == \A t \in Threads : /\ len[t] <= len'[t]
                            /\ len'[t] = len[t] => tail'[t] = tail[t]

(* A process of its own drops nothing but at its end, and ends once *)
Keeps ==
    \A p \in Procs : \/ process[p] = "down"
                     \/ process'[p] = "gone"
                     \/ process'[p] = process[p] /\ held[p] \subseteq held'[p]

LEMMA AppendedGrows ==
    ASSUME TypeOK, NEW t \in Threads, NEW ending, Appended(t, ending)
    PROVE  Grows /\ tail'[t] = ending /\ \A u \in Threads \ {t} : tail'[u] = tail[u]
  BY DEF Appended, TypeOK, Grows

LEMMA LoadKeeps ==
    ASSUME TypeOK, World, NEW p \in Processes, NEW t \in Threads, CanLoad(p, t), Load(p, t)
    PROVE  World' /\ Grows /\ Keeps
<1>1. Grows /\ \A u \in Threads \ {t} : tail'[u] = tail[u]
  <2>1. CASE tail[t] \in {"midTurn", "approval"}
    BY <2>1, AppendedGrows DEF Load
  <2>2. CASE tail[t] \notin {"midTurn", "approval"}
    BY <2>2 DEF Load, Grows, TypeOK
  <2> QED BY <2>1, <2>2
<1>2. /\ UNCHANGED turn
      /\ process' = [process EXCEPT ![p] = "up"]
      /\ held' = [held EXCEPT ![p] = @ \cup {t}]
      /\ cut' = IF Running(t) THEN cut \cup {t} ELSE cut
  BY DEF Load
<1>3. RunnersHold'
  BY <1>2, NamesDiffer DEF World, RunnersHold, Running, TypeOK, Turns
<1>4. HoldersAreUp'
  BY <1>2 DEF World, HoldersAreUp, TypeOK
<1>5. p \in Procs => held[p] = {}
  BY NamesDiffer DEF CanLoad, World, HoldersAreUp
<1>6. OneFamily'
  BY <1>2, <1>5, NamesDiffer DEF World, OneFamily, TypeOK
<1>7. LiveTails'
  BY <1>1, <1>2 DEF World, LiveTails, Running
<1>8. Keeps
  BY <1>2, NamesDiffer DEF Keeps, CanLoad, TypeOK
<1> QED BY <1>1, <1>3, <1>4, <1>6, <1>7, <1>8 DEF World

LEMMA BeginKeeps ==
    ASSUME TypeOK, World, NEW p \in Processes, NEW t \in Threads, Begin(p, t)
    PROVE  World' /\ Grows /\ Keeps
<1>1. Grows /\ tail'[t] = "midTurn" /\ \A u \in Threads \ {t} : tail'[u] = tail[u]
  BY AppendedGrows DEF Begin
<1>2. /\ UNCHANGED process
      /\ process[p] = "up"
      /\ held' = [held EXCEPT ![p] = @ \cup {t}]
      /\ turn' = [turn EXCEPT ![t] = [by |-> p, id |-> len[t] + 1]]
      /\ cut' = cut \ {t}
  BY DEF Begin
<1>3. RunnersHold'
  <2> SUFFICES ASSUME NEW u \in Threads, Running(u)'
               PROVE  process'[turn'[u].by] = "up" /\ u \in held'[turn'[u].by]
    BY DEF RunnersHold
  <2>1. CASE u = t
    BY <1>2, <2>1 DEF TypeOK
  <2>2. CASE u # t
    <3>1. turn'[u] = turn[u] /\ Running(u) /\ turn[u].by \in Processes
      BY <1>2, <2>2 DEF TypeOK, Running, Turns
    <3> QED BY <1>2, <3>1 DEF World, RunnersHold, TypeOK
  <2> QED BY <2>1, <2>2
<1>4. HoldersAreUp'
  BY <1>2 DEF World, HoldersAreUp, TypeOK
<1>5. OneFamily'
  <2>1. ASSUME p \in Procs, NEW u \in held[p] PROVE Root[u] = Root[t]
    <3>1. CASE t \in held[p]
      BY <2>1, <3>1 DEF World, OneFamily
    <3>2. CASE turn[Root[t]].by = p
      <4>1. Root[t] \in Threads /\ Root[Root[t]] = Root[t]
        BY RootAssumption
      <4>2. Root[t] \in held[p]
        BY <3>2, <4>1, NamesDiffer DEF World, RunnersHold, Running
      <4> QED BY <2>1, <4>1, <4>2 DEF World, OneFamily
    <3> QED BY <3>1, <3>2 DEF Begin
  <2>2. \A q \in Processes \ {p} : held'[q] = held[q]
    BY <1>2 DEF TypeOK
  <2>3. held'[p] = held[p] \cup {t}
    BY <1>2 DEF TypeOK
  <2> QED BY <2>1, <2>2, <2>3, NamesDiffer DEF World, OneFamily
<1>6. LiveTails'
  <2> SUFFICES ASSUME NEW u \in Threads, Running(u)', u \notin cut'
               PROVE  tail'[u] \in {"midTurn", "approval"}
    BY DEF LiveTails
  <2>1. CASE u = t
    BY <1>1, <2>1
  <2>2. CASE u # t
    BY <1>1, <1>2, <2>2 DEF World, LiveTails, Running, TypeOK
  <2> QED BY <2>1, <2>2
<1>7. Keeps
  BY <1>2, NamesDiffer DEF Keeps, TypeOK
<1> QED BY <1>1, <1>3, <1>4, <1>5, <1>6, <1>7 DEF World

(* A turn that ends, by itself or by an interrupt, or asks *)
LEMMA AppendKeeps ==
    ASSUME TypeOK, World, NEW t \in Threads, NEW ending \in Tails, Appended(t, ending),
           \/ turn' = [turn EXCEPT ![t] = NoTurn]
           \/ UNCHANGED turn /\ ending = "approval",
           UNCHANGED <<process, held, cut>>
    PROVE  World' /\ Grows /\ Keeps
<1>1. Grows /\ tail'[t] = ending /\ \A u \in Threads \ {t} : tail'[u] = tail[u]
  BY AppendedGrows
<1>2. \A u \in Threads : Running(u)' => Running(u) /\ turn'[u] = turn[u]
  BY DEF Running, NoTurn, TypeOK
<1>3. Running(t)' => ending = "approval"
  BY DEF Running, NoTurn, TypeOK
<1>4. LiveTails'
  BY <1>1, <1>2, <1>3 DEF World, LiveTails
<1>5. RunnersHold'
  BY <1>2 DEF World, RunnersHold
<1>6. HoldersAreUp' /\ OneFamily' /\ Keeps
  BY DEF World, HoldersAreUp, OneFamily, Keeps
<1> QED BY <1>1, <1>4, <1>5, <1>6 DEF World

LEMMA GoneKeeps ==
    ASSUME TypeOK, World, NEW p \in Processes, Gone(p), UNCHANGED <<tail, len, cut>>
    PROVE  World' /\ Grows /\ Keeps
<1>1. /\ process' = [process EXCEPT ![p] = IF p \in Servers THEN "down" ELSE "gone"]
      /\ held' = [held EXCEPT ![p] = {}]
      /\ \A u \in Threads : Running(u)' =>
            Running(u) /\ turn'[u] = turn[u] /\ turn[u].by \in Processes \ {p}
  BY DEF Gone, Running, NoTurn, TypeOK, Turns
<1>2. RunnersHold'
  BY <1>1 DEF World, RunnersHold, TypeOK
<1>3. HoldersAreUp'
  BY <1>1 DEF World, HoldersAreUp, TypeOK
<1>4. OneFamily'
  BY <1>1, NamesDiffer DEF World, OneFamily, TypeOK
<1>5. LiveTails'
  BY <1>1 DEF World, LiveTails
<1>6. Grows
  BY DEF Grows, TypeOK
<1>7. Keeps
  BY <1>1, NamesDiffer DEF Keeps, TypeOK
<1> QED BY <1>2, <1>3, <1>4, <1>5, <1>6, <1>7 DEF World

LEMMA SameKeeps ==
    ASSUME TypeOK, World, UNCHANGED <<held, turn, tail, len, cut>>,
           \/ UNCHANGED process
           \/ \E p \in Servers : process' = [process EXCEPT ![p] = "up"]
    PROVE  World' /\ Grows /\ Keeps
<1>1. \A p \in Processes : process[p] = "up" => process'[p] = "up"
  BY DEF TypeOK
<1>2. RunnersHold'
  BY <1>1 DEF World, RunnersHold, Running, TypeOK, Turns
<1>3. HoldersAreUp' /\ OneFamily' /\ LiveTails'
  BY <1>1 DEF World, HoldersAreUp, OneFamily, LiveTails, Running
<1>4. Grows
  BY DEF Grows, TypeOK
<1>5. \A p \in Procs : process'[p] = process[p]
  BY NamesDiffer DEF TypeOK, Processes
<1>6. Keeps
  BY <1>5 DEF Keeps
<1> QED BY <1>2, <1>3, <1>4, <1>6 DEF World

LEMMA StepKeeps == TypeOK /\ World /\ [Next]_vars => World' /\ Grows /\ Keeps
<1> SUFFICES ASSUME TypeOK, World, [Next]_vars PROVE World' /\ Grows /\ Keeps
  OBVIOUS
<1>1. CASE UNCHANGED codex
  BY <1>1, SameKeeps DEF codex
<1>2. ASSUME NEW p \in Processes, NEW t \in Threads, Open(p, t) \/ Begin(p, t)
      PROVE  World' /\ Grows /\ Keeps
  BY <1>2, LoadKeeps, BeginKeeps DEF Open
<1>3. ASSUME NEW t \in Threads, Ask(t) \/ End(t) PROVE World' /\ Grows /\ Keeps
  BY <1>3, AppendKeeps DEF Ask, End, Tails
<1>4. ASSUME NEW p \in Processes, StartServer(p) PROVE World' /\ Grows /\ Keeps
  BY <1>4, SameKeeps DEF StartServer
<1>5. ASSUME NEW p \in Processes, Exit(p) PROVE World' /\ Grows /\ Keeps
  BY <1>5, GoneKeeps DEF Exit
<1>6. CodexStep => World' /\ Grows /\ Keeps
  BY <1>2, <1>3, <1>4, <1>5 DEF CodexStep
<1>7. LookStep => UNCHANGED codex
  BY DEF LookStep, Look, Visit, EndSweep, Stat, ReadTail, Shown
<1>8. CASE Signal
  <2>1. CASE process[job.owner] = "up"
    BY <1>8, <2>1, GoneKeeps, NamesDiffer DEF Signal, Signalled
  <2>2. CASE process[job.owner] # "up"
    BY <1>8, <2>2, SameKeeps DEF Signal
  <2> QED BY <2>1, <2>2
<1>9. ASSUME NEW t \in Threads, Interrupt(t) PROVE World' /\ Grows /\ Keeps
  <2>1. CASE UNCHANGED <<tail, len, turn>>
    BY <1>9, <2>1, SameKeeps DEF Interrupt
  <2>2. CASE Appended(t, "complete") /\ turn' = [turn EXCEPT ![t] = NoTurn]
    BY <1>9, <2>2, AppendKeeps DEF Interrupt, Tails
  <2> QED BY <1>9, <2>1, <2>2 DEF Interrupt
<1>10. StopStep => \/ UNCHANGED codex
                   \/ Signal
                   \/ \E t \in Threads : Interrupt(t)
  BY DEF StopStep, StopUnsupported, StopHosted, ReadTurn, StopFails
<1>11. ASSUME NEW p \in Processes, NEW t \in Threads, LaunchLocal(p, t)
       PROVE  World' /\ Grows /\ Keeps
  BY <1>11, LoadKeeps DEF LaunchLocal
<1>12. ASSUME NEW t \in Threads, LaunchRemote(t) PROVE UNCHANGED codex \/ (World' /\ Grows /\ Keeps)
  BY <1>12, LoadKeeps, NamesDiffer DEF LaunchRemote
<1>13. AttachStep => \/ UNCHANGED codex
                     \/ \E p \in Processes, t \in Threads : LaunchLocal(p, t)
                     \/ \E t \in Threads : LaunchRemote(t)
  BY DEF AttachStep, AttachRefused, AttachOwn, AttachHosted, AttachDropped
<1>14. [Next]_vars => CodexStep \/ StopStep \/ AttachStep \/ UNCHANGED codex
  BY <1>7 DEF Next, vars
<1> QED BY <1>1, <1>6, <1>8, <1>9, <1>10, <1>11, <1>12, <1>13, <1>14

-----------------------------------------------------------------------------
(* What a look knows *)

Known == CacheIsTrue /\ JobIsPlaced /\ SteadyRuns /\ NotMissed /\ OwnerHolds /\ LiveTurnsLookLive

LEMMA CacheLasts ==
    ASSUME TypeOK, CacheIsTrue, Grows, TypeOK', UNCHANGED cache
    PROVE  CacheIsTrue'
<1> SUFFICES ASSUME NEW t \in Threads, cache[t] # NoEntry
             PROVE  /\ cache[t].key <= len'[t]
                    /\ cache[t].key = len'[t] => cache[t].tail = tail'[t]
  BY DEF CacheIsTrue
<1>1. cache[t].key \in Nat /\ len[t] \in Nat /\ len'[t] \in Nat
  BY DEF TypeOK, Entries
<1>2. cache[t].key <= len[t] /\ (cache[t].key = len[t] => cache[t].tail = tail[t])
  BY DEF CacheIsTrue
<1>3. len[t] <= len'[t] /\ (len'[t] = len[t] => tail'[t] = tail[t])
  BY DEF Grows
<1> QED BY <1>1, <1>2, <1>3

LEMMA FinishKnows ==
    ASSUME TypeOK, TypeOK', Known, Grows, Finished, UNCHANGED cache
    PROVE  Known'
<1>1. CacheIsTrue'
  BY CacheLasts DEF Known
<1>2. job'.at = "idle" /\ job'.owner = Nobody /\ ~ job'.answered /\ ~ steady'
  BY DEF Finished, NoJob
<1>3. JobIsPlaced'
  BY <1>2 DEF JobIsPlaced
<1>4. SteadyRuns' /\ NotMissed' /\ LiveTurnsLookLive'
  BY <1>2 DEF SteadyRuns, NotMissed, LiveTurnsLookLive
<1>5. OwnerHolds'
  BY <1>2, NamesDiffer DEF OwnerHolds
<1> QED BY <1>1, <1>3, <1>4, <1>5 DEF Known

(* A step of codex under a look *)
LEMMA WatchKnows ==
    ASSUME TypeOK, TypeOK', Known, Grows, Keeps, UNCHANGED <<job, cache>>,
           steady' => /\ steady
                      /\ turn'[job.thread] = turn[job.thread]
                      /\ job.thread \in cut => job.thread \in cut'
    PROVE  Known'
<1>1. CacheIsTrue'
  BY CacheLasts DEF Known
<1>2. JobIsPlaced'
  <2>1. job.at = "tail" => job.key <= len'[job.thread]
    <3> SUFFICES ASSUME job.at = "tail" PROVE job.key <= len'[job.thread]
      OBVIOUS
    <3>1. job.thread \in Threads /\ job.key <= len[job.thread]
      BY DEF Known, JobIsPlaced
    <3>2. len[job.thread] <= len'[job.thread]
      BY <3>1 DEF Grows
    <3>3. job.key \in Nat /\ len[job.thread] \in Nat /\ len'[job.thread] \in Nat
      BY <3>1 DEF TypeOK, Jobs
    <3> QED BY <3>1, <3>2, <3>3
  <2> QED BY <2>1 DEF Known, JobIsPlaced, Refused
<1>3. SteadyRuns' /\ NotMissed' /\ LiveTurnsLookLive'
  BY DEF Known, SteadyRuns, NotMissed, LiveTurnsLookLive, Running
<1>4. OwnerHolds'
  BY DEF Known, OwnerHolds, Keeps
<1> QED BY <1>1, <1>2, <1>3, <1>4 DEF Known

LEMMA CodexKnows ==
    ASSUME TypeOK, TypeOK', Known, Grows, Keeps, CodexStep
    PROVE  Known'
<1>1. steady => job.thread \in Threads
  BY DEF Known, SteadyRuns, JobIsPlaced
<1>2. ASSUME NEW p \in Processes, NEW t \in Threads, Open(p, t) PROVE Known'
  BY <1>2, WatchKnows DEF Open, Load
<1>3. ASSUME NEW p \in Processes, NEW t \in Threads, Begin(p, t) PROVE Known'
  <2>1. turn'[t] # turn[t]
    BY <1>3, NamesDiffer DEF Begin, Running, TypeOK
  <2>2. steady' => steady /\ turn'[job.thread] = turn[job.thread]
    BY <1>1, <1>3 DEF Begin, Watch
  <2>3. steady' => (job.thread \in cut => job.thread \in cut')
    BY <1>3, <2>1, <2>2 DEF Begin
  <2> QED BY <1>3, <2>2, <2>3, WatchKnows DEF Begin
<1>4. ASSUME Watch PROVE steady' => steady /\ turn'[job.thread] = turn[job.thread]
  BY <1>1, <1>4 DEF Watch
<1>5. ASSUME NEW t \in Threads, Ask(t) PROVE Known'
  BY <1>5, WatchKnows DEF Ask
<1>6. ASSUME NEW t \in Threads, End(t) PROVE Known'
  BY <1>4, <1>6, WatchKnows DEF End
<1>7. ASSUME NEW p \in Processes, StartServer(p) PROVE Known'
  BY <1>7, WatchKnows DEF StartServer
<1>8. ASSUME NEW p \in Processes, Exit(p) PROVE Known'
  BY <1>4, <1>8, WatchKnows DEF Exit
<1> QED BY <1>2, <1>3, <1>5, <1>6, <1>7, <1>8 DEF CodexStep

(* A step of the look itself, that leaves it somewhere *)
Moved(at, key, answered) ==
    /\ UNCHANGED <<codex, cache, steady>>
    /\ job.at \in {"sweep", "row", "read"}
    /\ IF job.at = "sweep" THEN job.todo = {} /\ at = "stat"
                           ELSE at \in {"read", "interrupt", "local", "remote"}
    /\ at \in {"read", "interrupt"} => job.kind = "stop"
    /\ at \in {"local", "remote"} => job.kind = "attach"
    /\ at = "remote" => job.owner \in Servers
    /\ at = "local" => IF job.owner \in Servers THEN ~ answered ELSE ~ Refused
    /\ answered => at \in {"remote", "read", "interrupt"}
    /\ job' = [job EXCEPT !.at = at, !.key = key, !.answered = answered]

LEMMA MoveKnows ==
    ASSUME TypeOK, World, Known, NEW at, NEW key, NEW answered, Moved(at, key, answered)
    PROVE  Known'
<1>1. /\ job'.at = at /\ job'.thread = job.thread /\ job'.owner = job.owner
      /\ job'.kind = job.kind /\ job'.status = job.status /\ job'.todo = job.todo
      /\ job'.answered = answered
  BY DEF Moved, TypeOK, Jobs
<1>2. CacheIsTrue'
  BY DEF Moved, Known, CacheIsTrue, codex
<1>3. JobIsPlaced'
  BY <1>1 DEF Moved, Known, JobIsPlaced, Refused
<1>4. SteadyRuns' /\ NotMissed'
  BY <1>1 DEF Moved, Known, SteadyRuns, NotMissed, Running, codex
<1>5. OwnerHolds'
  BY <1>1 DEF Moved, Known, OwnerHolds, codex
<1>6. LiveTurnsLookLive'
  BY <1>1 DEF Moved, Known, LiveTurnsLookLive, codex
<1> QED BY <1>2, <1>3, <1>4, <1>5, <1>6 DEF Known

(* The row of a look, from a tail that was the rollout's when it mattered *)
LEMMA RowKnows ==
    ASSUME TypeOK, World, Known, UNCHANGED <<codex, steady>>, CacheIsTrue',
           job.at \in {"stat", "tail"}, NEW ending, ending = tail[job.thread],
           job' = Resolved(0, ending)
    PROVE  Known'
<1>1. /\ job'.at = "row" /\ job'.thread = job.thread /\ job'.owner = job.owner
      /\ job'.status = StatusFrom(job.owner, ending) /\ job'.answered = job.answered
  BY DEF Resolved, TypeOK, Jobs
<1>2. JobIsPlaced'
  BY <1>1 DEF Known, JobIsPlaced
<1>3. SteadyRuns' /\ NotMissed'
  BY <1>1 DEF Known, SteadyRuns, NotMissed, Running, codex
<1>4. OwnerHolds'
  BY <1>1 DEF Known, OwnerHolds, codex
<1>5. LiveTurnsLookLive'
  <2> SUFFICES ASSUME steady, job.thread \notin cut PROVE job'.status \in Live
    BY <1>1 DEF LiveTurnsLookLive, codex
  <2>1. job.thread \in Threads /\ Running(job.thread) /\ job.owner # Nobody
    BY DEF Known, JobIsPlaced, SteadyRuns, NotMissed
  <2>2. ending \in {"midTurn", "approval"}
    BY <2>1 DEF World, LiveTails
  <2> QED BY <1>1, <2>1, <2>2, LiveStatus
<1> QED BY <1>2, <1>3, <1>4, <1>5 DEF Known

LEMMA LookKnows ==
    ASSUME TypeOK, TypeOK', World, Known, Grows, LookStep
    PROVE  Known'
<1>1. ASSUME NEW kind \in {"list", "attach", "stop"}, NEW t \in Threads, Look(kind, t)
      PROVE  Known'
  <2>1. /\ job'.at = "sweep" /\ job'.thread = t /\ job'.owner = Nobody
        /\ job'.todo = Processes /\ ~ job'.answered
    BY <1>1 DEF Look, NoJob
  <2>2. CacheIsTrue'
    BY <1>1 DEF Look, Known, CacheIsTrue, codex
  <2>3. JobIsPlaced' /\ LiveTurnsLookLive'
    BY <2>1 DEF JobIsPlaced, LiveTurnsLookLive
  <2>4. SteadyRuns' /\ NotMissed'
    BY <1>1, <2>1 DEF Look, SteadyRuns, NotMissed, Running, codex, TypeOK, Turns
  <2>5. OwnerHolds'
    BY <2>1, NamesDiffer DEF OwnerHolds
  <2> QED BY <2>2, <2>3, <2>4, <2>5 DEF Known
<1>2. ASSUME NEW p \in Processes, Visit(p) PROVE Known'
  <2>1. /\ job'.at = "sweep" /\ job'.thread = job.thread /\ job'.todo = job.todo \ {p}
        /\ job'.kind = job.kind /\ job'.answered = job.answered
        /\ job'.owner = IF job.thread \in held[p] THEN Owner(job.owner, p) ELSE job.owner
    BY <1>2 DEF Visit, TypeOK, Jobs
  <2>2. CacheIsTrue'
    BY <1>2 DEF Visit, Known, CacheIsTrue, codex
  <2>3. JobIsPlaced' /\ LiveTurnsLookLive'
    BY <1>2, <2>1 DEF Visit, Known, JobIsPlaced, LiveTurnsLookLive
  <2>4. SteadyRuns'
    BY <1>2, <2>1 DEF Visit, Known, SteadyRuns, Running, codex
  <2>5. Owner(job.owner, p) # Nobody
    BY NamesDiffer DEF Owner
  <2>6. NotMissed'
    <3> SUFFICES ASSUME steady, job'.owner = Nobody
                 PROVE  turn[job.thread].by \in job'.todo
      BY <1>2, <2>1 DEF Visit, NotMissed, codex
    <3>1. job.owner = Nobody /\ job.thread \notin held[p]
      BY <2>1, <2>5
    <3>2. turn[job.thread].by \in job.todo
      BY <1>2, <3>1 DEF Known, NotMissed
    <3>3. job.thread \in held[turn[job.thread].by]
      BY <1>2 DEF Visit, Known, JobIsPlaced, SteadyRuns, World, RunnersHold
    <3> QED BY <2>1, <3>1, <3>2, <3>3
  <2>7. OwnerHolds'
    <3>1. CASE job'.owner = job.owner
      BY <1>2, <2>1, <3>1 DEF Visit, Known, OwnerHolds, codex
    <3>2. CASE job'.owner = p /\ job.thread \in held[p]
      BY <1>2, <2>1, <3>2 DEF Visit, OwnerHolds, World, HoldersAreUp, codex
    <3> QED BY <2>1, <3>1, <3>2 DEF Owner
  <2> QED BY <2>2, <2>3, <2>4, <2>6, <2>7 DEF Known
<1>3. CASE EndSweep
  <2>1. job' = [job EXCEPT !.at = "stat", !.key = job.key, !.answered = job.answered]
    BY <1>3 DEF EndSweep, TypeOK, Jobs
  <2>2. Moved("stat", job.key, job.answered)
    BY <1>3, <2>1 DEF EndSweep, Moved, Known, JobIsPlaced
  <2> QED BY <2>2, MoveKnows
<1>4. ASSUME NEW t \in Threads, Stat(t) PROVE Known'
  <2>1. CacheIsTrue'
    BY <1>4 DEF Stat, Known, CacheIsTrue, codex
  <2>2. CASE Cached(t)
    <3>1. cache[t].tail = tail[job.thread]
      BY <1>4, <2>2 DEF Stat, Cached, Known, CacheIsTrue
    <3> QED BY <1>4, <2>1, <2>2, <3>1, RowKnows DEF Stat
  <2>3. CASE ~ Cached(t)
    <3>1. /\ job'.at = "tail" /\ job'.thread = t /\ job'.owner = job.owner
          /\ job'.key = len[t] /\ len[t] <= len[t] /\ job'.answered = job.answered
      BY <1>4, <2>3 DEF Stat, TypeOK, Jobs
    <3>2. JobIsPlaced' /\ LiveTurnsLookLive'
      BY <1>4, <3>1 DEF Stat, Known, JobIsPlaced, LiveTurnsLookLive, codex
    <3>3. SteadyRuns' /\ NotMissed'
      BY <1>4, <3>1 DEF Stat, Known, SteadyRuns, NotMissed, Running, codex
    <3>4. OwnerHolds'
      BY <1>4, <3>1 DEF Stat, Known, OwnerHolds, codex
    <3> QED BY <2>1, <3>2, <3>3, <3>4 DEF Known
  <2> QED BY <2>2, <2>3
<1>5. ASSUME NEW t \in Threads, ReadTail(t) PROVE Known'
  <2>1. CacheIsTrue'
    <3>1. CASE job.kind = "list"
      <4>1. cache' = [cache EXCEPT ![t] = [key |-> job.key, tail |-> tail[t]]]
            /\ UNCHANGED <<tail, len>>
        BY <1>5, <3>1 DEF ReadTail, codex
      <4>2. job.key <= len[t]
        BY <1>5 DEF ReadTail, Known, JobIsPlaced
      <4> QED BY <4>1, <4>2 DEF Known, CacheIsTrue, TypeOK
    <3>2. CASE job.kind # "list"
      BY <1>5, <3>2 DEF ReadTail, Known, CacheIsTrue, codex
    <3> QED BY <3>1, <3>2
  <2> QED BY <1>5, <2>1, RowKnows DEF ReadTail
<1>6. CASE Shown
  BY <1>6, FinishKnows DEF Shown
<1> QED BY <1>1, <1>2, <1>3, <1>4, <1>5, <1>6 DEF LookStep

LEMMA StopKnows ==
    ASSUME TypeOK, TypeOK', World, Known, Grows, StopStep
    PROVE  Known'
<1>1. CASE Finished /\ UNCHANGED cache
  BY <1>1, FinishKnows
<1>2. CASE StopHosted
  <2>1. CASE job' = [job EXCEPT !.at = "read", !.answered = TRUE] /\ UNCHANGED steady
    <3>1. job' = [job EXCEPT !.at = "read", !.key = job.key, !.answered = TRUE]
      BY <2>1 DEF TypeOK, Jobs
    <3>2. Moved("read", job.key, TRUE)
      BY <1>2, <2>1, <3>1 DEF StopHosted, Moved
    <3> QED BY <3>2, MoveKnows
  <2> QED BY <1>1, <1>2, <2>1 DEF StopHosted, Probe
<1>3. ASSUME NEW t \in Threads, ReadTurn(t) PROVE Known'
  <2>1. CASE job' = [job EXCEPT !.at = "interrupt", !.key = turn[t].id] /\ UNCHANGED steady
    <3>1. job' = [job EXCEPT !.at = "interrupt", !.key = turn[t].id, !.answered = job.answered]
      BY <2>1 DEF TypeOK, Jobs
    <3>2. job.kind = "stop"
      BY <1>3 DEF ReadTurn, Known, JobIsPlaced
    <3>3. Moved("interrupt", turn[t].id, job.answered)
      BY <1>3, <2>1, <3>1, <3>2 DEF ReadTurn, Moved
    <3> QED BY <3>3, MoveKnows
  <2> QED BY <1>1, <1>3, <2>1 DEF ReadTurn
<1> QED BY <1>1, <1>2, <1>3 DEF StopStep, StopUnsupported, Signal, Interrupt, StopFails

LEMMA AttachKnows ==
    ASSUME TypeOK, TypeOK', World, Known, Grows, AttachStep
    PROVE  Known'
<1>1. CASE Finished /\ UNCHANGED cache
  BY <1>1, FinishKnows
<1>2. CASE AttachOwn
  <2>1. job' = [job EXCEPT !.at = "local", !.key = job.key, !.answered = job.answered]
    BY <1>2 DEF AttachOwn, TypeOK, Jobs
  <2>2. ~ job.answered
    BY <1>2 DEF AttachOwn, Known, JobIsPlaced
  <2>3. Moved("local", job.key, job.answered)
    BY <1>2, <2>1, <2>2 DEF AttachOwn, Moved
  <2> QED BY <2>3, MoveKnows
<1>3. CASE AttachHosted
  <2>1. CASE job' = [job EXCEPT !.at = "remote", !.answered = TRUE] /\ UNCHANGED steady
    <3>1. job' = [job EXCEPT !.at = "remote", !.key = job.key, !.answered = TRUE]
      BY <2>1 DEF TypeOK, Jobs
    <3>2. Moved("remote", job.key, TRUE)
      BY <1>3, <2>1, <3>1 DEF AttachHosted, Moved
    <3> QED BY <3>2, MoveKnows
  <2>2. CASE job' = [job EXCEPT !.at = "local"] /\ UNCHANGED steady
    <3>1. ~ job.answered
      BY <1>3 DEF AttachHosted, Known, JobIsPlaced
    <3>2. job' = [job EXCEPT !.at = "local", !.key = job.key, !.answered = job.answered]
      BY <2>2 DEF TypeOK, Jobs
    <3>3. Moved("local", job.key, job.answered)
      BY <1>3, <2>2, <3>1, <3>2 DEF AttachHosted, Moved
    <3> QED BY <3>3, MoveKnows
  <2> QED BY <1>3, <2>1, <2>2 DEF AttachHosted, Probe
<1> QED BY <1>1, <1>2, <1>3 DEF AttachStep, AttachRefused, LaunchLocal, LaunchRemote, AttachDropped

-----------------------------------------------------------------------------
(* The inductive invariant, and what follows from it *)

IInv == TypeOK /\ World /\ Known

LEMMA InitKnown == Init => World /\ Known
<1> SUFFICES ASSUME Init PROVE World /\ Known
  OBVIOUS
<1>1. \A t \in Threads : ~ Running(t)
  BY DEF Init, Running, NoTurn
<1>2. World
  BY <1>1, NamesDiffer DEF Init, World, RunnersHold, HoldersAreUp, OneFamily, LiveTails
<1>3. job.at = "idle" /\ job.owner = Nobody /\ ~ job.answered /\ ~ steady
  BY DEF Init, NoJob
<1>4. CacheIsTrue
  BY DEF Init, CacheIsTrue
<1>5. JobIsPlaced /\ SteadyRuns /\ NotMissed /\ LiveTurnsLookLive
  BY <1>3 DEF JobIsPlaced, SteadyRuns, NotMissed, LiveTurnsLookLive
<1>6. OwnerHolds
  BY <1>3, NamesDiffer DEF OwnerHolds
<1> QED BY <1>2, <1>4, <1>5, <1>6 DEF Known

LEMMA NextKnown == IInv /\ [Next]_vars => IInv'
<1> SUFFICES ASSUME IInv, [Next]_vars PROVE IInv'
  OBVIOUS
<1>1. TypeOK /\ TypeOK' /\ World /\ World' /\ Known /\ Grows /\ Keeps
  BY NextTyped, StepKeeps DEF IInv
<1>2. CASE CodexStep
  BY <1>1, <1>2, CodexKnows DEF IInv
<1>3. CASE LookStep
  BY <1>1, <1>3, LookKnows DEF IInv
<1>4. CASE StopStep
  BY <1>1, <1>4, StopKnows DEF IInv
<1>5. CASE AttachStep
  BY <1>1, <1>5, AttachKnows DEF IInv
<1>6. CASE UNCHANGED vars
  BY <1>1, <1>6, WatchKnows DEF vars, codex, IInv
<1> QED BY <1>2, <1>3, <1>4, <1>5, <1>6 DEF Next

LEMMA Invariant == Spec => []IInv
<1>1. Init => IInv
  BY InitTyped, InitKnown DEF IInv
<1> QED BY <1>1, NextKnown, PTL DEF Spec

(* A turn that runs from before the sweep until the row is read is shown   *)
(* as running, unless a resume has called it aborted.                      *)
(* (codex/status.rs:69, 279, 341)                                          *)
THEOREM LiveTurnsSeen == Spec => []LiveTurnsLookLive
<1>1. IInv => LiveTurnsLookLive
  BY DEF IInv, Known
<1> QED BY <1>1, Invariant, PTL

LEMMA SignalEndsItsOwn ==
    ASSUME IInv, Signal, NEW t \in Threads, Running(t), turn'[t] # turn[t]
    PROVE  job.thread = Root[t]
<1>1. process[job.owner] = "up" /\ turn[t].by = job.owner
  BY DEF Signal, Gone, IInv, TypeOK
<1>2. job.owner \in Procs /\ Root[job.thread] = job.thread
  BY DEF Signal, Signalled, IsSubagent
<1>3. t \in held[job.owner]
  BY <1>1 DEF IInv, World, RunnersHold
<1>4. job.thread \in held[job.owner]
  BY <1>1, <1>2 DEF IInv, Known, OwnerHolds
<1> QED BY <1>2, <1>3, <1>4 DEF IInv, World, OneFamily

(* What a stop ends, by a signal or an interrupt, is a turn of its session *)
(* or of a subagent of it.  (codex/mod.rs:234, 723)                        *)
THEOREM StopsStayHome == Spec => StopsEndOnlyTheirSession
<1>1. ASSUME IInv, [Next]_vars, job.kind = "stop", job' # job,
             NEW t \in Threads, Running(t), turn'[t] # turn[t]
      PROVE  job.thread \in {t, Root[t]}
  <2>1. CASE CodexStep
    BY <1>1, <2>1 DEF CodexStep, Open, Begin, Ask, End, StartServer, Exit
  <2>2. LookStep => UNCHANGED turn
    BY DEF LookStep, Look, Visit, EndSweep, Stat, ReadTail, Shown, codex
  <2>3. AttachStep => UNCHANGED turn
    BY DEF AttachStep, AttachRefused, AttachOwn, AttachHosted, LaunchLocal, LaunchRemote,
           AttachDropped, Load, codex
  <2>4. StopStep => \/ UNCHANGED turn
                    \/ Signal
                    \/ \E u \in Threads : Interrupt(u)
    BY DEF StopStep, StopUnsupported, StopHosted, ReadTurn, StopFails, codex
  <2>5. CASE Signal
    BY <1>1, <2>5, SignalEndsItsOwn
  <2>6. ASSUME NEW u \in Threads, Interrupt(u) PROVE job.thread = t
    BY <1>1, <2>6 DEF Interrupt, IInv, TypeOK
  <2>7. UNCHANGED vars => UNCHANGED turn
    BY DEF vars, codex
  <2> QED BY <1>1, <2>1, <2>2, <2>3, <2>4, <2>5, <2>6, <2>7 DEF Next
<1>2. IInv /\ [Next]_vars =>
        [job.kind = "stop" /\ job' # job
           => \A t \in Threads : Running(t) /\ turn'[t] # turn[t]
                => job.thread \in {t, Root[t]}]_vars
  BY <1>1
<1> QED BY <1>2, Invariant, PTL DEF Spec, StopsEndOnlyTheirSession

LEMMA LocalCutsNoSeenTurn ==
    ASSUME IInv, NEW p \in Processes, NEW t \in Threads, LaunchLocal(p, t), t \notin cut, steady
    PROVE  job.owner \in Servers /\ ~ job.answered
<1>1. job.at = "local" /\ job.thread = t
  BY DEF LaunchLocal
<1>2. job.owner # Nobody
  BY <1>1 DEF IInv, Known, NotMissed
<1>3. job.status \in Live
  BY <1>1 DEF IInv, Known, LiveTurnsLookLive
<1> QED BY <1>1, <1>2, <1>3 DEF IInv, Known, JobIsPlaced, Refused

LEMMA RemoteCutsNoManagedTurn ==
    ASSUME IInv, NEW t \in Threads, LaunchRemote(t), t \in cut' \ cut
    PROVE  job.owner \in Servers /\ turn[t].by # Managed
<1>1. job.owner \in Servers
  BY DEF LaunchRemote, IInv, Known, JobIsPlaced
<1>2. CanLoad(Managed, t)
  BY DEF LaunchRemote, codex
<1>3. t \notin held[Managed]
  BY <1>2, NamesDiffer DEF CanLoad, IInv, World, HoldersAreUp
<1> QED BY <1>1, <1>3, NamesDiffer DEF IInv, World, RunnersHold, Running

(* An attach calls no turn aborted that ran since before the look, but     *)
(* where an app-server has the rollout open and the managed one does not   *)
(* answer or does not run the turn.  (codex/mod.rs:116, 747)               *)
THEOREM AttachForksNoTurn == Spec => NoTurnForked
<1>1. ASSUME IInv, [Next]_vars, NEW t \in Threads,
             job.kind = "attach", job' # job, t \in cut' \ cut
      PROVE  \/ ~ steady
             \/ job.owner \in Servers /\ (~ job.answered \/ turn[t].by # Managed)
  <2>1. CASE CodexStep
    BY <1>1, <2>1 DEF CodexStep, Open, Begin, Ask, End, StartServer, Exit
  <2>2. LookStep => UNCHANGED cut
    BY DEF LookStep, Look, Visit, EndSweep, Stat, ReadTail, Shown, codex
  <2>3. StopStep => UNCHANGED cut
    BY DEF StopStep, StopUnsupported, Signal, StopHosted, ReadTurn, Interrupt, StopFails, codex
  <2>4. AttachStep => \/ UNCHANGED cut
                      \/ \E p \in Processes, u \in Threads : LaunchLocal(p, u)
                      \/ \E u \in Threads : LaunchRemote(u)
    BY DEF AttachStep, AttachRefused, AttachOwn, AttachHosted, AttachDropped, codex
  <2>5. ASSUME NEW p \in Processes, NEW u \in Threads, LaunchLocal(p, u), steady
        PROVE  job.owner \in Servers /\ ~ job.answered
    <3>1. u = t
      BY <1>1, <2>5 DEF LaunchLocal, Load
    <3> QED BY <1>1, <2>5, <3>1, LocalCutsNoSeenTurn
  <2>6. ASSUME NEW u \in Threads, LaunchRemote(u)
        PROVE  job.owner \in Servers /\ turn[t].by # Managed
    <3>1. u = t
      BY <1>1, <2>6 DEF LaunchRemote, Load, codex
    <3> QED BY <1>1, <2>6, <3>1, RemoteCutsNoManagedTurn
  <2>7. UNCHANGED vars => UNCHANGED cut
    BY DEF vars, codex
  <2> QED BY <1>1, <2>1, <2>2, <2>3, <2>4, <2>5, <2>6, <2>7 DEF Next
<1>2. IInv /\ [Next]_vars =>
        [\A t \in Threads :
           job.kind = "attach" /\ job' # job /\ t \in cut' \ cut
             => \/ ~ steady
                \/ job.owner \in Servers /\ (~ job.answered \/ turn[t].by # Managed)]_vars
  BY <1>1
<1> QED BY <1>2, Invariant, PTL DEF Spec, NoTurnForked
=============================================================================
