---------------------------- MODULE CodexThreads ----------------------------
(***************************************************************************)
(* How the codex backend looks at a thread and what it then does to it:    *)
(* the sweep over the codex processes, the rollout's tail and its cache,   *)
(* and the routes of stop and attach, while turns begin and end, processes *)
(* come and go, and others resume the same thread.                         *)
(*                                                                         *)
(* One look at one thread at a time: a row of the refresh worker's         *)
(* listing, or the resolution of a stop or an attach by a backend of its   *)
(* own.  What codex itself does is external and modelled as the comments   *)
(* in the source report it.                                                *)
(***************************************************************************)
EXTENDS Naturals

CONSTANTS Threads, NoThread,
          Root,       \* a subagent's session, a session itself
          Procs,      \* codex processes that host one session each
          Managed,    \* the app-server daemon behind the control socket
          Others,     \* app-servers that listen elsewhere
          Nobody,
          Listed,     \* bound: the threads the refresh worker looks at
          MaxLen,     \* bound: appends to each rollout
          MaxFaults   \* bound: app-servers that die

Servers == {Managed} \cup Others
Processes == Procs \cup Servers

ASSUME NameAssumption == /\ NoThread \notin Threads
                         /\ Nobody \notin Processes
                         /\ Servers \cap Procs = {}
ASSUME RootAssumption == /\ Root \in [Threads -> Threads]
                         /\ \A t \in Threads : Root[Root[t]] = Root[t]
ASSUME BoundAssumption == Listed \subseteq Threads /\ MaxLen \in [Threads -> Nat] /\ MaxFaults \in Nat

VARIABLES process,  \* per process: not up yet, up, or gone for good
          held,     \* per process: the threads whose rollout it has open
          turn,     \* per thread: the process that runs its turn, and the turn's id
          tail,     \* per thread: what the end of its rollout says
          len,      \* per thread: the length of its rollout
          cut,      \* the threads whose running turn the rollout calls aborted
          cache,    \* the refresh worker's StatusResolver
          job,      \* the look in progress
          steady,   \* one turn of its thread has been running since it began
          faults

codex == <<process, held, turn, tail, len, cut, faults>>
vars == <<codex, cache, job, steady>>

Tails == {"none", "midTurn", "approval", "complete"}
Live == {"working", "needsInput"}
Statuses == Live \cup {"idle", "done", "error"}

Turns == [by : Processes \cup {Nobody}, id : Nat]
NoTurn == [by |-> Nobody, id |-> 0]
Entries == [key : Nat, tail : Tails]
NoEntry == [key |-> 0, tail |-> "none"]

Jobs == [kind : {"none", "list", "attach", "stop"},
         thread : Threads \cup {NoThread},
         at : {"idle", "sweep", "stat", "tail", "row", "local", "remote", "read", "interrupt"},
         todo : SUBSET Processes, owner : Processes \cup {Nobody},
         key : Nat, status : Statuses, answered : BOOLEAN]
NoJob == [kind |-> "none", thread |-> NoThread, at |-> "idle", todo |-> {},
          owner |-> Nobody, key |-> 0, status |-> "error", answered |-> FALSE]

TypeOK ==
    /\ process \in [Processes -> {"down", "up", "gone"}]
    /\ held \in [Processes -> SUBSET Threads]
    /\ turn \in [Threads -> Turns]
    /\ tail \in [Threads -> Tails]
    /\ len \in [Threads -> Nat]
    /\ cut \subseteq Threads
    /\ cache \in [Threads -> Entries]
    /\ job \in Jobs
    /\ steady \in BOOLEAN
    /\ faults \in 0 .. MaxFaults

Init ==
    /\ process = [p \in Processes |-> "down"]
    /\ held = [p \in Processes |-> {}]
    /\ turn = [t \in Threads |-> NoTurn]
    /\ tail = [t \in Threads |-> "none"]
    /\ len = [t \in Threads |-> 0]
    /\ cut = {}
    /\ cache = [t \in Threads |-> NoEntry]
    /\ job = NoJob
    /\ steady = FALSE
    /\ faults = 0

Running(t) == turn[t].by # Nobody
IsSubagent(t) == Root[t] # t

(* steady follows the turn of the thread that is looked at *)
Watch == steady' = (steady /\ \A t \in Threads : job.thread = t => turn'[t] = turn[t])

-----------------------------------------------------------------------------
(* codex: processes, turns and rollouts *)

Appended(t, ending) == /\ tail' = [tail EXCEPT ![t] = ending]
                       /\ len' = [len EXCEPT ![t] = @ + 1]

(* A process opens a thread it does not have: a turn the rollout leaves    *)
(* unfinished is called aborted, also one that runs elsewhere              *)
Load(p, t) ==
    /\ process' = [process EXCEPT ![p] = "up"]
    /\ held' = [held EXCEPT ![p] = @ \cup {t}]
    /\ IF tail[t] \in {"midTurn", "approval"}
       THEN len[t] < MaxLen[t] /\ Appended(t, "complete")
       ELSE UNCHANGED <<tail, len>>
    /\ cut' = IF Running(t) THEN cut \cup {t} ELSE cut
    /\ UNCHANGED <<turn, faults>>

CanLoad(p, t) == \/ p \in Procs /\ process[p] = "down"
                 \/ p \in Servers /\ process[p] = "up" /\ t \notin held[p]

Open(p, t) ==
    /\ CanLoad(p, t)
    /\ Load(p, t)
    /\ UNCHANGED <<cache, job, steady>>

StartServer(p) ==
    /\ p \in Servers
    /\ process[p] = "down"
    /\ process' = [process EXCEPT ![p] = "up"]
    /\ UNCHANGED <<held, turn, tail, len, cut, faults, cache, job, steady>>

(* A process runs turns of what it has open, and of the subagents it starts *)
Begin(p, t) ==
    /\ process[p] = "up"
    /\ t \in held[p] \/ (IsSubagent(t) /\ turn[Root[t]].by = p)
    /\ ~ Running(t)
    /\ len[t] < MaxLen[t]
    /\ held' = [held EXCEPT ![p] = @ \cup {t}]
    /\ turn' = [turn EXCEPT ![t] = [by |-> p, id |-> len[t] + 1]]
    /\ Appended(t, "midTurn")
    /\ cut' = cut \ {t}
    /\ Watch
    /\ UNCHANGED <<process, faults, cache, job>>

(* An approval stays the last word of the rollout until the turn ends *)
Ask(t) ==
    /\ Running(t)
    /\ tail[t] = "midTurn"
    /\ len[t] < MaxLen[t]
    /\ Appended(t, "approval")
    /\ UNCHANGED <<process, held, turn, cut, faults, cache, job, steady>>

End(t) ==
    /\ Running(t)
    /\ len[t] < MaxLen[t]
    /\ Appended(t, "complete")
    /\ turn' = [turn EXCEPT ![t] = NoTurn]
    /\ Watch
    /\ UNCHANGED <<process, held, cut, faults, cache, job>>

(* The turns of a process end with it, and their rollouts say nothing of it *)
Gone(p) ==
    /\ process' = [process EXCEPT ![p] = IF p \in Servers THEN "down" ELSE "gone"]
    /\ held' = [held EXCEPT ![p] = {}]
    /\ turn' = [t \in Threads |-> IF turn[t].by = p THEN NoTurn ELSE turn[t]]

Exit(p) ==
    /\ process[p] = "up"
    /\ p \in Servers => faults < MaxFaults
    /\ faults' = IF p \in Servers THEN faults + 1 ELSE faults
    /\ Gone(p)
    /\ Watch
    /\ UNCHANGED <<tail, len, cut, cache, job>>

-----------------------------------------------------------------------------
(* The look: one sweep over /proc, then the rollout *)

Look(kind, t) ==
    /\ job = NoJob
    /\ kind = "list" => t \in Listed
    /\ job' = [NoJob EXCEPT !.kind = kind, !.thread = t, !.at = "sweep", !.todo = Processes]
    /\ steady' = Running(t)
    /\ UNCHANGED <<codex, cache>>

(* Mutant: every holder is kept *)
OwnerAll(known, p) == IF known = Nobody THEN p ELSE {known, p}

(* record_owner: an app-server takes the entry, whoever came first *)
Owner(known, p) == IF known = Nobody \/ (p \in Servers /\ known \notin Servers)
                   THEN p ELSE known

Visit(p) ==
    /\ job.at = "sweep"
    /\ p \in job.todo
    /\ job' = [job EXCEPT !.todo = @ \ {p},
                          !.owner = IF job.thread \in held[p] THEN Owner(@, p) ELSE @]
    /\ UNCHANGED <<codex, cache, steady>>

EndSweep ==
    /\ job.at = "sweep"
    /\ job.todo = {}
    /\ job' = [job EXCEPT !.at = "stat"]
    /\ UNCHANGED <<codex, cache, steady>>

(* status_from. A complete tail under an app-server is idle while a client *)
(* sits in the thread: nothing here tells that from done.                  *)
StatusFrom(owner, ending) ==
    CASE owner = Nobody -> IF ending = "complete" THEN "done" ELSE "error"
      [] ending = "approval" -> "needsInput"
      [] ending = "complete" -> IF owner \in Servers THEN "done" ELSE "idle"
      [] OTHER -> "working"

Resolved(key, ending) == [job EXCEPT !.at = "row", !.key = key,
                                     !.status = StatusFrom(job.owner, ending)]

(* Mutant: an entry is never too old *)
CachedEver(t) == job.kind = "list" /\ cache[t] # NoEntry

Cached(t) == job.kind = "list" /\ cache[t] # NoEntry /\ cache[t].key = len[t]

(* The key is read first, and the rollout only if the cache lacks it *)
Stat(t) ==
    /\ job.at = "stat"
    /\ job.thread = t
    /\ job' = IF Cached(t) THEN Resolved(0, cache[t].tail)
                           ELSE [job EXCEPT !.at = "tail", !.key = len[t]]
    /\ UNCHANGED <<codex, cache, steady>>

ReadTail(t) ==
    /\ job.at = "tail"
    /\ job.thread = t
    /\ job' = Resolved(0, tail[t])
    /\ cache' = IF job.kind = "list"
                THEN [cache EXCEPT ![t] = [key |-> job.key, tail |-> tail[t]]] ELSE cache
    /\ UNCHANGED <<codex, steady>>

Finished == job' = NoJob /\ steady' = FALSE

Shown ==
    /\ job.kind = "list"
    /\ job.at = "row"
    /\ Finished
    /\ UNCHANGED <<codex, cache>>

-----------------------------------------------------------------------------
(* Stop *)

(* Mutant: the pid on a subagent's row is taken for its own *)
SignalledAny == job.owner \in Procs

(* stop_route: an app-server is asked, a session's own process is          *)
(* signalled, and a subagent has no process of its own                     *)
Signalled == job.owner \in Procs /\ ~ IsSubagent(job.thread)

StopUnsupported ==
    /\ job.kind = "stop"
    /\ job.at = "row"
    /\ job.owner \notin Servers
    /\ ~ Signalled
    /\ Finished
    /\ UNCHANGED <<codex, cache>>

(* terminate: the process may be gone already, and its turns may or may    *)
(* not be called aborted by it                                             *)
Signal ==
    /\ job.kind = "stop"
    /\ job.at = "row"
    /\ Signalled
    /\ IF process[job.owner] = "up" THEN Gone(job.owner) ELSE UNCHANGED <<process, held, turn>>
    /\ Finished
    /\ UNCHANGED <<tail, len, cut, faults, cache>>

(* probe_daemon answers with the managed app-server or not at all *)
Probe(then, otherwise) ==
    \/ /\ process[Managed] = "up"
       /\ job' = [job EXCEPT !.at = then, !.answered = TRUE]
       /\ UNCHANGED steady
    \/ otherwise

StopHosted ==
    /\ job.kind = "stop"
    /\ job.at = "row"
    /\ job.owner \in Servers
    /\ Probe("read", Finished)
    /\ UNCHANGED <<codex, cache>>

(* interrupt_thread: thread/read finds the turn to interrupt, or none *)
ReadTurn(t) ==
    /\ job.at = "read"
    /\ job.thread = t
    /\ \/ /\ turn[t].by = Managed
          /\ job' = [job EXCEPT !.at = "interrupt", !.key = turn[t].id]
          /\ UNCHANGED steady
       \/ turn[t].by # Managed /\ Finished
    /\ UNCHANGED <<codex, cache>>

Interrupt(t) ==
    /\ job.at = "interrupt"
    /\ job.thread = t
    /\ IF turn[t] = [by |-> Managed, id |-> job.key] /\ len[t] < MaxLen[t]
       THEN /\ Appended(t, "complete")
            /\ turn' = [turn EXCEPT ![t] = NoTurn]
       ELSE UNCHANGED <<tail, len, turn>>
    /\ Finished
    /\ UNCHANGED <<process, held, cut, faults, cache>>

(* A request or its answer is lost *)
StopFails ==
    /\ job.at \in {"read", "interrupt"}
    /\ Finished
    /\ UNCHANGED <<codex, cache>>

-----------------------------------------------------------------------------
(* Attach *)

(* Mutant: a session that waits for an approval is not taken for running *)
RefusedWorking == job.status = "working" /\ job.owner # Nobody

(* attach_route's refusal of a row that runs in a process of its own *)
Refused == job.status \in Live /\ job.owner # Nobody

AttachRefused ==
    /\ job.kind = "attach"
    /\ job.at = "row"
    /\ job.owner \notin Servers
    /\ Refused
    /\ Finished
    /\ UNCHANGED <<codex, cache>>

AttachOwn ==
    /\ job.kind = "attach"
    /\ job.at = "row"
    /\ job.owner \notin Servers
    /\ ~ Refused
    /\ job' = [job EXCEPT !.at = "local"]
    /\ UNCHANGED <<codex, cache, steady>>

AttachHosted ==
    /\ job.kind = "attach"
    /\ job.at = "row"
    /\ job.owner \in Servers
    /\ Probe("remote", job' = [job EXCEPT !.at = "local"] /\ UNCHANGED steady)
    /\ UNCHANGED <<codex, cache>>

(* codex resume opens the thread itself or through the managed app-server *)
LaunchLocal(p, t) ==
    /\ job.at = "local"
    /\ job.thread = t
    /\ p \notin Others
    /\ CanLoad(p, t)
    /\ Load(p, t)
    /\ Finished
    /\ UNCHANGED cache

LaunchRemote(t) ==
    /\ job.at = "remote"
    /\ job.thread = t
    /\ IF CanLoad(Managed, t) THEN Load(Managed, t) ELSE UNCHANGED codex
    /\ Finished
    /\ UNCHANGED cache

(* The plan lands when the user has moved on, or joins what is open already *)
AttachDropped ==
    /\ job.at \in {"local", "remote"}
    /\ Finished
    /\ UNCHANGED <<codex, cache>>

-----------------------------------------------------------------------------
CodexStep ==
    \/ \E p \in Processes, t \in Threads : Open(p, t) \/ Begin(p, t)
    \/ \E t \in Threads : Ask(t) \/ End(t)
    \/ \E p \in Processes : StartServer(p) \/ Exit(p)

LookStep ==
    \/ \E kind \in {"list", "attach", "stop"}, t \in Threads : Look(kind, t)
    \/ \E p \in Processes : Visit(p)
    \/ EndSweep
    \/ \E t \in Threads : Stat(t) \/ ReadTail(t)
    \/ Shown

StopStep ==
    \/ StopUnsupported
    \/ Signal
    \/ StopHosted
    \/ \E t \in Threads : ReadTurn(t) \/ Interrupt(t)
    \/ StopFails

AttachStep ==
    \/ AttachRefused
    \/ AttachOwn
    \/ AttachHosted
    \/ \E p \in Processes, t \in Threads : LaunchLocal(p, t)
    \/ \E t \in Threads : LaunchRemote(t)
    \/ AttachDropped

Next == CodexStep \/ LookStep \/ StopStep \/ AttachStep

Spec == Init /\ [][Next]_vars

-----------------------------------------------------------------------------
(* Safety: "telling working from finished is the whole point of the view": *)
(* a turn that runs from before the sweep until the row is read is shown   *)
(* as running, however the processes come and go in the sweep and whatever *)
(* the cache holds, unless somebody's resume has called it aborted.        *)
LiveTurnsLookLive ==
    (steady /\ job.status \notin Live /\ job.thread \notin cut)
        => job.at \notin {"row", "local", "remote", "read", "interrupt"}

(* Safety: "signalling it would kill the daemon and every other session    *)
(* inside it": what a stop ends, by a signal or an interrupt, is a turn of *)
(* its session or of a subagent of it.                                     *)
StopsEndOnlyTheirSession ==
    [][job.kind = "stop" /\ job' # job
         => \A t \in Threads : Running(t) /\ turn'[t] # turn[t]
              => job.thread \in {t, Root[t]}]_vars

(* Safety: "a plain resume of a live thread appends a synthesized          *)
(* TurnAborted to the rollout of a session that is still running": an      *)
(* attach does this to no turn that ran since before the look, but where   *)
(* an app-server has the rollout open and the managed one does not answer  *)
(* or does not run the turn.                                               *)
NoTurnForked ==
    [][\A t \in Threads :
         job.kind = "attach" /\ job' # job /\ t \in cut' \ cut
           => \/ ~ steady
              \/ job.owner \in Servers /\ (~ job.answered \/ turn[t].by # Managed)]_vars
=============================================================================
