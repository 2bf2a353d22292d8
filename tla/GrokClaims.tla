----------------------------- MODULE GrokClaims -----------------------------
(***************************************************************************)
(* The lookups behind the pull requests shown for Grok sessions.  Several  *)
(* viewer processes share two tables of viewer.db: which repository a      *)
(* folder belongs to, and the open pull requests of a repository.  Each    *)
(* pass of a viewer claims at most one entry that is due, runs one command *)
(* outside the database, writes the answer back if its claim still stands, *)
(* and now and then prunes what nobody refers to.                          *)
(*                                                                         *)
(* The two tables have the same columns and the same statements, so one    *)
(* function row stands for both; a key is a folder or a repository.  What  *)
(* a command answers is any repository for a folder, and nothing a         *)
(* property tells apart for a repository.                                  *)
(***************************************************************************)
EXTENDS Integers, FiniteSets

CONSTANTS Viewers,      \* processes that make passes
          Folders,      \* the cwds of the Grok sessions listed
          Repos,        \* git common directories
          NoKey,        \* no entry chosen, no repository known
          Freshness,    \* GROK_PR_SUCCESS_FRESHNESS_MS
          FolderClaim,  \* GROK_IDENTITY_CLAIM_MS
          RepoClaim,    \* GROK_REPOSITORY_CLAIM_MS
          Retry,        \* GROK_PR_RETRY_MS
          PruneEvery,   \* PRUNE_INTERVAL_MS
          Lag,          \* longest wait between reading the clock and a write
          MaxNow,       \* bound: the clock stops here
          MaxFaults     \* bound: crashes, failed statements, moved folders

Keys == Folders \cup Repos

ASSUME KeyAssumption == /\ Folders \cap Repos = {}
                        /\ NoKey \notin Keys
ASSUME TimeAssumption ==
    /\ {Freshness, FolderClaim, RepoClaim, Retry, PruneEvery} \subseteq Nat \ {0}
    /\ Lag \in Nat
    /\ MaxNow \in Nat
    /\ MaxFaults \in Nat
(* A claim waits at most VIEWER_DB_BUSY_TIMEOUT for the database           *)
ASSUME LagAssumption == Lag < FolderClaim /\ Lag < RepoClaim

VARIABLES now,         \* the wall clock
          onDisk,      \* folders that exist
          row,         \* the two tables
          pass,        \* per viewer: the pass it is making
          nextKind,    \* per viewer: GrokPrFallback.next_kind
          lastPrune,   \* per viewer: GrokPrFallback.last_prune_ms
          faults,      \* faults taken so far
          superseded   \* ghost: another claim was taken on the viewer's key

vars == <<now, onDisk, row, pass, nextKind, lastPrune, faults, superseded>>

Never == -1

Row == [exists : BOOLEAN, names : Repos \cup {NoKey}, onBranch : BOOLEAN,
        success : Nat, attempt : Nat, busy : Nat]

(* Mutant: two columns of a fresh row are swapped *)
NoRowSwapped == [exists |-> FALSE, names |-> 0, onBranch |-> FALSE,
                 success |-> NoKey, attempt |-> 0, busy |-> 0]

NoRow == [exists |-> FALSE, names |-> NoKey, onBranch |-> FALSE,
          success |-> 0, attempt |-> 0, busy |-> 0]

Steps == {"idle", "loaded", "chosen", "running", "upkeep", "scanned", "doomed"}

(* wanted, view: the eligible folders and their rows as loaded; key, time: *)
(* the claim and its attempt_ms, later the time maintenance goes by;       *)
(* doomed: what the prune means to delete                                  *)
Pass == [pc : Steps, wanted : SUBSET Folders, view : [Folders -> Row],
         key : Keys \cup {NoKey}, time : Nat, doomed : SUBSET Keys]

Idle == [pc |-> "idle", wanted |-> {}, view |-> [f \in Folders |-> NoRow],
         key |-> NoKey, time |-> 0, doomed |-> {}]

TypeOK ==
    /\ now \in Nat
    /\ onDisk \subseteq Folders
    /\ row \in [Keys -> Row]
    /\ pass \in [Viewers -> Pass]
    /\ nextKind \in [Viewers -> {"identity", "repository"}]
    /\ lastPrune \in [Viewers -> Nat \cup {Never}]
    /\ faults \in Nat
    /\ superseded \in [Viewers -> BOOLEAN]

Init ==
    /\ now = 1
    /\ onDisk = Folders
    /\ row = [k \in Keys |-> NoRow]
    /\ pass = [v \in Viewers |-> Idle]
    /\ nextKind = [v \in Viewers |-> "identity"]
    /\ lastPrune = [v \in Viewers |-> Never]
    /\ faults = 0
    /\ superseded = [v \in Viewers |-> FALSE]

-----------------------------------------------------------------------------
(* What is due *)

Window(k) == IF k \in Folders THEN FolderClaim ELSE RepoClaim

IsFresh(r, time) == /\ r.success > 0
                    /\ 0 <= time - r.success
                    /\ time - r.success < Freshness

IsDue(r, time) == ~ r.exists \/ (r.busy <= time /\ ~ IsFresh(r, time))

(* The due entry attempted longest ago; ties go by name, any order of which *)
(* the model allows                                                         *)
Oldest(due, rows) ==
    {k \in due : \A other \in due : rows[k].attempt <= rows[other].attempt}

(* The repositories the loaded folders are on a branch of *)
KnownRepos(p) ==
    {p.view[f].names : f \in {g \in p.wanted : /\ p.view[g].success > 0
                                               /\ p.view[g].onBranch}} \ {NoKey}

(* Mutant: a claim does not look at the one that stands *)
MayClaimStale(r, time) ==
    ~ r.exists \/ r.success = 0 \/ r.success > time \/ r.success <= time - Freshness

(* The WHERE clause of a claim: a success from the future is stale *)
MayClaim(r, time) ==
    \/ ~ r.exists
    \/ /\ r.busy <= time
       /\ r.success = 0 \/ r.success > time \/ r.success <= time - Freshness

(* Mutant: an answer is written whoever holds the claim by now *)
RowStillThere(v) == row[pass[v].key].exists

(* The WHERE clause of a completion or a failure: the token *)
StillHolds(v) == LET r == row[pass[v].key]
                 IN  r.exists /\ r.attempt = pass[v].time

-----------------------------------------------------------------------------
(* One pass of viewer v *)

To(v, p) == pass' = [pass EXCEPT ![v] = p]

Fault == faults < MaxFaults /\ faults' = faults + 1

Enter(v, step) == To(v, [pass[v] EXCEPT !.pc = step])

(* Sessions of folders that exist are eligible; their identity rows load *)
Load(v) ==
    /\ pass[v].pc = "idle"
    /\ \E wanted \in SUBSET onDisk \ {{}} :
         To(v, [Idle EXCEPT !.pc = "loaded", !.wanted = wanted,
                            !.view = [f \in Folders |->
                                        IF f \in wanted THEN row[f] ELSE NoRow]])
    /\ UNCHANGED <<now, onDisk, row, nextKind, lastPrune, faults, superseded>>

(* The entries of one kind that are due, oldest attempt first *)
DueFolders(p) == Oldest({f \in p.wanted : IsDue(p.view[f], now)}, p.view)
DueRepos(p) == Oldest({r \in KnownRepos(p) : IsDue(row[r], now)}, row)

(* The repositories' rows load and the clock is read; when both kinds are  *)
(* due they take turns, and the turn passes whether or not the claim works *)
Choose(v) ==
    LET p == pass[v]
        kinds == {kind \in {"identity", "repository"} :
                    (IF kind = "identity" THEN DueFolders(p) ELSE DueRepos(p)) # {}}
    IN  /\ p.pc = "loaded"
        /\ \/ /\ kinds = {}
              /\ To(v, [Idle EXCEPT !.pc = "upkeep", !.time = now])
              /\ UNCHANGED nextKind
           \/ \E kind \in kinds :
                /\ Cardinality(kinds) = 2 => kind = nextKind[v]
                /\ nextKind' = [nextKind EXCEPT ![v] =
                     IF kind = "identity" THEN "repository" ELSE "identity"]
                /\ \E k \in IF kind = "identity" THEN DueFolders(p) ELSE DueRepos(p) :
                     To(v, [Idle EXCEPT !.pc = "chosen", !.key = k, !.time = now])
        /\ UNCHANGED <<now, onDisk, row, lastPrune, faults, superseded>>

(* The claim succeeds: the clock reading becomes the token *)
Claim(v) ==
    LET p == pass[v]
        k == p.key
    IN  /\ p.pc = "chosen"
        /\ MayClaim(row[k], p.time)
        /\ row' = [row EXCEPT ![k] = [@ EXCEPT !.exists = TRUE, !.attempt = p.time,
                                              !.busy = p.time + Window(k)]]
        /\ Enter(v, "running")
        /\ superseded' = [w \in Viewers |->
                            CASE w = v -> FALSE
                              [] pass[w].pc = "running" /\ pass[w].key = k -> TRUE
                              [] OTHER -> superseded[w]]
        /\ UNCHANGED <<now, onDisk, nextKind, lastPrune, faults>>

(* The claim changes no row, or the database stays busy *)
ClaimLost(v) ==
    /\ pass[v].pc = "chosen"
    /\ \/ ~ MayClaim(row[pass[v].key], pass[v].time) /\ UNCHANGED faults
       \/ Fault
    /\ To(v, [Idle EXCEPT !.pc = "upkeep", !.time = pass[v].time])
    /\ UNCHANGED <<now, onDisk, row, nextKind, lastPrune, superseded>>

(* What a finished command leaves of v's pass *)
Finish(v) ==
    /\ To(v, [Idle EXCEPT !.pc = "upkeep", !.time = now])
    /\ superseded' = [superseded EXCEPT ![v] = FALSE]
    /\ UNCHANGED <<now, onDisk, nextKind, lastPrune, faults>>

(* The command answered, in time or late: the row takes the answer if the  *)
(* token is still the row's                                                *)
Complete(v) ==
    LET k == pass[v].key
    IN  /\ pass[v].pc = "running"
        /\ IF StillHolds(v)
           THEN \E repo \in Repos, onBranch \in BOOLEAN :
                  row' = [row EXCEPT ![k] =
                    IF k \in Folders
                    THEN [@ EXCEPT !.names = repo, !.onBranch = onBranch,
                                   !.success = now, !.busy = 0]
                    ELSE [@ EXCEPT !.success = now, !.busy = 0]]
           ELSE UNCHANGED row
        /\ Finish(v)

(* It failed, timed out or answered nonsense: nobody retries for a while *)
Fail(v) ==
    LET k == pass[v].key
    IN  /\ pass[v].pc = "running"
        /\ row' = IF StillHolds(v) THEN [row EXCEPT ![k].busy = now + Retry] ELSE row
        /\ Finish(v)

(* The write of a result fails and nobody is told: the claim has to lapse *)
AnswerLost(v) ==
    /\ pass[v].pc = "running"
    /\ UNCHANGED row
    /\ Finish(v)

-----------------------------------------------------------------------------
(* Pruning, two reads and one transaction *)

PruneIsDue(v, time) == \/ lastPrune[v] = Never
                       \/ time - lastPrune[v] \notin 0..(PruneEvery - 1)

NoPrune(v) ==
    /\ pass[v].pc = "upkeep"
    /\ ~ PruneIsDue(v, pass[v].time)
    /\ To(v, Idle)
    /\ UNCHANGED <<now, onDisk, row, nextKind, lastPrune, faults, superseded>>

(* The identities are read: folders that are gone and not being looked up  *)
(* are doomed, and so is every repository no other identity names          *)
ScanFolders(v) ==
    LET time == pass[v].time
        gone == {f \in Folders \ onDisk : row[f].exists /\ row[f].busy <= time}
        named == {row[f].names : f \in {g \in Folders : row[g].exists} \ gone}
    IN  /\ pass[v].pc = "upkeep"
        /\ PruneIsDue(v, time)
        /\ lastPrune' = [lastPrune EXCEPT ![v] = time]
        /\ To(v, [pass[v] EXCEPT !.pc = "scanned",
                                 !.doomed = gone \cup (Repos \ named)])
        /\ UNCHANGED <<now, onDisk, row, nextKind, faults, superseded>>

(* The repositories are read; with nothing to delete the prune is over *)
ScanRepos(v) ==
    LET p == pass[v]
        doomed == {k \in p.doomed : k \in Repos => /\ row[k].exists
                                                   /\ row[k].busy <= p.time}
    IN  /\ p.pc = "scanned"
        /\ To(v, IF doomed = {} THEN Idle
                 ELSE [p EXCEPT !.pc = "doomed", !.doomed = doomed])
        /\ UNCHANGED <<now, onDisk, row, nextKind, lastPrune, faults, superseded>>

(* Mutants: the transaction trusts what the scans saw *)
PrunableIfScanned(p, k) == row[k].exists
OrphanIfScanned(r, gone) == TRUE

(* What the transaction deletes of an entry the scans doomed *)
Prunable(p, k) ==
    /\ row[k].exists
    /\ row[k].busy <= p.time
    /\ k \in Folders => k \notin onDisk

(* No identity names the repository once the folders that are gone go *)
Orphan(r, gone) == \A f \in Folders \ gone : row[f].exists => row[f].names # r

(* Folders first, then the repositories that are orphans by now *)
Prune(v) ==
    LET p == pass[v]
        folders == {f \in p.doomed \cap Folders : Prunable(p, f)}
        repos == {r \in p.doomed \cap Repos : Prunable(p, r) /\ Orphan(r, folders)}
    IN  /\ p.pc = "doomed"
        /\ row' = [k \in Keys |-> IF k \in folders \cup repos THEN NoRow ELSE row[k]]
        /\ To(v, Idle)
        /\ UNCHANGED <<now, onDisk, nextKind, lastPrune, faults, superseded>>

(* The transaction cannot begin, or the scans cannot read *)
PruneFails(v) ==
    /\ pass[v].pc \in {"scanned", "doomed"}
    /\ Fault
    /\ To(v, Idle)
    /\ UNCHANGED <<now, onDisk, row, nextKind, lastPrune, superseded>>

-----------------------------------------------------------------------------
(* The world *)

(* A viewer is killed at any point and started again *)
Crash(v) ==
    /\ pass[v].pc # "idle"
    /\ Fault
    /\ To(v, Idle)
    /\ nextKind' = [nextKind EXCEPT ![v] = "identity"]
    /\ lastPrune' = [lastPrune EXCEPT ![v] = Never]
    /\ superseded' = [superseded EXCEPT ![v] = FALSE]
    /\ UNCHANGED <<now, onDisk, row>>

(* A worktree is removed, or made again *)
Move(f) ==
    /\ Fault
    /\ onDisk' = IF f \in onDisk THEN onDisk \ {f} ELSE onDisk \cup {f}
    /\ UNCHANGED <<now, row, pass, nextKind, lastPrune, superseded>>

(* A claim that waits for the database longer than Lag is given up *)
Tick ==
    /\ now < MaxNow
    /\ \A v \in Viewers : pass[v].pc = "chosen" => now - pass[v].time < Lag
    /\ now' = now + 1
    /\ UNCHANGED <<onDisk, row, pass, nextKind, lastPrune, faults, superseded>>

Proceed(v) == \/ Load(v) \/ Choose(v)
              \/ Claim(v) \/ ClaimLost(v) \/ Complete(v) \/ Fail(v)
              \/ AnswerLost(v)
              \/ NoPrune(v) \/ ScanFolders(v) \/ ScanRepos(v)
              \/ Prune(v) \/ PruneFails(v) \/ Crash(v)

Next == \/ \E v \in Viewers : Proceed(v)
        \/ \E f \in Folders : Move(f)
        \/ Tick

Spec == Init /\ [][Next]_vars

-----------------------------------------------------------------------------
(* Properties *)

Running(v) == pass[v].pc = "running"
Live(v) == Running(v) /\ now < pass[v].time + Window(pass[v].key)

(* A late answer never overwrites what a newer claim asked for: a viewer   *)
(* whose key was claimed again after it cannot write, although claims are  *)
(* told apart by nothing but a clock reading                               *)
(* (complete_grok_worktree_identity and its three siblings).               *)
LateResultsFenced == \A v \in Viewers : Running(v) /\ superseded[v] => ~ StillHolds(v)

(* While a command runs within its claim, no other viewer runs one for the *)
(* same entry: neither a claim, nor a clock read before waiting for the    *)
(* database, nor a prune lets a second one in                              *)
(* (claim_grok_worktree_identity, claim_grok_repository_prs).              *)
OneLiveLookup ==
    \A v, w \in Viewers :
        Live(v) /\ Running(w) /\ pass[w].key = pass[v].key /\ ~ superseded[w] => v = w

(* An answer that comes within its claim is never thrown away: until the   *)
(* claim ends the row carries its token, whatever a prune does meanwhile   *)
(* (prune_grok_pr_fallback).                                               *)
AnswersInTimeCount == \A v \in Viewers : Live(v) => StillHolds(v)

(* A step that prunes a repository leaves no identity that still names it, *)
(* although the folders were scanned two statements earlier                *)
(* (prune_grok_pr_fallback).                                               *)
PruneKeepsNamed ==
    [][\A r \in Repos :
         row[r].exists /\ ~ row'[r].exists
           => \A f \in Folders : row'[f].exists => row'[f].names # r]_vars
=============================================================================
