---------------------------- MODULE GrokSessions ----------------------------
(***************************************************************************)
(* A grok session as the viewer sees and ends it.  What a session is doing *)
(* is put together from its log on disk and the rosters of all leaders     *)
(* that answer; a stop has to find the one leader that owns the session; a *)
(* removal polls until the session has settled; an archive is both.        *)
(*                                                                         *)
(* One session, one mutation of the viewer at a time.  Leaders and their   *)
(* logs are external: they load, run, end, crash and start as they like,   *)
(* and any connection or request may fail.  A leader without endpoint      *)
(* files is a leader that refuses.                                         *)
(***************************************************************************)
CONSTANTS Leaders,
          NoLeader,
          Words       \* bound: the activities that rosters report

(* "other" is any word the viewer does not know *)
Activities == {"working", "needs_input", "idle", "completed", "dead", "other"}

ASSUME LeaderAssumption == /\ NoLeader \notin Leaders
                           /\ Words \subseteq Activities

VARIABLES up,      \* the leaders that run
          roster,  \* per leader: the activity its roster gives the session, or "none"
          turn,    \* the leader that runs a turn of the session
          log,     \* updates.jsonl: "none", or its last turn "open" or "closed"
          job,     \* the mutation on its worker
          call     \* the listing or cancel it is in, or acts on

sessionVars == <<up, roster, turn, log, job, call>>
world == <<up, roster, turn, log>>

Active == {"Working", "NeedsInput"}
Finished == {"Done", "Error"}
Statuses == Active \cup Finished \cup {"Idle", "Unknown"}

(* Mutant: a roster's word is taken for the status *)
RosterWord(a) == a

(* dormant is idle *)
RosterStatus(a) ==
    CASE a = "working" -> "Working"
      [] a = "needs_input" -> "NeedsInput"
      [] a = "idle" -> "Idle"
      [] a = "completed" -> "Done"
      [] a = "dead" -> "Error"
      [] OTHER -> "Unknown"

(* The mutation: what it is, where it stands, require_finished, the deadline *)
NoJob == [op |-> "none", at |-> "end", strict |-> FALSE, expired |-> FALSE]

(* A call: how each leader took the connection, what its roster answered,  *)
(* the status read from the log, the row and the roster status so far, and *)
(* (history) whether the turn that ran when it began has run ever since    *)
NoCall ==
    [unread |-> FALSE,
     conn   |-> [l \in Leaders |-> "todo"],
     answer |-> [l \in Leaders |-> "no"],
     file   |-> "absent",
     row    |-> "absent",
     said   |-> "nothing",
     steady |-> FALSE]

NewCall(unread) == [NoCall EXCEPT !.unread = unread, !.steady = turn # NoLeader]

Jobs == [op : {"none", "stop", "remove", "archive"},
         at : {"end", "stopped", "look", "settle", "cancel", "wait", "delete"},
         strict : BOOLEAN, expired : BOOLEAN]

Calls == [unread : BOOLEAN,
          conn   : [Leaders -> {"todo", "refused", "failed", "linked", "asked", "cut"}],
          answer : [Leaders -> Activities \cup {"none", "no"}],
          file   : Statuses \cup {"absent"},
          row    : Statuses \cup {"absent"},
          said   : Statuses \cup {"nothing"},
          steady : BOOLEAN]

SessionTypeOK ==
    /\ up \subseteq Leaders
    /\ roster \in [Leaders -> Activities \cup {"none"}]
    /\ turn \in Leaders \cup {NoLeader}
    /\ log \in {"none", "open", "closed"}
    /\ job \in Jobs
    /\ call \in Calls

SessionInit ==
    /\ up \in SUBSET Leaders
    /\ roster = [l \in Leaders |-> "none"]
    /\ turn = NoLeader
    /\ log \in {"open", "closed"}
    /\ job = NoJob
    /\ call = NoCall

-----------------------------------------------------------------------------
(* Leaders, their clients and the log: external *)

StartTurn(l) ==
    /\ l \in up /\ turn = NoLeader /\ log # "none"
    /\ turn' = l
    /\ roster' = [roster EXCEPT ![l] = "working"]
    /\ UNCHANGED <<up, log, job, call>>

ReportTurn ==
    /\ turn # NoLeader
    /\ \E a \in Words \cap {"working", "needs_input", "other"} : roster' = [roster EXCEPT ![turn] = a]
    /\ UNCHANGED <<up, turn, log, job, call>>

(* Bound: a word the viewer does not know is only said of a running turn *)
EndTurn ==
    /\ turn # NoLeader
    /\ turn' = NoLeader
    /\ \E a \in Words \cap {"idle", "completed", "dead"} : roster' = [roster EXCEPT ![turn] = a]
    /\ call' = [call EXCEPT !.steady = FALSE]
    /\ UNCHANGED <<up, log, job>>

(* The log follows what happens, some time later *)
AppendLog ==
    /\ log # "none"
    /\ log' = IF turn = NoLeader THEN "closed" ELSE "open"
    /\ UNCHANGED <<up, roster, turn, job, call>>

LoadSession(l) ==
    /\ l \in up /\ roster[l] = "none" /\ log # "none"
    /\ roster' = [roster EXCEPT ![l] = "idle"]
    /\ UNCHANGED <<up, turn, log, job, call>>

Unload(l) ==
    /\ l \in up /\ turn # l /\ roster[l] # "none"
    /\ \E a \in {"none", "idle"} : roster' = [roster EXCEPT ![l] = a]
    /\ UNCHANGED <<up, turn, log, job, call>>

LeaderDies(l) ==
    /\ l \in up
    /\ up' = up \ {l}
    /\ roster' = [roster EXCEPT ![l] = "none"]
    /\ turn' = IF turn = l THEN NoLeader ELSE turn
    /\ call' = [call EXCEPT !.conn[l] = IF @ \in {"linked", "asked"} THEN "cut" ELSE @,
                            !.steady = @ /\ turn # l]
    /\ UNCHANGED <<log, job>>

Start(l) ==
    /\ l \notin up
    /\ up' = up \cup {l}
    /\ UNCHANGED <<roster, turn, log, job, call>>

(* Deleted by somebody else *)
Vanish ==
    /\ log # "none" /\ turn = NoLeader
    /\ log' = "none"
    /\ roster' = [l \in Leaders |-> "none"]
    /\ UNCHANGED <<up, turn, job, call>>

-----------------------------------------------------------------------------
(* Calls: connect_existing connects to every endpoint first, then each     *)
(* connection is asked for its roster                                      *)
Todo == {l \in Leaders : call.conn[l] = "todo"}
Linked == {l \in Leaders : call.conn[l] = "linked"}
Clients == {l \in Leaders : call.conn[l] \in {"linked", "asked", "cut"}}
Owners == {l \in Leaders : call.answer[l] \notin {"no", "none"}}
Disputed == \E l, m \in Owners : l # m
CallEnds == ~ call.unread /\ Todo = {} /\ Linked = {}

Looking == job.at \in {"look", "settle", "wait"}
End == job' = NoJob /\ call' = NoCall

(* read_durable_status: a closed turn is evidence, unless the file grows,  *)
(* is torn or exceeds the pass's budget; a summary that cannot be read is  *)
(* passed over, a store that cannot be read fails the listing.  Done       *)
(* stands for the turns that ended in an error, too.                       *)
FileStatuses ==
    CASE log = "none" -> {"absent"}
      [] log = "open" -> {"absent", "Unknown"}
      [] log = "closed" -> {"absent", "Done", "Unknown"}

ReadLog ==
    /\ call.unread
    /\ \/ /\ \E s \in FileStatuses :
               call' = [call EXCEPT !.unread = FALSE, !.file = s, !.row = s]
          /\ UNCHANGED job
       \/ End
    /\ UNCHANGED world

Linking(l, c) == [call EXCEPT !.conn[l] = c]

(* connect, probe, initialize: a leader that runs may fail, or take too long *)
Connect(l) ==
    /\ job.op # "none" /\ ~ call.unread /\ l \in Todo
    /\ \E c \in IF l \in up THEN {"linked", "failed"} ELSE {"refused"} :
          call' = Linking(l, c)
    /\ UNCHANGED <<world, job>>

(* merge_roster: what all leaders so far say, then one entry onto the row *)
Conflict(a) == call.said \notin {"nothing", RosterStatus(a)}
Said(a) == IF Conflict(a) THEN "Unknown" ELSE RosterStatus(a)

(* Mutant: a conflict does not outweigh a finished row *)
KeepsRowQuietly(a) == a = "idle" /\ call.row \in Finished

KeepsRow(a) == a = "idle" /\ ~ Conflict(a) /\ call.row \in Finished

Merged(a) == [call EXCEPT !.said = Said(a), !.row = IF KeepsRow(a) THEN @ ELSE Said(a)]

Listened(l) == IF Looking /\ roster[l] # "none" THEN Merged(roster[l]) ELSE call

Asked(k, l, a) == [k EXCEPT !.conn[l] = "asked", !.answer[l] = a]

(* x.ai/sessions/list: a request that fails is passed over; a cancel that  *)
(* has met two owners asks no further                                      *)
AskRoster(l) ==
    /\ Todo = {} /\ l \in Linked
    /\ ~ (job.at = "cancel" /\ Disputed)
    /\ \/ l \in up /\ call' = Asked(Listened(l), l, roster[l])
       \/ call' = Asked(call, l, "no")
    /\ UNCHANGED <<world, job>>

-----------------------------------------------------------------------------
(* Mutations.  Each begins with authoritative_target, a listing of its own *)

Submit(op, strict) ==
    /\ job.op = "none"
    /\ strict => op = "remove"
    /\ job' = [op |-> op, at |-> "look", strict |-> strict, expired |-> FALSE]
    /\ call' = NewCall(TRUE)
    /\ UNCHANGED world

Go(at) ==
    /\ job' = [job EXCEPT !.at = at]
    /\ call' = IF at = "delete" THEN call ELSE NewCall(at # "cancel")

(* Missing; "thread disappeared while waiting for stop to settle" *)
Missing ==
    /\ Looking /\ CallEnds /\ call.row = "absent"
    /\ End
    /\ UNCHANGED world

(* stop; archive of a session that is not finished *)
Stop ==
    /\ job.at = "look" /\ CallEnds /\ call.row # "absent"
    /\ job.op = "stop" \/ (job.op = "archive" /\ call.row \notin Finished)
    /\ Go("cancel")
    /\ UNCHANGED world

ArchiveFinished ==
    /\ job.at = "look" /\ CallEnds /\ job.op = "archive" /\ call.row \in Finished
    /\ Go("delete")
    /\ UNCHANGED world

(* Mutant: the settle polls have no deadline *)
PollsForever == call.row \in Active

PollsAgain == call.row \in Active /\ ~ job.expired

(* remove_settled_target: poll while active; then delete what has settled *)

(* Mutant: only require_finished is checked before the delete *)
SettledIfFinished == job.strict => call.row \in Finished

Settled == call.row \notin Active /\ (job.strict => call.row \in Finished)

Remove ==
    /\ job.op = "remove" /\ Looking /\ CallEnds /\ call.row # "absent"
    /\ IF PollsAgain THEN Go("settle")
       ELSE IF Settled THEN Go("delete")
       ELSE End
    /\ UNCHANGED world

(* wait_until_stopped *)
Wait ==
    /\ job.at = "wait" /\ CallEnds /\ call.row # "absent"
    /\ IF PollsAgain THEN Go("wait")
       ELSE IF call.row \in Active THEN End
       ELSE Go("delete")
    /\ UNCHANGED world

Expire ==
    /\ job.at \in {"settle", "wait"} /\ ~ job.expired
    /\ job' = [job EXCEPT !.expired = TRUE]
    /\ UNCHANGED <<world, call>>

(* GrokLifecycle::cancel.  A cancel that succeeds ends the stop; an        *)
(* archive goes on to wait.                                                *)
Cancelled ==
    IF job.op = "stop" THEN job' = [NoJob EXCEPT !.at = "stopped"] /\ call' = NoCall
    ELSE Go("wait")

(* Mutant: an endpoint that fails counts as one that refuses *)
NobodyAnswers == CallEnds /\ Clients = {}

(* Every endpoint refuses: the session is already stopped *)
NothingRuns == CallEnds /\ \A l \in Leaders : call.conn[l] = "refused"

SoleOwner(l) == CallEnds /\ Owners = {l}

Cancel ==
    /\ job.at = "cancel"
    /\ \/ NothingRuns /\ Cancelled
       \/ \E l \in Leaders : SoleOwner(l) /\ call.conn[l] = "asked" /\ Cancelled
    /\ UNCHANGED world

(* Nobody owns it, several do, the endpoints fail or cannot be listed, or  *)
(* the notification is lost                                                *)
CancelFails ==
    /\ job.at = "cancel"
    /\ CallEnds \/ Disputed
    /\ End
    /\ UNCHANGED world

(* x.ai/session/delete goes to the first leader that can be reached *)
Delete(l) ==
    /\ job.at = "delete"
    /\ l \in up /\ log # "none"
    /\ log' = "none"
    /\ roster' = [roster EXCEPT ![l] = "none"]
    /\ turn' = IF turn = l THEN NoLeader ELSE turn
    /\ End
    /\ UNCHANGED up

DeleteFails ==
    /\ job.at = "delete"
    /\ End
    /\ UNCHANGED world

JobStep ==
    \/ ReadLog
    \/ \E l \in Leaders : Connect(l) \/ AskRoster(l)
    \/ Missing \/ Stop \/ ArchiveFinished \/ Remove \/ Wait
    \/ Cancel \/ CancelFails
    \/ \E l \in Leaders : Delete(l)
    \/ DeleteFails

SessionNext ==
    \/ \E l \in Leaders :
           StartTurn(l) \/ LoadSession(l) \/ Unload(l) \/ LeaderDies(l) \/ Start(l)
    \/ ReportTurn \/ EndTurn \/ AppendLog \/ Vanish
    \/ \E op \in {"stop", "remove", "archive"}, strict \in BOOLEAN : Submit(op, strict)
    \/ Expire
    \/ JobStep

SessionSpec == SessionInit /\ [][SessionNext]_sessionVars

(* The worker runs until the mutation has ended, and time passes *)
FairSpec == SessionSpec /\ WF_sessionVars(JobStep) /\ WF_sessionVars(Expire)

-----------------------------------------------------------------------------
(* Safety: the status of a row does not depend on the order in which the   *)
(* leaders answer: one status from all who list the session, else Unknown, *)
(* and an idle one does not hide how the log says the last turn ended      *)
(* (grok.rs, merge_roster).                                                *)
Verdict ==
    LET heard == {RosterStatus(call.answer[l]) : l \in Owners}
    IN IF heard = {} THEN call.file
       ELSE IF \E s, t \in heard : s # t THEN "Unknown"
       ELSE IF "Idle" \in heard /\ call.file \in Finished THEN call.file
       ELSE CHOOSE s \in heard : TRUE

RowIgnoresOrder == Looking /\ ~ call.unread => call.row = Verdict

(* Safety: a turn that has run since before the last look is not deleted   *)
(* with its session, if its leader answered that look with a word the      *)
(* viewer knows and no other leader contradicted it: not by a removal      *)
(* whose polls ran out, nor by an archive whose cancel was accepted and    *)
(* not obeyed (ops.rs, remove_settled_target; backend.rs,                  *)
(* wait_until_stopped).                                                    *)
Doubtful == \/ RosterStatus(call.answer[turn]) = "Unknown"
            \/ \E l \in Owners : RosterStatus(call.answer[l]) # RosterStatus(call.answer[turn])

LiveTurnsAreKept ==
    [][job.at = "delete" /\ log' # log /\ call.steady =>
          turn \notin Owners \/ Doubtful]_sessionVars

(* Safety: a stop is reported, and an archive goes on, only if the turn    *)
(* that ran when the cancel began is over or its leader was told, unless   *)
(* that leader did not answer and another one claimed the session; that    *)
(* nobody answers is not taken for a stopped session (grok.rs, cancel:     *)
(* the endpoints must refuse, and the owner must be the only one).         *)
CancelSucceeds == job.at = "cancel" /\ job'.at \in {"stopped", "wait"}

StopsAreTrue ==
    [][CancelSucceeds /\ call.steady =>
          \/ turn \in Owners /\ Owners = {turn}
          \/ turn \notin Owners /\ Owners # {}]_sessionVars

(* Liveness: a mutation ends, whatever hangs and however long the session  *)
(* stays active.                                                           *)
MutationsEnd == job.op # "none" ~> job.op = "none"
=============================================================================
