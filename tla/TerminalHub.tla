---------------------------- MODULE TerminalHub ----------------------------
(***************************************************************************)
(* The companion server's terminals: the hub that decides who may speak    *)
(* for a session's PTY, the owner thread behind each PTY, the sockets on   *)
(* it and the grace window between them.                                   *)
(*                                                                         *)
(* A generation names one owner thread and its child.  A client is one     *)
(* terminal request from acquire to the end of its socket; it may connect  *)
(* again.  Frames carry no data here: a full or closed frame queue is a    *)
(* step the owner may take whenever a socket is on it.                     *)
(***************************************************************************)
EXTENDS Integers, Sequences, FiniteSets

CONSTANTS Keys,              \* (backend, session id)
          Clients,
          NoClient,
          Limit,             \* TERMINAL_LIMIT
          MaxGeneration,     \* bound: owner threads over a run
          MaxConnection,     \* bound: connections to one owner
          FreshMayFail,      \* the upgrade of a fresh terminal may fail
          ReattachMayFail    \* the upgrade of a reattach may fail

ASSUME HubAssumption == /\ NoClient \notin Clients
                        /\ Limit \in Nat \ {0}
                        /\ MaxGeneration \in Nat
                        /\ MaxConnection \in Nat

VARIABLES owners,        \* hub: per key the adoptable owner
          reservations,  \* hub: per key the generation being started, or 0
          lastGen,       \* hub: next_generation
          thread,        \* per generation: the owner thread
          child,         \* per generation: its CLI process
          events,        \* per generation: the owner's event channel
          client         \* per client: its request and socket

hub == <<owners, reservations, lastGen>>
vars == <<owners, reservations, lastGen, thread, child, events, client>>

Generations == 1 .. MaxGeneration

NoEntry == [gen |-> 0, connected |-> FALSE, conn |-> 0]
Away == [pc |-> "away", gen |-> 0, conn |-> 0, verdict |-> "finished"]
Unborn == [pc |-> "unborn", conn |-> 0, sink |-> NoClient, deadline |-> "none"]

Event == [kind : {"attach", "detach", "close"}, conn : Nat, from : Clients]

TypeOK ==
    /\ owners \in [Keys -> [gen : 0 .. MaxGeneration, connected : BOOLEAN, conn : Nat]]
    /\ reservations \in [Keys -> 0 .. MaxGeneration]
    /\ lastGen \in 0 .. MaxGeneration
    /\ thread \in [Generations ->
                     [pc : {"unborn", "spawning", "waiting", "serving",
                            "killing", "closing", "gone"},
                      conn : Nat, sink : Clients \cup {NoClient},
                      deadline : {"none", "armed", "due"}]]
    /\ child \in [Generations -> {"none", "alive", "dead"}]
    /\ events \in [Generations -> Seq(Event)]
    /\ client \in [Clients ->
                     [pc : {"away", "starting", "upgrading", "open", "leaving",
                            "marked", "closing"},
                      gen : 0 .. MaxGeneration, conn : Nat,
                      verdict : {"finished", "replaced", "slow"}]]

Init ==
    /\ owners = [k \in Keys |-> NoEntry]
    /\ reservations = [k \in Keys |-> 0]
    /\ lastGen = 0
    /\ thread = [g \in Generations |-> Unborn]
    /\ child = [g \in Generations |-> "none"]
    /\ events = [g \in Generations |-> <<>>]
    /\ client = [c \in Clients |-> Away]

-----------------------------------------------------------------------------
(* Operations on the hub, each under its lock *)

Owned == {k \in Keys : owners[k].gen # 0}
Reserved == {k \in Keys : reservations[k] # 0}

(* remove_terminal_owner *)
Removed(g) == [k \in Keys |-> IF owners[k].gen = g THEN NoEntry ELSE owners[k]]

(* Mutant: a detach of an older connection counts for the newest one *)
DetachedAny(g, conn) ==
    [k \in Keys |-> IF owners[k].gen = g
                    THEN [owners[k] EXCEPT !.connected = FALSE]
                    ELSE owners[k]]

(* mark_terminal_detached *)
Detached(g, conn) ==
    [k \in Keys |-> IF owners[k].gen = g /\ owners[k].conn = conn
                    THEN [owners[k] EXCEPT !.connected = FALSE]
                    ELSE owners[k]]

Connected(g) == \E k \in Keys : owners[k].gen = g /\ owners[k].connected

(* A send on the event channel; FALSE once the receiver is gone *)
Listening(g) == thread[g].pc # "gone"
Send(g, kind, conn, from) ==
    events' = [events EXCEPT ![g] =
                 Append(@, [kind |-> kind, conn |-> conn, from |-> from])]

Pending(kind, c) ==
    LET queue == events[client[c].gen] IN
    \E i \in DOMAIN queue :
        queue[i].kind = kind /\ queue[i].from = c /\ queue[i].conn = client[c].conn

(* The owner is serving the socket client c has now, not an earlier one *)
Serves(g, c) == /\ thread[g].sink = c
                /\ client[c].gen = g
                /\ client[c].conn = thread[g].conn

HoldsLease(c, g) == client[c].gen = g /\ client[c].pc # "away"

-----------------------------------------------------------------------------
(* Connecting. A 409 (reserved) and a 503 (full) change nothing.           *)

Reattach(c, k) ==
    /\ client[c].pc = "away"
    /\ reservations[k] = 0
    /\ owners[k].gen # 0
    /\ owners[k].conn < MaxConnection
    /\ owners' = [owners EXCEPT ![k].connected = TRUE, ![k].conn = @ + 1]
    /\ client' = [client EXCEPT ![c] =
                    [Away EXCEPT !.pc = "upgrading", !.gen = owners[k].gen,
                                 !.conn = owners[k].conn + 1]]
    /\ UNCHANGED <<reservations, lastGen, thread, child, events>>

(* Mutant: reservations do not count against the limit *)
ReserveUncounted(c, k) ==
    /\ client[c].pc = "away"
    /\ reservations[k] = 0
    /\ owners[k].gen = 0
    /\ Cardinality(Owned) < Limit
    /\ lastGen < MaxGeneration
    /\ lastGen' = lastGen + 1
    /\ reservations' = [reservations EXCEPT ![k] = lastGen + 1]
    /\ client' = [client EXCEPT ![c] =
                    [Away EXCEPT !.pc = "starting", !.gen = lastGen + 1]]
    /\ UNCHANGED <<owners, thread, child, events>>

Reserve(c, k) ==
    /\ client[c].pc = "away"
    /\ reservations[k] = 0
    /\ owners[k].gen = 0
    /\ Cardinality(Owned) + Cardinality(Reserved) < Limit
    /\ lastGen < MaxGeneration
    /\ lastGen' = lastGen + 1
    /\ reservations' = [reservations EXCEPT ![k] = lastGen + 1]
    /\ client' = [client EXCEPT ![c] =
                    [Away EXCEPT !.pc = "starting", !.gen = lastGen + 1]]
    /\ UNCHANGED <<owners, thread, child, events>>

(* create_terminal_owner: start the thread, wait for its PTY, then publish *)
(* the owner and activate the thread without another await                 *)
Launch(c) ==
    /\ client[c].pc = "starting"
    /\ thread[client[c].gen].pc = "unborn"
    /\ thread' = [thread EXCEPT ![client[c].gen].pc = "spawning"]
    /\ UNCHANGED <<hub, child, events, client>>

Unreserved(g) == [k \in Keys |-> IF reservations[k] = g THEN 0 ELSE reservations[k]]

Activate(c) ==
    LET g == client[c].gen IN
    /\ client[c].pc = "starting"
    /\ thread[g].pc = "waiting"
    /\ owners' = [k \in Keys |-> IF reservations[k] = g
                                 THEN [gen |-> g, connected |-> TRUE, conn |-> 1]
                                 ELSE owners[k]]
    /\ reservations' = Unreserved(g)
    /\ thread' = [thread EXCEPT ![g].pc = "serving", ![g].deadline = "armed"]
    /\ client' = [client EXCEPT ![c].pc = "upgrading", ![c].conn = 1]
    /\ UNCHANGED <<lastGen, child, events>>

(* The backend refuses, the PTY fails or the request is dropped: the       *)
(* reservation's Drop cancels it                                           *)
GiveUp(c) ==
    /\ client[c].pc = "starting"
    /\ reservations' = Unreserved(client[c].gen)
    /\ client' = [client EXCEPT ![c] = Away]
    /\ UNCHANGED <<owners, lastGen, thread, child, events>>

PtySpawned(g) ==
    /\ thread[g].pc = "spawning"
    /\ thread' = [thread EXCEPT ![g].pc = "waiting"]
    /\ child' = [child EXCEPT ![g] = "alive"]
    /\ UNCHANGED <<hub, events, client>>

PtyFailed(g) ==
    /\ thread[g].pc = "spawning"
    /\ thread' = [thread EXCEPT ![g].pc = "gone"]
    /\ UNCHANGED <<hub, child, events, client>>

(* Nobody is left to activate the thread: it kills its child *)
Abandon(g) ==
    /\ thread[g].pc = "waiting"
    /\ \A c \in Clients : ~ HoldsLease(c, g)
    /\ thread' = [thread EXCEPT ![g].pc = "gone"]
    /\ child' = [child EXCEPT ![g] = "dead"]
    /\ owners' = Removed(g)
    /\ UNCHANGED <<reservations, lastGen, events, client>>

-----------------------------------------------------------------------------
(* The upgrade, and the socket task behind it *)

(* Each upgrade is a task of its own: attaches arrive in any order *)
Upgrade(c) ==
    LET g == client[c].gen IN
    /\ client[c].pc = "upgrading"
    /\ IF Listening(g)
       THEN /\ Send(g, "attach", client[c].conn, c)
            /\ client' = [client EXCEPT ![c].pc = "open"]
            /\ UNCHANGED owners
       ELSE /\ owners' = Removed(g)
            /\ client' = [client EXCEPT ![c] = Away]
            /\ UNCHANGED events
    /\ UNCHANGED <<reservations, lastGen, thread, child>>

(* on_failed_upgrade of a reattach: detach_terminal *)
ReattachFails(c) ==
    /\ ReattachMayFail
    /\ client[c].pc = "upgrading"
    /\ client[c].conn # 1
    /\ client' = [client EXCEPT ![c].pc = "leaving"]
    /\ UNCHANGED <<hub, thread, child, events>>

(* on_failed_upgrade of a fresh terminal: close_terminal_owner *)
FreshFails(c) ==
    LET g == client[c].gen IN
    /\ FreshMayFail
    /\ client[c].pc = "upgrading"
    /\ client[c].conn = 1
    /\ client' = [client EXCEPT ![c] = Away]
    /\ IF Listening(g)
       THEN Send(g, "close", 1, c) /\ UNCHANGED owners
       ELSE owners' = Removed(g) /\ UNCHANGED events
    /\ UNCHANGED <<reservations, lastGen, thread, child>>

(* The peer closes, errs, breaks the protocol, or stays silent too long *)
Disconnect(c) ==
    /\ client[c].pc = "open"
    /\ client' = [client EXCEPT ![c].pc = "leaving"]
    /\ UNCHANGED <<hub, thread, child, events>>

(* Mutant: the detach reaches the owner but leaves the hub's flag set *)
MarkNothing(c) ==
    /\ client[c].pc = "leaving"
    /\ client' = [client EXCEPT ![c].pc = "marked"]
    /\ UNCHANGED <<hub, thread, child, events>>

(* detach_terminal: the hub's flag first, then the owner's event *)
MarkDetached(c) ==
    /\ client[c].pc = "leaving"
    /\ owners' = Detached(client[c].gen, client[c].conn)
    /\ client' = [client EXCEPT ![c].pc = "marked"]
    /\ UNCHANGED <<reservations, lastGen, thread, child, events>>

(* Mutant: the event's connection and sender are swapped *)
SendDetachSwapped(c) ==
    LET g == client[c].gen IN
    /\ client[c].pc = "marked"
    /\ IF Listening(g) THEN Send(g, "detach", c, client[c].conn)
                       ELSE UNCHANGED events
    /\ client' = [client EXCEPT ![c] = Away]
    /\ UNCHANGED <<hub, thread, child>>

SendDetach(c) ==
    LET g == client[c].gen IN
    /\ client[c].pc = "marked"
    /\ IF Listening(g) THEN Send(g, "detach", client[c].conn, c)
                       ELSE UNCHANGED events
    /\ client' = [client EXCEPT ![c] = Away]
    /\ UNCHANGED <<hub, thread, child>>

(* The owner, or its dead channel, dropped this socket's sink *)
SinkDropped(c) ==
    /\ ~ Serves(client[c].gen, c)
    /\ ~ Pending("attach", c)

(* close_released_terminal: 4000 and a finished terminal end the socket,   *)
(* 1013 detaches it                                                        *)
Released(c) ==
    /\ client[c].pc = "open"
    /\ SinkDropped(c)
    /\ client' = [client EXCEPT ![c] =
                    IF client[c].verdict = "slow" THEN [@ EXCEPT !.pc = "leaving"]
                                                  ELSE Away]
    /\ UNCHANGED <<hub, thread, child, events>>

(* The phone asks to kill the child and waits for the owner's answer, which *)
(* is the completion or the dropped sender of an ignored request           *)
AskClose(c) ==
    LET g == client[c].gen IN
    /\ client[c].pc = "open"
    /\ client' = [client EXCEPT ![c].pc = "closing"]
    /\ IF Listening(g) THEN Send(g, "close", client[c].conn, c)
                       ELSE UNCHANGED events
    /\ UNCHANGED <<hub, thread, child>>

CloseAnswered(c) ==
    /\ client[c].pc = "closing"
    /\ ~ Pending("close", c)
    /\ client' = [client EXCEPT ![c] = Away]
    /\ UNCHANGED <<hub, thread, child, events>>

-----------------------------------------------------------------------------
(* The owner thread: one pass looks at the child's end, then at the        *)
(* deadline, then takes one event                                          *)

Serving(g) == thread[g].pc = "serving"
First(g) == Head(events[g])
Take(g) == events' = [events EXCEPT ![g] = Tail(@)]
ThreadEnds(g) ==
    /\ thread' = [thread EXCEPT ![g] = [Unborn EXCEPT !.pc = "gone"]]
    /\ events' = [events EXCEPT ![g] = <<>>]

ChildExits(g) ==
    /\ child[g] = "alive"
    /\ child' = [child EXCEPT ![g] = "dead"]
    /\ UNCHANGED <<hub, thread, events, client>>

(* finish_exited_terminal *)
FinishExited(g) ==
    /\ Serving(g)
    /\ child[g] = "dead"
    /\ owners' = Removed(g)
    /\ ThreadEnds(g)
    /\ UNCHANGED <<reservations, lastGen, child, client>>

GraceRunsOut(g) ==
    /\ thread[g].deadline = "armed"
    /\ thread' = [thread EXCEPT ![g].deadline = "due"]
    /\ UNCHANGED <<hub, child, events, client>>

(* terminal_grace_expired: decided under the hub lock, killed outside it *)
Reconnected(g) ==
    /\ Serving(g)
    /\ thread[g].deadline = "due"
    /\ Connected(g)
    /\ thread' = [thread EXCEPT ![g].deadline = "none"]
    /\ UNCHANGED <<hub, child, events, client>>

(* Mutant: the child is killed before the hub forgets its owner *)
ExpireListed(g) ==
    /\ Serving(g)
    /\ thread[g].deadline = "due"
    /\ ~ Connected(g)
    /\ thread' = [thread EXCEPT ![g].pc = "killing"]
    /\ UNCHANGED <<hub, child, events, client>>

Expire(g) ==
    /\ Serving(g)
    /\ thread[g].deadline = "due"
    /\ ~ Connected(g)
    /\ owners' = Removed(g)
    /\ thread' = [thread EXCEPT ![g].pc = "killing"]
    /\ UNCHANGED <<reservations, lastGen, child, events, client>>

Kill(g) ==
    /\ thread[g].pc = "killing"
    /\ child' = [child EXCEPT ![g] = "dead"]
    /\ ThreadEnds(g)
    /\ UNCHANGED <<hub, client>>

(* A takeover tells the socket that was here it is replaced *)
Attach(g) ==
    /\ Serving(g)
    /\ events[g] # <<>>
    /\ First(g).kind = "attach"
    /\ thread' = [thread EXCEPT ![g] = [@ EXCEPT !.conn = First(g).conn,
                                                 !.sink = First(g).from,
                                                 !.deadline = "none"]]
    /\ client' = [c \in Clients |-> IF Serves(g, c)
                                    THEN [client[c] EXCEPT !.verdict = "replaced"]
                                    ELSE client[c]]
    /\ Take(g)
    /\ UNCHANGED <<hub, child>>

(* Mutant: a detach opens no grace window *)
DetachWithoutGrace(g) ==
    /\ Serving(g)
    /\ events[g] # <<>>
    /\ First(g).kind = "detach"
    /\ thread' = IF First(g).conn = thread[g].conn
                 THEN [thread EXCEPT ![g].sink = NoClient]
                 ELSE thread
    /\ Take(g)
    /\ UNCHANGED <<hub, child, client>>

Detach(g) ==
    /\ Serving(g)
    /\ events[g] # <<>>
    /\ First(g).kind = "detach"
    /\ thread' = IF First(g).conn = thread[g].conn
                 THEN [thread EXCEPT ![g] = [@ EXCEPT !.sink = NoClient,
                                                      !.deadline = "armed"]]
                 ELSE thread
    /\ Take(g)
    /\ UNCHANGED <<hub, child, client>>

Close(g) ==
    /\ Serving(g)
    /\ events[g] # <<>>
    /\ First(g).kind = "close"
    /\ First(g).conn = thread[g].conn
    /\ child' = [child EXCEPT ![g] = "dead"]
    /\ thread' = [thread EXCEPT ![g].pc = "closing"]
    /\ UNCHANGED <<hub, events, client>>

FinishClose(g) ==
    /\ thread[g].pc = "closing"
    /\ owners' = Removed(g)
    /\ ThreadEnds(g)
    /\ UNCHANGED <<reservations, lastGen, child, client>>

IgnoreClose(g) ==
    /\ Serving(g)
    /\ events[g] # <<>>
    /\ First(g).kind = "close"
    /\ First(g).conn # thread[g].conn
    /\ Take(g)
    /\ UNCHANGED <<hub, thread, child, client>>

(* queue meets a full frame queue, or one whose socket task has ended:     *)
(* release drops the sink, clears the hub's flag and opens the grace window *)
ReleaseSink(g) ==
    /\ owners' = Detached(g, thread[g].conn)
    /\ thread' = [thread EXCEPT ![g] = [@ EXCEPT !.sink = NoClient,
                                                 !.deadline = "armed"]]
    /\ UNCHANGED <<reservations, lastGen, child, events>>

Reading(g) == \E c \in Clients : Serves(g, c) /\ client[c].pc \in {"open", "closing"}

SlowConsumer(g) ==
    /\ Serving(g)
    /\ Reading(g)
    /\ client' = [client EXCEPT ![thread[g].sink].verdict = "slow"]
    /\ ReleaseSink(g)

SinkClosed(g) ==
    /\ Serving(g)
    /\ thread[g].sink # NoClient
    /\ ~ Reading(g)
    /\ ReleaseSink(g)
    /\ UNCHANGED client

-----------------------------------------------------------------------------
Connect(c) == \E k \in Keys : Reattach(c, k) \/ Reserve(c, k)

(* What a client's request and socket task do without being asked to *)
ClientStep(c) ==
    \/ Launch(c)
    \/ Activate(c)
    \/ Upgrade(c)
    \/ MarkDetached(c)
    \/ SendDetach(c)
    \/ Released(c)
    \/ CloseAnswered(c)

ClientEvent(c) ==
    \/ Connect(c)
    \/ GiveUp(c)
    \/ ReattachFails(c)
    \/ FreshFails(c)
    \/ Disconnect(c)
    \/ AskClose(c)

ThreadStep(g) ==
    \/ PtySpawned(g)
    \/ Abandon(g)
    \/ FinishExited(g)
    \/ Reconnected(g)
    \/ Expire(g)
    \/ Kill(g)
    \/ Attach(g)
    \/ Detach(g)
    \/ Close(g)
    \/ FinishClose(g)
    \/ IgnoreClose(g)

ThreadEvent(g) ==
    \/ PtyFailed(g)
    \/ ChildExits(g)
    \/ SlowConsumer(g)
    \/ SinkClosed(g)

Next ==
    \/ \E c \in Clients : ClientStep(c) \/ ClientEvent(c)
    \/ \E g \in Generations : ThreadStep(g) \/ GraceRunsOut(g) \/ ThreadEvent(g)

Spec == Init /\ [][Next]_vars

(* Threads and tasks are scheduled and the grace window runs out; no client *)
(* is ever obliged to connect, leave or close                              *)
Fairness ==
    /\ \A c \in Clients : WF_vars(ClientStep(c))
    /\ \A g \in Generations : WF_vars(ThreadStep(g)) /\ WF_vars(GraceRunsOut(g))

FairSpec == Spec /\ Fairness

-----------------------------------------------------------------------------
(* Safety: owners and reservations together never exceed TERMINAL_LIMIT,   *)
(* and one key is never both owned and reserved.                           *)
WithinLimit == /\ Cardinality(Owned) + Cardinality(Reserved) <= Limit
               /\ Owned \cap Reserved = {}

(* Safety: every way an owner thread can end takes its hub entry with it,  *)
(* so no connect adopts a thread that no longer listens.                   *)
NoGhostOwner ==
    \A k \in Keys : owners[k].gen # 0
        => thread[owners[k].gen].pc \in {"serving", "closing"}

(* Action property: "a connect racing the deadline either adopts the live  *)
(* owner or spawns a fresh PTY - never adopts one that is about to die":   *)
(* the grace clock kills no child while the holder of its newest           *)
(* connection is still on its way (terminal_grace_expired).                *)
OnTheWay(c, g) ==
    /\ client[c].gen = g
    /\ client[c].pc = "upgrading" \/ (client[c].pc = "open" /\ Pending("attach", c))

AdoptedSurvivesGrace ==
    [][\A g \in Generations :
          thread[g].pc = "serving" /\ thread'[g].pc = "killing" =>
            \A c \in Clients, k \in Keys :
                OnTheWay(c, g) /\ owners[k].gen = g => client[c].conn < owners[k].conn]_vars

(* Claim of the comment on acquire: "the new connection wins, the old one  *)
(* is closed with 4000": the final close code only ever reaches a socket   *)
(* that a newer one displaced.  Violated: the owner takes any Attach.      *)
NewConnectionWins ==
    \A c \in Clients :
        client[c].verdict = "replaced" => client[c].conn < thread[client[c].gen].conn
                                            \/ thread[client[c].gen].pc = "gone"

(* The owner serves nobody and waits for nothing but a new connect *)
Stranded(g) ==
    /\ Serving(g)
    /\ child[g] = "alive"
    /\ thread[g].deadline = "none"
    /\ events[g] = <<>>
    /\ \A c \in Clients : ~ HoldsLease(c, g)

(* Claim of the comments on the grace clock: nothing strands a CLI process *)
(* without a client, a pending event or a running clock.  Violated by an   *)
(* upgrade that fails, and by two whose attaches arrive out of order.      *)
NoStrandedChild == \A g \in Generations : ~ Stranded(g)

(* The hub and the owner hold different connections for the newest *)
Disputed(g) == \E k \in Keys : owners[k].gen = g /\ owners[k].conn # thread[g].conn

(* Safety: whatever upgrades fail or overtake one another, a child is only *)
(* stranded while hub and owner disagree about the connection: once the    *)
(* owner has attached the newest one, every way its socket can end leaves  *)
(* an event or the grace clock behind (detach_terminal, release,           *)
(* terminal_grace_expired).                                                *)
StrandedOnlyInDispute == \A g \in Generations : Stranded(g) => Disputed(g)

(* Liveness: a child nobody is connected to dies when its grace window     *)
(* closes, unless somebody connects or such a dispute strands it.          *)
AbandonedChildDies ==
    \A g \in Generations :
        (child[g] = "alive" /\ \A c \in Clients : ~ HoldsLease(c, g))
            ~> \/ child[g] = "dead"
               \/ \E c \in Clients : HoldsLease(c, g)
               \/ Stranded(g) /\ Disputed(g)
=============================================================================
