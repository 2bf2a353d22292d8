------------------------- MODULE TerminalHubProofs -------------------------
(***************************************************************************)
(* Proofs about the terminal hub, in three layers, each inductive given the *)
(* ones before it.                                                         *)
(*                                                                         *)
(*   HubInv     who may claim a generation, and where a connection number  *)
(*              may stand, whatever the order and outcome of the upgrades  *)
(*   LimitInv   owners and reservations together stay within Limit         *)
(*   ServedInv  where hub and owner agree on the newest connection, an     *)
(*              owner without a grace clock is still to hear of its end    *)
(*                                                                         *)
(* The ...Effect lemmas say what a group of actions does to the state; the *)
(* ...Keeps lemmas preserve a layer under such a group.                    *)
(***************************************************************************)
EXTENDS TerminalHub, FiniteSetTheorems, TLAPS

-----------------------------------------------------------------------------
(* Types of the records, and what an update of one field leaves alone *)

OwnerEntry == [gen : 0 .. MaxGeneration, connected : BOOLEAN, conn : Nat]
ThreadPC == {"unborn", "spawning", "waiting", "serving", "killing", "closing", "gone"}
Thread == [pc : ThreadPC, conn : Nat, sink : Clients \cup {NoClient},
           deadline : {"none", "armed", "due"}]
ClientPC == {"away", "starting", "upgrading", "open", "leaving", "marked", "closing"}
ClientState == [pc : ClientPC, gen : 0 .. MaxGeneration, conn : Nat,
                verdict : {"finished", "replaced", "slow"}]

LEMMA Types ==
    TypeOK <=> /\ owners \in [Keys -> OwnerEntry]
               /\ reservations \in [Keys -> 0 .. MaxGeneration]
               /\ lastGen \in 0 .. MaxGeneration
               /\ thread \in [Generations -> Thread]
               /\ child \in [Generations -> {"none", "alive", "dead"}]
               /\ events \in [Generations -> Seq(Event)]
               /\ client \in [Clients -> ClientState]
BY Zenon DEF TypeOK, OwnerEntry, Thread, ThreadPC, ClientState, ClientPC

LEMMA Numbers ==
    ASSUME TypeOK
    PROVE  /\ \A g \in Generations : thread[g].conn \in Nat
           /\ \A g \in Generations : \A i \in DOMAIN events[g] :
                 i \in Nat /\ events[g][i] \in Event /\ events[g][i].conn \in Nat
           /\ \A c \in Clients : client[c].conn \in Nat
           /\ \A k \in Keys : owners[k].conn \in Nat
<1>1. ASSUME NEW g \in Generations, NEW i \in DOMAIN events[g]
      PROVE  i \in Nat /\ events[g][i] \in Event /\ events[g][i].conn \in Nat
  <2>1. events[g] \in Seq(Event)
    BY Types
  <2>2. i \in Nat /\ events[g][i] \in Event
    BY <2>1
  <2>3. QED
    BY <2>2 DEF Event
<1>2. QED
  BY <1>1, Types DEF Thread, ClientState, OwnerEntry

LEMMA TypesNext ==
    TypeOK' <=> /\ owners' \in [Keys -> OwnerEntry]
                /\ reservations' \in [Keys -> 0 .. MaxGeneration]
                /\ lastGen' \in 0 .. MaxGeneration
                /\ thread' \in [Generations -> Thread]
                /\ child' \in [Generations -> {"none", "alive", "dead"}]
                /\ events' \in [Generations -> Seq(Event)]
                /\ client' \in [Clients -> ClientState]
BY Zenon DEF TypeOK, OwnerEntry, Thread, ThreadPC, ClientState, ClientPC

LEMMA Constants == /\ Unborn \in Thread
                   /\ Away \in ClientState
                   /\ NoEntry \in OwnerEntry
BY HubAssumption DEF Unborn, Thread, ThreadPC, Away, ClientState, ClientPC, NoEntry, OwnerEntry

(* A client's next stage *)
LEMMA Stage ==
    ASSUME NEW s \in ClientState, NEW p \in ClientPC
    PROVE  /\ [s EXCEPT !.pc = p] \in ClientState
           /\ [s EXCEPT !.pc = p].pc = p
           /\ [s EXCEPT !.pc = p].gen = s.gen
           /\ [s EXCEPT !.pc = p].conn = s.conn
           /\ [s EXCEPT !.pc = p].verdict = s.verdict
BY DEF ClientState

LEMMA Verdict ==
    ASSUME NEW s \in ClientState, NEW v \in {"finished", "replaced", "slow"}
    PROVE  /\ [s EXCEPT !.verdict = v] \in ClientState
           /\ [s EXCEPT !.verdict = v].pc = s.pc
           /\ [s EXCEPT !.verdict = v].gen = s.gen
           /\ [s EXCEPT !.verdict = v].conn = s.conn
           /\ [s EXCEPT !.verdict = v].verdict = v
BY DEF ClientState

(* The entry after a takeover, and the seats a connect and an activation give *)
LEMMA TakenOver ==
    ASSUME NEW o \in OwnerEntry
    PROVE  LET u == [o EXCEPT !.connected = TRUE, !.conn = @ + 1] IN
           u \in OwnerEntry /\ u.gen = o.gen /\ u.connected /\ u.conn = o.conn + 1
<1> DEFINE v == [o EXCEPT !.connected = TRUE]
<1>1. v \in OwnerEntry /\ v.gen = o.gen /\ v.connected /\ v.conn = o.conn
  BY DEF OwnerEntry
<1>2. o.conn + 1 \in Nat
  BY DEF OwnerEntry
<1>3. [o EXCEPT !.connected = TRUE, !.conn = @ + 1] = [v EXCEPT !.conn = o.conn + 1]
  BY <1>1
<1> HIDE DEF v
<1>4. LET w == [v EXCEPT !.conn = o.conn + 1] IN
      w \in OwnerEntry /\ w.gen = v.gen /\ w.connected = v.connected /\ w.conn = o.conn + 1
  BY <1>1, <1>2 DEF OwnerEntry
<1>5. QED
  BY <1>1, <1>3, <1>4

LEMMA Seat ==
    ASSUME NEW p \in ClientPC, NEW g \in 0 .. MaxGeneration, NEW n \in Nat
    PROVE  /\ LET u == [Away EXCEPT !.pc = p, !.gen = g, !.conn = n] IN
              u \in ClientState /\ u.pc = p /\ u.gen = g /\ u.conn = n /\ u.verdict = "finished"
           /\ LET u == [Away EXCEPT !.pc = p, !.gen = g] IN
              u \in ClientState /\ u.pc = p /\ u.gen = g /\ u.conn = 0 /\ u.verdict = "finished"
BY DEF Away, ClientState

LEMMA ThreadTurn ==
    ASSUME NEW t \in Thread, NEW p \in ThreadPC
    PROVE  /\ [t EXCEPT !.pc = p] \in Thread
           /\ [t EXCEPT !.pc = p].pc = p
           /\ [t EXCEPT !.pc = p].conn = t.conn
           /\ [t EXCEPT !.pc = p].sink = t.sink
           /\ [t EXCEPT !.pc = p].deadline = t.deadline
BY DEF Thread

LEMMA ThreadDeadline ==
    ASSUME NEW t \in Thread, NEW d \in {"none", "armed", "due"}
    PROVE  /\ [t EXCEPT !.deadline = d] \in Thread
           /\ [t EXCEPT !.deadline = d].pc = t.pc
           /\ [t EXCEPT !.deadline = d].conn = t.conn
           /\ [t EXCEPT !.deadline = d].sink = t.sink
           /\ [t EXCEPT !.deadline = d].deadline = d
BY DEF Thread

LEMMA ThreadSink ==
    ASSUME NEW t \in Thread, NEW s \in Clients \cup {NoClient}, NEW d \in {"none", "armed", "due"}
    PROVE  LET u == [t EXCEPT !.sink = s, !.deadline = d] IN
           u \in Thread /\ u.pc = t.pc /\ u.conn = t.conn /\ u.sink = s /\ u.deadline = d
BY DEF Thread

LEMMA ThreadTakes ==
    ASSUME NEW t \in Thread, NEW n \in Nat, NEW s \in Clients \cup {NoClient}
    PROVE  LET u == [t EXCEPT !.conn = n, !.sink = s, !.deadline = "none"] IN
           u \in Thread /\ u.pc = t.pc /\ u.conn = n /\ u.sink = s /\ u.deadline = "none"
BY DEF Thread

(* The hub's three per-key updates *)
LEMMA RemovedOwners ==
    ASSUME TypeOK, NEW g
    PROVE  /\ Removed(g) \in [Keys -> OwnerEntry]
           /\ \A k \in Keys : Removed(g)[k] = IF owners[k].gen = g THEN NoEntry ELSE owners[k]
BY Types, Constants DEF Removed

LEMMA DetachedOwners ==
    ASSUME TypeOK, NEW g, NEW n
    PROVE  /\ Detached(g, n) \in [Keys -> OwnerEntry]
           /\ \A k \in Keys :
                 /\ Detached(g, n)[k].gen = owners[k].gen
                 /\ Detached(g, n)[k].conn = owners[k].conn
                 /\ ~ (owners[k].gen = g /\ owners[k].conn = n) => Detached(g, n)[k] = owners[k]
                 /\ owners[k].gen = g /\ owners[k].conn = n => ~ Detached(g, n)[k].connected
BY Types DEF Detached, OwnerEntry

LEMMA UnreservedKeys ==
    ASSUME TypeOK, NEW g
    PROVE  /\ Unreserved(g) \in [Keys -> 0 .. MaxGeneration]
           /\ \A k \in Keys : Unreserved(g)[k] = IF reservations[k] = g THEN 0 ELSE reservations[k]
BY Types, HubAssumption DEF Unreserved

(* An event channel is a queue of events *)
LEMMA SendEffect ==
    ASSUME TypeOK, NEW g \in Generations, NEW e \in Event,
           events' = [events EXCEPT ![g] = Append(@, e)]
    PROVE  /\ events' \in [Generations -> Seq(Event)]
           /\ \A h \in Generations : h # g => events'[h] = events[h]
           /\ DOMAIN events[g] = 1 .. Len(events[g])
           /\ DOMAIN events'[g] = 1 .. Len(events[g]) + 1
           /\ Len(events[g]) \in Nat
           /\ \A i \in DOMAIN events[g] : events'[g][i] = events[g][i]
           /\ events'[g][Len(events[g]) + 1] = e
BY Types

LEMMA TakeEffect ==
    ASSUME TypeOK, NEW g \in Generations, events[g] # <<>>, Take(g)
    PROVE  /\ events' \in [Generations -> Seq(Event)]
           /\ \A h \in Generations : h # g => events'[h] = events[h]
           /\ DOMAIN events[g] = 1 .. Len(events[g])
           /\ DOMAIN events'[g] = 1 .. Len(events[g]) - 1
           /\ Len(events[g]) \in Nat \ {0}
           /\ \A i \in DOMAIN events'[g] : events'[g][i] = events[g][i + 1]
           /\ First(g) = events[g][1]
           /\ First(g) \in Event
BY Types DEF Take, First

LEMMA TakeShifts ==
    ASSUME TypeOK, NEW g \in Generations, events[g] # <<>>, Take(g)
    PROVE  /\ \A h \in Generations : h # g => events'[h] = events[h]
           /\ 1 \in DOMAIN events[g] /\ First(g) = events[g][1]
           /\ \A i \in DOMAIN events'[g] : /\ i \in Nat /\ i >= 1 /\ i + 1 \in DOMAIN events[g]
                                           /\ events'[g][i] = events[g][i + 1]
           /\ \A i \in DOMAIN events[g] : /\ i \in Nat /\ i >= 1
                                          /\ i # 1 => i - 1 \in DOMAIN events'[g]
BY TakeEffect

-----------------------------------------------------------------------------
(* Type correctness *)

LEMMA EventTyped ==
    ASSUME NEW kind \in {"attach", "detach", "close"}, NEW conn \in Nat, NEW from \in Clients
    PROVE  [kind |-> kind, conn |-> conn, from |-> from] \in Event
BY DEF Event

LEMMA SendTyped ==
    ASSUME TypeOK, NEW g, NEW kind \in {"attach", "detach", "close"}, NEW conn \in Nat,
           NEW from \in Clients, Send(g, kind, conn, from)
    PROVE  events' \in [Generations -> Seq(Event)]
<1>1. CASE g \in Generations
  BY <1>1, EventTyped, SendEffect DEF Send
<1>2. CASE g \notin Generations
  BY <1>2, Types DEF Send
<1>3. QED
  BY <1>1, <1>2

LEMMA ConnectTypes ==
    ASSUME TypeOK, NEW c \in Clients, NEW k \in Keys, Reattach(c, k) \/ Reserve(c, k)
    PROVE  TypeOK'
<1>1. owners[k] \in OwnerEntry /\ owners[k].gen \in 0 .. MaxGeneration /\ owners[k].conn \in Nat
  BY Types DEF OwnerEntry
<1>2. CASE Reattach(c, k)
  <2>1. owners' \in [Keys -> OwnerEntry]
    <3>1. owners' = [owners EXCEPT ![k] = [owners[k] EXCEPT !.connected = TRUE, !.conn = @ + 1]]
      BY <1>2 DEF Reattach
    <3>2. [owners[k] EXCEPT !.connected = TRUE, !.conn = @ + 1] \in OwnerEntry
      BY <1>1, TakenOver
    <3>3. QED
      BY <3>1, <3>2, Types
  <2>2. client' \in [Clients -> ClientState]
    <3> DEFINE s == [Away EXCEPT !.pc = "upgrading", !.gen = owners[k].gen, !.conn = owners[k].conn + 1]
    <3>1. s \in ClientState
      <4>1. "upgrading" \in ClientPC
        BY DEF ClientPC
      <4>2. owners[k].gen \in 0 .. MaxGeneration
        BY <1>1
      <4>3. owners[k].conn + 1 \in Nat
        BY <1>1
      <4>4. QED
        BY <4>1, <4>2, <4>3, Seat, ZenonT(30)
    <3>2. client' = [client EXCEPT ![c] = s]
      BY <1>2 DEF Reattach
    <3> HIDE DEF s
    <3>3. QED
      BY <3>1, <3>2, Types
  <2>3. QED
    BY <1>2, <2>1, <2>2, Types, TypesNext DEF Reattach
<1>3. CASE Reserve(c, k)
  <2>1. lastGen + 1 \in 0 .. MaxGeneration
    BY <1>3, Types, HubAssumption DEF Reserve
  <2>2. client' \in [Clients -> ClientState]
    <3> DEFINE s == [Away EXCEPT !.pc = "starting", !.gen = lastGen + 1]
    <3>1. s \in ClientState
      <4>1. "starting" \in ClientPC
        BY DEF ClientPC
      <4>2. 0 \in Nat
        OBVIOUS
      <4>3. QED
        BY <2>1, <4>1, <4>2, Seat, Zenon
    <3>2. client' = [client EXCEPT ![c] = s]
      BY <1>3 DEF Reserve
    <3> HIDE DEF s
    <3>3. QED
      BY <3>1, <3>2, Types
  <2>3. reservations' \in [Keys -> 0 .. MaxGeneration]
    BY <1>3, <2>1, Types DEF Reserve
  <2>4. QED
    BY <1>3, <2>1, <2>2, <2>3, Types, TypesNext DEF Reserve
<1>4. QED
  BY <1>2, <1>3

LEMMA StageTyped ==
    ASSUME TypeOK, NEW c \in Clients, NEW p \in ClientPC,
           client' = [client EXCEPT ![c].pc = p] \/ client' = [client EXCEPT ![c] = Away]
    PROVE  client' \in [Clients -> ClientState]
<1>1. client \in [Clients -> ClientState] /\ client[c] \in ClientState
  BY Types
<1>2. [client[c] EXCEPT !.pc = p] \in ClientState
  BY <1>1, Stage
<1>3. Away \in ClientState
  BY Constants
<1>4. CASE client' = [client EXCEPT ![c].pc = p]
  <2> DEFINE s == [client[c] EXCEPT !.pc = p]
  <2>1. client' = [client EXCEPT ![c] = s]
    BY <1>4
  <2> HIDE DEF s
  <2>2. s \in ClientState
    BY <1>2 DEF s
  <2>3. QED
    BY <1>1, <2>1, <2>2
<1>5. CASE client' = [client EXCEPT ![c] = Away]
  BY <1>1, <1>3, <1>5
<1>6. QED
  BY <1>4, <1>5

LEMMA LaunchTypes == ASSUME TypeOK, NEW c \in Clients, Launch(c) PROVE TypeOK'
<1>1. thread' \in [Generations -> Thread]
  BY Types, ThreadTurn DEF Launch, ThreadPC
<1>2. QED
  BY <1>1, Types, TypesNext DEF Launch, hub

LEMMA ActivateTypes == ASSUME TypeOK, NEW c \in Clients, Activate(c) PROVE TypeOK'
<1> DEFINE g == client[c].gen
<1>1. g \in 0 .. MaxGeneration
  BY Types DEF ClientState
<1>2. owners' \in [Keys -> OwnerEntry]
  <2>1. [gen |-> g, connected |-> TRUE, conn |-> 1] \in OwnerEntry
    BY <1>1 DEF OwnerEntry
  <2>2. QED
    BY <2>1, Types DEF Activate
<1>3. thread' \in [Generations -> Thread]
  <2> DEFINE t == [thread[g] EXCEPT !.pc = "serving", !.deadline = "armed"]
  <2>1. thread' = [thread EXCEPT ![g] = t]
    BY DEF Activate
  <2>2. ASSUME g \in Generations PROVE t \in Thread
    <3>1. thread[g] \in Thread
      BY <2>2, Types
    <3>2. QED
      BY <3>1 DEF Thread, ThreadPC
  <2> HIDE DEF t
  <2>3. QED
    BY <2>1, <2>2, Types
<1>4. client' \in [Clients -> ClientState]
  <2> DEFINE s == [client[c] EXCEPT !.pc = "upgrading", !.conn = 1]
  <2>1. client' = [client EXCEPT ![c] = s]
    BY DEF Activate
  <2>2. s \in ClientState
    <3>1. client[c] \in ClientState
      BY Types
    <3>2. QED
      BY <3>1 DEF ClientState, ClientPC
  <2> HIDE DEF s
  <2>3. QED
    BY <2>1, <2>2, Types
<1>5. reservations' \in [Keys -> 0 .. MaxGeneration]
  BY UnreservedKeys DEF Activate
<1>6. QED
  BY <1>2, <1>3, <1>4, <1>5, Types, TypesNext DEF Activate

LEMMA ClientStepTypes ==
    ASSUME TypeOK, NEW c \in Clients,
           \/ GiveUp(c) \/ Upgrade(c) \/ ReattachFails(c) \/ FreshFails(c) \/ Disconnect(c)
           \/ MarkDetached(c) \/ SendDetach(c) \/ Released(c) \/ AskClose(c) \/ CloseAnswered(c)
    PROVE  TypeOK'
<1> DEFINE g == client[c].gen
<1>1. client[c] \in ClientState /\ client[c].conn \in Nat
  BY Types DEF ClientState
<1>2. client' \in [Clients -> ClientState]
  <2>1. CASE ~ Released(c)
    <3>1. \E p \in ClientPC : client' = [client EXCEPT ![c].pc = p] \/ client' = [client EXCEPT ![c] = Away]
      BY <2>1 DEF GiveUp, Upgrade, ReattachFails, FreshFails, Disconnect, MarkDetached, SendDetach,
             AskClose, CloseAnswered, ClientPC
    <3>2. QED
      BY <3>1, StageTyped
  <2>2. CASE Released(c)
    <3>1. client' = [client EXCEPT ![c].pc = "leaving"] \/ client' = [client EXCEPT ![c] = Away]
      BY <2>2 DEF Released
    <3>2. QED
      BY <3>1, StageTyped DEF ClientPC
  <2>3. QED
    BY <2>1, <2>2
<1>3. events' \in [Generations -> Seq(Event)]
  <2>1. CASE UNCHANGED events
    BY <2>1, Types
  <2>2. CASE \E kind \in {"attach", "detach", "close"} : Send(g, kind, client[c].conn, c)
    BY <1>1, <2>2, SendTyped
  <2>3. QED
    BY <2>1, <2>2 DEF GiveUp, Upgrade, ReattachFails, FreshFails, Disconnect, MarkDetached, SendDetach,
       Released, AskClose, CloseAnswered, hub
<1>4. owners' \in [Keys -> OwnerEntry]
  <2>1. owners' \in {owners, Removed(g), Detached(g, client[c].conn)}
    BY DEF GiveUp, Upgrade, ReattachFails, FreshFails, Disconnect, MarkDetached, SendDetach,
       Released, AskClose, CloseAnswered, hub
  <2>2. QED
    BY <2>1, RemovedOwners, DetachedOwners, Types
<1>5. reservations' \in [Keys -> 0 .. MaxGeneration]
  <2>1. reservations' \in {reservations, Unreserved(g)}
    BY DEF GiveUp, Upgrade, ReattachFails, FreshFails, Disconnect, MarkDetached, SendDetach,
       Released, AskClose, CloseAnswered, hub
  <2>2. QED
    BY <2>1, UnreservedKeys, Types
<1>6. UNCHANGED <<lastGen, thread, child>>
  BY DEF GiveUp, Upgrade, ReattachFails, FreshFails, Disconnect, MarkDetached, SendDetach,
     Released, AskClose, CloseAnswered, hub
<1>7. QED
  BY <1>2, <1>3, <1>4, <1>5, <1>6, Types, TypesNext

LEMMA ThreadEndsTyped ==
    ASSUME TypeOK, NEW g \in Generations, ThreadEnds(g)
    PROVE  /\ thread' \in [Generations -> Thread]
           /\ events' \in [Generations -> Seq(Event)]
           /\ thread'[g].pc = "gone" /\ thread'[g].conn = 0 /\ thread'[g].sink = NoClient
           /\ \A h \in Generations : h # g => thread'[h] = thread[h] /\ events'[h] = events[h]
           /\ events'[g] = <<>>
<1> DEFINE t == [Unborn EXCEPT !.pc = "gone"]
<1>1. t \in Thread /\ t.pc = "gone" /\ t.conn = 0 /\ t.sink = NoClient
  BY DEF Unborn, Thread, ThreadPC
<1>2. <<>> \in Seq(Event)
  OBVIOUS
<1>3. thread' = [thread EXCEPT ![g] = t] /\ events' = [events EXCEPT ![g] = <<>>]
  BY DEF ThreadEnds
<1> HIDE DEF t
<1>4. QED
  BY <1>1, <1>2, <1>3, Types

LEMMA ThreadStepTypes ==
    ASSUME TypeOK, NEW g \in Generations, ThreadStep(g) \/ GraceRunsOut(g) \/ ThreadEvent(g)
    PROVE  TypeOK'
<1> USE DEF hub
<1>1. thread[g] \in Thread
  BY Types
<1>2. CASE PtySpawned(g) \/ PtyFailed(g) \/ Abandon(g) \/ Expire(g) \/ Close(g)
  <2>1. \E p \in ThreadPC : thread' = [thread EXCEPT ![g].pc = p]
    BY <1>2 DEF PtySpawned, PtyFailed, Abandon, Expire, Close, ThreadPC
  <2>2. thread' \in [Generations -> Thread]
    BY <1>1, <2>1, ThreadTurn, Types
  <2>3. child' \in [Generations -> {"none", "alive", "dead"}]
    BY <1>2, Types DEF PtySpawned, PtyFailed, Abandon, Expire, Close
  <2>4. owners' \in {owners, Removed(g)} /\ UNCHANGED <<reservations, lastGen, events, client>>
    BY <1>2 DEF PtySpawned, PtyFailed, Abandon, Expire, Close
  <2>5. QED
    BY <2>2, <2>3, <2>4, RemovedOwners, Types, TypesNext
<1>3. CASE GraceRunsOut(g) \/ Reconnected(g) \/ ChildExits(g)
  <2>1. thread' = thread \/ \E d \in {"none", "armed", "due"} : thread' = [thread EXCEPT ![g].deadline = d]
    BY <1>3 DEF GraceRunsOut, Reconnected, ChildExits
  <2>2. thread' \in [Generations -> Thread]
    <3>1. \A d \in {"none", "armed", "due"} : [thread[g] EXCEPT !.deadline = d] \in Thread
      BY <1>1, ThreadDeadline
    <3>2. QED
      BY <2>1, <3>1, Types
  <2>3. child' \in [Generations -> {"none", "alive", "dead"}]
    BY <1>3, Types DEF GraceRunsOut, Reconnected, ChildExits
  <2>4. UNCHANGED <<hub, events, client>>
    BY <1>3 DEF GraceRunsOut, Reconnected, ChildExits
  <2>5. QED
    BY <2>2, <2>3, <2>4, Types, TypesNext
<1>4. CASE FinishExited(g) \/ Kill(g) \/ FinishClose(g)
  <2>1. ThreadEnds(g) /\ UNCHANGED <<reservations, lastGen, client>> /\ owners' \in {owners, Removed(g)}
    BY <1>4 DEF FinishExited, Kill, FinishClose
  <2>2. child' \in [Generations -> {"none", "alive", "dead"}]
    BY <1>4, Types DEF FinishExited, Kill, FinishClose
  <2>3. QED
    BY <2>1, <2>2, ThreadEndsTyped, RemovedOwners, Types, TypesNext
<1>5. CASE Attach(g)
  <2>1. events[g] # <<>> /\ Take(g) /\ UNCHANGED <<hub, child>>
    BY <1>5 DEF Attach
  <2>2. First(g).conn \in Nat /\ First(g).from \in Clients
    BY <2>1, TakeEffect DEF Event
  <2>3. thread' \in [Generations -> Thread]
    BY <1>1, <1>5, <2>2, ThreadTakes, Types DEF Attach
  <2>4. client' \in [Clients -> ClientState]
    BY <1>5, Verdict, Types DEF Attach
  <2>5. QED
    BY <2>1, <2>3, <2>4, TakeEffect, Types, TypesNext
<1>6. CASE Detach(g) \/ IgnoreClose(g)
  <2>1. events[g] # <<>> /\ Take(g) /\ UNCHANGED <<hub, child, client>>
    BY <1>6 DEF Detach, IgnoreClose
  <2>2. thread' \in [Generations -> Thread]
    <3>1. [thread[g] EXCEPT !.sink = NoClient, !.deadline = "armed"] \in Thread
      BY <1>1 DEF Thread
    <3>2. thread' = thread \/ thread' = [thread EXCEPT ![g] = [thread[g] EXCEPT !.sink = NoClient, !.deadline = "armed"]]
      BY <1>6 DEF Detach, IgnoreClose
    <3>3. QED
      BY <3>1, <3>2, Types
  <2>3. QED
    BY <2>1, <2>2, TakeEffect, Types, TypesNext
<1>7. CASE SlowConsumer(g) \/ SinkClosed(g)
  <2>1. thread' \in [Generations -> Thread]
    <3>1. [thread[g] EXCEPT !.sink = NoClient, !.deadline = "armed"] \in Thread
      BY <1>1 DEF Thread
    <3>2. thread' = thread \/ thread' = [thread EXCEPT ![g] = [thread[g] EXCEPT !.sink = NoClient, !.deadline = "armed"]]
      BY <1>7 DEF SlowConsumer, SinkClosed, ReleaseSink
    <3>3. QED
      BY <3>1, <3>2, Types
  <2>2. client' \in [Clients -> ClientState]
    <3>1. CASE SlowConsumer(g)
      <4>1. thread[g].sink \in Clients
        BY <3>1 DEF SlowConsumer, Reading, Serves
      <4>2. QED
        BY <3>1, <4>1, Verdict, Types DEF SlowConsumer
    <3>2. QED
      BY <1>7, <3>1, Types DEF SinkClosed
  <2>3. owners' \in [Keys -> OwnerEntry] /\ UNCHANGED <<reservations, lastGen, child, events>>
    BY <1>7, DetachedOwners DEF SlowConsumer, SinkClosed, ReleaseSink
  <2>4. QED
    BY <2>1, <2>2, <2>3, Types, TypesNext
<1>8. QED
  BY <1>2, <1>3, <1>4, <1>5, <1>6, <1>7 DEF ThreadStep, ThreadEvent

LEMMA TypeStarts == ASSUME Init PROVE TypeOK
BY HubAssumption, Constants, Types DEF Init

LEMMA TypeKeeps == ASSUME TypeOK, [Next]_vars PROVE TypeOK'
<1>1. CASE \E c \in Clients : ClientStep(c) \/ ClientEvent(c)
  BY <1>1, ConnectTypes, LaunchTypes, ActivateTypes, ClientStepTypes DEF ClientStep, ClientEvent, Connect
<1>2. CASE \E g \in Generations : ThreadStep(g) \/ GraceRunsOut(g) \/ ThreadEvent(g)
  BY <1>2, ThreadStepTypes
<1>3. CASE UNCHANGED vars
  BY <1>3 DEF TypeOK, vars, Event
<1>4. QED
  BY <1>1, <1>2, <1>3 DEF Next

(* Type correctness of the hub, its threads, their channels and sockets.   *)
THEOREM TypeCorrect == Spec => []TypeOK
<1>1. Init => TypeOK
  BY TypeStarts
<1>2. TypeOK /\ [Next]_vars => TypeOK'
  BY TypeKeeps
<1>3. QED
  BY <1>1, <1>2, PTL DEF Spec

-----------------------------------------------------------------------------
(* The invariant.  A generation is claimed first by a reservation, then by *)
(* an owner entry, never by two keys; a connection number is given to one  *)
(* client of a generation and reaches the owner thread at most once.       *)

AttachAt(g, i, n) == events[g][i].kind = "attach" /\ events[g][i].conn = n
AttachQueued(g, n) == \E i \in DOMAIN events[g] : AttachAt(g, i, n)

(* The client has a connection of an activated owner *)
Linked(c) == client[c].pc \notin {"away", "starting"}

Asleep(g) == thread[g].pc \in {"unborn", "spawning", "waiting"}

(* Nothing is known of a generation that was never reserved *)
Births ==
    /\ \A g \in Generations : g > lastGen => thread[g] = Unborn /\ events[g] = <<>>
    /\ \A k \in Keys : owners[k].gen <= lastGen /\ reservations[k] <= lastGen
    /\ \A c \in Clients : client[c].gen <= lastGen

Leases == \A c \in Clients :
    /\ client[c].pc = "away" => client[c] = Away
    /\ client[c].pc # "away" => client[c].gen # 0
    /\ Linked(c) => client[c].conn >= 1
    /\ client[c].pc = "starting" => \E k \in Keys : reservations[k] = client[c].gen

ReservedOnce ==
    /\ \A j, k \in Keys : reservations[j] # 0 /\ reservations[j] = reservations[k] => j = k
    /\ \A k \in Keys : reservations[k] # 0 => owners[k].gen = 0

OwnedOnce ==
    \A j, k \in Keys : owners[j].gen # 0 /\ owners[j].gen = owners[k].gen => j = k

(* One request starts a reserved generation, and nobody else is on it *)
ReservedStarts ==
    /\ \A k \in Keys, c \in Clients :
          reservations[k] # 0 /\ client[c].gen = reservations[k] => client[c].pc = "starting"
    /\ \A c, d \in Clients :
          client[c].pc = "starting" /\ client[d].gen = client[c].gen => c = d

ReservedDormant ==
    \A k \in Keys : reservations[k] # 0 =>
        Asleep(reservations[k]) \/ thread[reservations[k]].pc = "gone"

Dormant ==
    \A g \in Generations : Asleep(g) =>
        /\ events[g] = <<>>
        /\ thread[g].conn = 0
        /\ thread[g].sink = NoClient
        /\ \A c \in Clients : client[c].gen = g => client[c].pc = "starting"

(* No connection of an owner is newer than the hub's count *)
Issued ==
    \A k \in Keys : owners[k].gen # 0 =>
        /\ owners[k].conn >= 1
        /\ thread[owners[k].gen].conn <= owners[k].conn
        /\ \A i \in DOMAIN events[owners[k].gen] : events[owners[k].gen][i].conn <= owners[k].conn
        /\ \A c \in Clients : client[c].gen = owners[k].gen => client[c].conn <= owners[k].conn

OwnConn ==
    \A c, d \in Clients :
        /\ Linked(c) /\ Linked(d)
        /\ client[c].gen = client[d].gen
        /\ client[c].conn = client[d].conn
        => c = d

UpgradingIsNew ==
    \A c \in Clients : client[c].pc = "upgrading" =>
        /\ ~ AttachQueued(client[c].gen, client[c].conn)
        /\ thread[client[c].gen].conn # client[c].conn

QueuedOnce ==
    \A g \in Generations : \A i \in DOMAIN events[g] : events[g][i].kind = "attach" =>
        /\ thread[g].conn # events[g][i].conn
        /\ \A j \in DOMAIN events[g] : AttachAt(g, j, events[g][i].conn) => i = j

(* The holder of the newest connection, still on its way: nobody may have  *)
(* cleared the flag it set                                                 *)
ComingIsConnected ==
    \A k \in Keys, c \in Clients :
        owners[k].gen # 0 /\ OnTheWay(c, owners[k].gen) /\ client[c].conn = owners[k].conn
            => owners[k].connected

HubInv ==
    /\ TypeOK
    /\ Births
    /\ Leases
    /\ ReservedOnce
    /\ OwnedOnce
    /\ ReservedStarts
    /\ ReservedDormant
    /\ Dormant
    /\ NoGhostOwner
    /\ Issued
    /\ OwnConn
    /\ UpgradingIsNew
    /\ QueuedOnce
    /\ ComingIsConnected

LEMMA HubStarts == ASSUME Init PROVE HubInv
<1>1. TypeOK
  BY TypeStarts
<1>2. \A c \in Clients : client[c] = Away /\ client[c].pc = "away" /\ client[c].gen = 0
  BY DEF Init, Away
<1>3. \A k \in Keys : owners[k].gen = 0 /\ reservations[k] = 0
  BY DEF Init, NoEntry
<1>4. \A g \in Generations :
        thread[g] = Unborn /\ thread[g].conn = 0 /\ thread[g].sink = NoClient /\ events[g] = <<>>
  BY DEF Init, Unborn
<1>5. lastGen = 0
  BY DEF Init
<1>6. Births
  BY <1>2, <1>3, <1>4, <1>5 DEF Births
<1>7. Leases /\ OwnConn /\ UpgradingIsNew
  BY <1>2 DEF Leases, Linked, OwnConn, UpgradingIsNew
<1>8. ReservedOnce /\ OwnedOnce /\ ReservedStarts /\ ReservedDormant /\ NoGhostOwner /\ Issued
  BY <1>2, <1>3 DEF ReservedOnce, OwnedOnce, ReservedStarts, ReservedDormant, NoGhostOwner, Issued
<1>9. Dormant
  BY <1>2, <1>4 DEF Dormant, Generations
<1>10. QueuedOnce /\ ComingIsConnected
  BY <1>3, <1>4 DEF QueuedOnce, ComingIsConnected
<1>11. QED
  BY <1>1, <1>6, <1>7, <1>8, <1>9, <1>10 DEF HubInv

(* An owned generation, a leased one and a started thread are generations *)
LEMMA GenerationsAre ==
    ASSUME TypeOK, Births, Leases
    PROVE  /\ \A k \in Keys : owners[k].gen # 0 => owners[k].gen \in Generations
           /\ \A k \in Keys : reservations[k] # 0 => reservations[k] \in Generations
           /\ \A c \in Clients : client[c].pc # "away" => client[c].gen \in Generations
           /\ \A g \in Generations : thread[g].pc # "unborn" => g <= lastGen
BY Types, HubAssumption DEF Births, Leases, Generations, OwnerEntry, ClientState, Unborn

-----------------------------------------------------------------------------
(* A thread turns: its stage or its clock moves on, its socket stays.  If  *)
(* it stops being adoptable, the hub forgets it in the same step.          *)
Turns(g) ==
    /\ thread'[g].conn = thread[g].conn
    /\ thread'[g].sink = thread[g].sink
    /\ \A h \in Generations : h # g => thread'[h] = thread[h]
    /\ Asleep(g)' => Asleep(g)
    /\ Asleep(g) \/ thread[g].pc = "gone" => Asleep(g)' \/ thread'[g].pc = "gone"
    /\ thread[g].pc = "gone" => thread'[g].pc = "gone"
    /\ thread'[g].pc = "serving" => thread[g].pc = "serving" /\ owners' = owners
    /\ thread'[g].pc = "serving" /\ thread'[g].deadline = "none"
          => thread[g].deadline = "none" \/ Connected(g)

Adoptable(g) == thread[g].pc \in {"serving", "closing"}

LEMMA TurnKeeps ==
    ASSUME HubInv, TypeOK', NEW g \in Generations, g <= lastGen, Turns(g),
           UNCHANGED <<reservations, lastGen, events, client>>,
           owners' = Removed(g) \/ (owners' = owners /\ (Adoptable(g) => Adoptable(g)'))
    PROVE  HubInv'
<1> USE DEF HubInv
<1>1. \A k \in Keys : owners'[k] = owners[k] \/ owners'[k] = NoEntry
  BY RemovedOwners
<1>2. \A k \in Keys : owners'[k].gen = g => Adoptable(g) /\ Adoptable(g)'
  BY <1>1, RemovedOwners, HubAssumption DEF NoGhostOwner, NoEntry, Generations, Adoptable
<1>3. NoEntry.gen = 0 /\ NoEntry.conn = 0
  BY DEF NoEntry
<1>4. Births'
  <2>1. \A h \in Generations : h > lastGen => thread'[h] = thread[h]
    BY Types DEF Turns, Generations
  <2>2. \A k \in Keys : owners'[k].gen <= lastGen
    <3>1. 0 <= lastGen
      BY Types
    <3>2. QED
      BY <1>1, <1>3, <3>1 DEF Births
  <2>3. QED
    BY <2>1, <2>2 DEF Births
<1>5. Leases' /\ ReservedStarts' /\ OwnConn'
  BY DEF Leases, ReservedStarts, OwnConn, Linked
<1>6. ReservedOnce' /\ OwnedOnce'
  BY <1>1, <1>3 DEF ReservedOnce, OwnedOnce
<1>7. ReservedDormant'
  BY GenerationsAre DEF ReservedDormant, Turns, Asleep
<1>8. Dormant'
  BY DEF Dormant, Turns, Asleep
<1>9. NoGhostOwner'
  BY <1>1, <1>2, <1>3, GenerationsAre DEF NoGhostOwner, Turns, Adoptable
<1>10. \A h \in Generations : thread'[h].conn = thread[h].conn
  BY DEF Turns
<1>11. Issued'
  BY <1>1, <1>3, <1>10, GenerationsAre DEF Issued
<1>12. UpgradingIsNew' /\ QueuedOnce'
  BY <1>10, GenerationsAre DEF UpgradingIsNew, QueuedOnce, AttachQueued, AttachAt
<1>13. ComingIsConnected'
  BY <1>1, <1>3 DEF ComingIsConnected, OnTheWay, Pending
<1>14. QED
  BY <1>4, <1>5, <1>6, <1>7, <1>8, <1>9, <1>11, <1>12, <1>13

LEMMA TurnStepEffect ==
    ASSUME HubInv, NEW g \in Generations,
           \/ PtySpawned(g) \/ PtyFailed(g) \/ Abandon(g) \/ Expire(g) \/ Close(g)
           \/ GraceRunsOut(g) \/ Reconnected(g)
    PROVE  /\ g <= lastGen
           /\ Turns(g)
           /\ UNCHANGED <<reservations, lastGen, events, client>>
           /\ owners' = Removed(g) \/ (owners' = owners /\ (Adoptable(g) => Adoptable(g)'))
<1> USE DEF HubInv
<1>1. g <= lastGen
  <2>1. Unborn.pc = "unborn" /\ Unborn.deadline = "none"
    BY DEF Unborn
  <2>2. thread[g] # Unborn
    BY <2>1 DEF PtySpawned, PtyFailed, Abandon, Expire, Close, GraceRunsOut, Reconnected, Serving
  <2>3. QED
    BY <2>2, Types DEF Births, Generations
<1>2. thread[g] \in Thread
  BY Types
<1>3. CASE PtySpawned(g) \/ PtyFailed(g) \/ Abandon(g) \/ Expire(g) \/ Close(g)
  <2>1. PICK p \in ThreadPC :
          /\ thread' = [thread EXCEPT ![g].pc = p]
          /\ \/ thread[g].pc = "spawning" /\ p \in {"waiting", "gone"} /\ owners' = owners
             \/ thread[g].pc = "waiting" /\ p = "gone" /\ owners' = Removed(g)
             \/ thread[g].pc = "serving" /\ p = "killing" /\ owners' = Removed(g)
             \/ thread[g].pc = "serving" /\ p = "closing" /\ owners' = owners
    BY <1>3 DEF PtySpawned, PtyFailed, Abandon, Expire, Close, Serving, ThreadPC, hub
  <2>2. /\ thread'[g].pc = p /\ thread'[g].conn = thread[g].conn /\ thread'[g].sink = thread[g].sink
        /\ thread'[g].deadline = thread[g].deadline
        /\ \A h \in Generations : h # g => thread'[h] = thread[h]
    BY <1>2, <2>1, ThreadTurn, Types
  <2>3. Turns(g)
    BY <2>1, <2>2 DEF Turns, Asleep
  <2>4. UNCHANGED <<reservations, lastGen, events, client>>
    BY <1>3 DEF PtySpawned, PtyFailed, Abandon, Expire, Close, hub
  <2>5. owners' = Removed(g) \/ (owners' = owners /\ (Adoptable(g) => Adoptable(g)'))
    BY <2>1, <2>2 DEF Adoptable
  <2>6. QED
    BY <1>1, <2>3, <2>4, <2>5
<1>4. CASE GraceRunsOut(g) \/ Reconnected(g)
  <2>1. PICK d \in {"none", "armed", "due"} : thread' = [thread EXCEPT ![g].deadline = d]
    BY <1>4 DEF GraceRunsOut, Reconnected
  <2>2. /\ thread'[g].pc = thread[g].pc /\ thread'[g].conn = thread[g].conn
        /\ thread'[g].sink = thread[g].sink /\ thread'[g].deadline = d
        /\ \A h \in Generations : h # g => thread'[h] = thread[h]
    BY <1>2, <2>1, ThreadDeadline, Types
  <2>3. thread'[g].deadline = "none" => Connected(g)
    <3>1. CASE GraceRunsOut(g)
      <4>1. [thread[g] EXCEPT !.deadline = "due"].deadline = "due"
        BY <1>2, ThreadDeadline
      <4>2. QED
        BY <3>1, <4>1, Types DEF GraceRunsOut
    <3>2. CASE Reconnected(g)
      BY <3>2 DEF Reconnected
    <3>3. QED
      BY <1>4, <3>1, <3>2
  <2>4. UNCHANGED <<owners, reservations, lastGen, events, client>>
    BY <1>4 DEF GraceRunsOut, Reconnected, hub
  <2>5. Turns(g) /\ (Adoptable(g) => Adoptable(g)')
    BY <2>2, <2>3, <2>4 DEF Turns, Asleep, Adoptable
  <2>6. QED
    BY <1>1, <2>4, <2>5
<1>5. QED
  BY <1>3, <1>4

LEMMA TurnStepKeeps ==
    ASSUME HubInv, TypeOK', NEW g \in Generations,
           \/ PtySpawned(g) \/ PtyFailed(g) \/ Abandon(g) \/ Expire(g) \/ Close(g)
           \/ GraceRunsOut(g) \/ Reconnected(g)
    PROVE  HubInv'
BY TurnStepEffect, TurnKeeps

(* ThreadEnds: the thread is gone and its channel with it *)
LEMMA EndEffect ==
    ASSUME HubInv, NEW g \in Generations, FinishExited(g) \/ Kill(g) \/ FinishClose(g)
    PROVE  /\ thread'[g].pc = "gone" /\ thread'[g].conn = 0 /\ thread'[g].sink = NoClient /\ events'[g] = <<>>
           /\ \A h \in Generations : h # g => thread'[h] = thread[h] /\ events'[h] = events[h]
           /\ UNCHANGED <<reservations, lastGen, client>>
           /\ thread[g].pc \in {"serving", "killing", "closing"}
           /\ g <= lastGen
           /\ \A k \in Keys : owners'[k] = owners[k] \/ owners'[k] = NoEntry
           /\ \A k \in Keys : owners'[k].gen # g
<1> USE DEF HubInv
<1>1. /\ thread'[g].pc = "gone" /\ thread'[g].conn = 0 /\ thread'[g].sink = NoClient /\ events'[g] = <<>>
      /\ \A h \in Generations : h # g => thread'[h] = thread[h] /\ events'[h] = events[h]
  BY ThreadEndsTyped DEF FinishExited, Kill, FinishClose
<1>2. UNCHANGED <<reservations, lastGen, client>>
  BY DEF FinishExited, Kill, FinishClose, hub
<1>3. thread[g].pc \in {"serving", "killing", "closing"}
  BY DEF FinishExited, Kill, FinishClose, Serving
<1>4. g <= lastGen
  BY <1>3, GenerationsAre
<1>5. /\ \A k \in Keys : owners'[k] = owners[k] \/ owners'[k] = NoEntry
      /\ \A k \in Keys : owners'[k].gen # g
  <2>1. CASE Kill(g)
    BY <1>3, <2>1, GenerationsAre DEF Kill, hub, NoGhostOwner, Generations
  <2>2. CASE FinishExited(g) \/ FinishClose(g)
    BY <2>2, RemovedOwners DEF FinishExited, FinishClose, NoEntry, Generations
  <2>3. QED
    BY <2>1, <2>2
<1>6. QED
  BY <1>1, <1>2, <1>3, <1>4, <1>5

LEMMA EndKeeps ==
    ASSUME HubInv, TypeOK', NEW g \in Generations, FinishExited(g) \/ Kill(g) \/ FinishClose(g)
    PROVE  HubInv'
<1> USE DEF HubInv
<1>1. /\ thread'[g].pc = "gone" /\ thread'[g].conn = 0 /\ thread'[g].sink = NoClient /\ events'[g] = <<>>
      /\ \A h \in Generations : h # g => thread'[h] = thread[h] /\ events'[h] = events[h]
  BY EndEffect
<1>2. UNCHANGED <<reservations, lastGen, client>>
  BY EndEffect
<1>3. thread[g].pc \in {"serving", "killing", "closing"}
  BY EndEffect
<1>4. g <= lastGen
  BY EndEffect
<1>5. /\ \A k \in Keys : owners'[k] = owners[k] \/ owners'[k] = NoEntry
      /\ \A k \in Keys : owners'[k].gen # g
  BY EndEffect
<1>6. NoEntry.gen = 0 /\ 0 <= lastGen
  BY Types DEF NoEntry
<1>7. Births'
  <2>1. \A h \in Generations : h > lastGen => thread'[h] = thread[h] /\ events'[h] = events[h]
    BY <1>1, <1>4, Types DEF Generations
  <2>2. QED
    BY <1>2, <1>5, <1>6, <2>1 DEF Births
<1>8. Leases' /\ ReservedStarts' /\ OwnConn'
  BY <1>2 DEF Leases, ReservedStarts, OwnConn, Linked
<1>9. ReservedOnce' /\ OwnedOnce'
  BY <1>2, <1>5, <1>6 DEF ReservedOnce, OwnedOnce
<1>10. ReservedDormant' /\ Dormant'
  BY <1>1, <1>2, GenerationsAre DEF ReservedDormant, Dormant, Asleep
<1>11. NoGhostOwner'
  BY <1>1, <1>5, <1>6, GenerationsAre DEF NoGhostOwner
<1>12. Issued'
  BY <1>1, <1>2, <1>5, <1>6, GenerationsAre DEF Issued
<1>13. UpgradingIsNew'
  BY <1>1, <1>2, GenerationsAre DEF UpgradingIsNew, AttachQueued, AttachAt, Leases, Linked
<1>14. QueuedOnce'
  BY <1>1 DEF QueuedOnce, AttachAt
<1>15. ComingIsConnected'
  BY <1>1, <1>2, <1>5, <1>6, GenerationsAre DEF ComingIsConnected, OnTheWay, Pending
<1>16. QED
  BY <1>7, <1>8, <1>9, <1>10, <1>11, <1>12, <1>13, <1>14, <1>15

(* Every client keeps its seat: at most a close verdict changes *)
SameSeats ==
    \A c \in Clients :
        /\ client'[c].pc = client[c].pc
        /\ client'[c].gen = client[c].gen
        /\ client'[c].conn = client[c].conn
        /\ client[c].pc = "away" => client'[c] = client[c]

LEMMA SeatsKeep ==
    ASSUME HubInv, SameSeats, UNCHANGED reservations
    PROVE  Leases' /\ ReservedStarts' /\ OwnConn'
BY DEF HubInv, SameSeats, Leases, ReservedStarts, OwnConn, Linked

(* What the first event does to the owner's own socket *)
Takes(g) ==
    /\ Serving(g)
    /\ events[g] # <<>>
    /\ Take(g)
    /\ thread'[g].pc = "serving"
    /\ \A h \in Generations : h # g => thread'[h] = thread[h]
    /\ \/ thread'[g].conn = thread[g].conn /\ thread'[g].sink \in {thread[g].sink, NoClient}
       \/ First(g).kind = "attach" /\ thread'[g].conn = First(g).conn

LEMMA TakeKeeps ==
    ASSUME HubInv, TypeOK', NEW g \in Generations, Takes(g), SameSeats, UNCHANGED hub
    PROVE  HubInv'
<1> USE DEF HubInv, hub
<1>1. /\ \A h \in Generations : h # g => events'[h] = events[h]
      /\ DOMAIN events[g] = 1 .. Len(events[g])
      /\ DOMAIN events'[g] = 1 .. Len(events[g]) - 1
      /\ Len(events[g]) \in Nat \ {0}
      /\ \A i \in DOMAIN events'[g] : events'[g][i] = events[g][i + 1]
      /\ First(g) = events[g][1]
      /\ First(g) \in Event
  BY TakeEffect DEF Takes
<1>2. \A i \in DOMAIN events'[g] : i \in Nat /\ i >= 1 /\ i + 1 \in DOMAIN events[g]
  BY <1>1
<1>3. 1 \in DOMAIN events[g]
  BY <1>1
<1>4. thread[g].pc = "serving" /\ thread'[g].pc = "serving"
  BY DEF Takes, Serving
<1>5. g <= lastGen
  BY <1>4, GenerationsAre
<1>6. \A h \in Generations : h # g => thread'[h] = thread[h]
  BY DEF Takes
<1>7. Births'
  <2>1. \A h \in Generations : h > lastGen => thread'[h] = thread[h] /\ events'[h] = events[h]
    BY <1>1, <1>5, <1>6, Types DEF Generations
  <2>2. QED
    BY <2>1 DEF Births, SameSeats
<1>8. Leases' /\ ReservedStarts' /\ OwnConn'
  BY SeatsKeep
<1>9. ReservedOnce' /\ OwnedOnce'
  BY DEF ReservedOnce, OwnedOnce
<1>10. ReservedDormant'
  BY <1>4, <1>6, GenerationsAre DEF ReservedDormant, Asleep
<1>11. Dormant'
  BY <1>1, <1>4, <1>6 DEF Dormant, Asleep, SameSeats
<1>12. NoGhostOwner'
  BY <1>4, <1>6, GenerationsAre DEF NoGhostOwner
<1>13. Issued'
  <2>1. ASSUME NEW k \in Keys, owners[k].gen = g
        PROVE  /\ thread'[g].conn <= owners[k].conn
               /\ \A i \in DOMAIN events'[g] : events'[g][i].conn <= owners[k].conn
    <3>1. owners[k].gen # 0
      BY <2>1 DEF Generations
    <3>2. thread[g].conn <= owners[k].conn /\ First(g).conn <= owners[k].conn
      BY <1>1, <1>3, <2>1, <3>1 DEF Issued
    <3>3. \A i \in DOMAIN events'[g] : events'[g][i].conn <= owners[k].conn
      BY <1>1, <1>2, <2>1, <3>1 DEF Issued
    <3>4. QED
      BY <3>2, <3>3 DEF Takes
  <2>2. ASSUME NEW k \in Keys, owners[k].gen # 0, owners[k].gen # g
        PROVE  /\ thread'[owners[k].gen] = thread[owners[k].gen]
               /\ events'[owners[k].gen] = events[owners[k].gen]
    BY <1>1, <1>6, <2>2, GenerationsAre
  <2>3. QED
    BY <2>1, <2>2 DEF Issued, SameSeats
<1>14. UpgradingIsNew'
  <2>1. ASSUME NEW c \in Clients, client[c].pc = "upgrading", client[c].gen = g
        PROVE  ~ AttachQueued(g, client[c].conn)' /\ thread'[g].conn # client[c].conn
    <3>1. ~ AttachQueued(g, client[c].conn) /\ thread[g].conn # client[c].conn
      BY <2>1 DEF UpgradingIsNew
    <3>2. \A i \in DOMAIN events[g] : ~ AttachAt(g, i, client[c].conn)
      BY <3>1 DEF AttachQueued
    <3>3. ~ AttachQueued(g, client[c].conn)'
      BY <1>1, <1>2, <3>2, SMT DEF AttachQueued, AttachAt, SameSeats
    <3>4. thread'[g].conn # client[c].conn
      BY <1>1, <1>3, <3>1, <3>2 DEF Takes, AttachAt
    <3>5. QED
      BY <3>3, <3>4
  <2>2. ASSUME NEW c \in Clients, client[c].pc = "upgrading", client[c].gen # g
        PROVE  ~ AttachQueued(client[c].gen, client[c].conn)' /\ thread'[client[c].gen].conn # client[c].conn
    <3>1. client[c].gen \in Generations
      BY <2>2, GenerationsAre
    <3>2. events'[client[c].gen] = events[client[c].gen] /\ thread'[client[c].gen] = thread[client[c].gen]
      BY <1>1, <1>6, <2>2, <3>1
    <3>3. client'[c].gen = client[c].gen /\ client'[c].conn = client[c].conn
      BY DEF SameSeats
    <3>4. QED
      BY <2>2, <3>2, <3>3 DEF UpgradingIsNew, AttachQueued, AttachAt
  <2>3. QED
    BY <2>1, <2>2 DEF UpgradingIsNew, AttachQueued, AttachAt, SameSeats
<1>15. QueuedOnce'
  <2>1. ASSUME NEW i \in DOMAIN events'[g], events'[g][i].kind = "attach"
        PROVE  /\ thread'[g].conn # events'[g][i].conn
               /\ \A j \in DOMAIN events'[g] :
                     events'[g][j].kind = "attach" /\ events'[g][j].conn = events'[g][i].conn => i = j
    <3>1. i + 1 \in DOMAIN events[g] /\ events[g][i + 1] = events'[g][i] /\ i + 1 # 1
      BY <1>1, <1>2
    <3>2. /\ thread[g].conn # events'[g][i].conn
          /\ \A j \in DOMAIN events[g] : AttachAt(g, j, events'[g][i].conn) => j = i + 1
      BY <2>1, <3>1 DEF QueuedOnce
    <3>3. ~ AttachAt(g, 1, events'[g][i].conn)
      BY <1>3, <3>1, <3>2
    <3>4. thread'[g].conn # events'[g][i].conn
      BY <1>1, <3>2, <3>3 DEF Takes, AttachAt
    <3>5. \A j \in DOMAIN events'[g] :
                     events'[g][j].kind = "attach" /\ events'[g][j].conn = events'[g][i].conn => i = j
      <4>1. ASSUME NEW j \in DOMAIN events'[g],
                   events'[g][j].kind = "attach", events'[g][j].conn = events'[g][i].conn
            PROVE  i = j
        <5>1. AttachAt(g, j + 1, events'[g][i].conn)
          BY <1>1, <4>1 DEF AttachAt
        <5>2. j + 1 = i + 1
          BY <1>2, <3>2, <5>1
        <5>3. QED
          BY <1>2, <5>2
      <4>2. QED
        BY <4>1
    <3>6. QED
      BY <3>4, <3>5
  <2>2. \A h \in Generations : h # g => events'[h] = events[h] /\ thread'[h] = thread[h]
    BY <1>1, <1>6
  <2>3. QED
    BY <2>1, <2>2 DEF QueuedOnce, AttachAt
<1>16. ComingIsConnected'
  <2>1. ASSUME NEW c \in Clients, NEW h \in Generations, OnTheWay(c, h)' PROVE OnTheWay(c, h)
    <3>1. CASE client[c].gen # g
      BY <1>1, <2>1, <3>1 DEF OnTheWay, Pending, SameSeats
    <3>2. CASE client[c].gen = g
      BY <1>1, <1>2, <2>1, <3>2 DEF OnTheWay, Pending, SameSeats
    <3>3. QED
      BY <3>1, <3>2
  <2>2. QED
    BY <2>1, GenerationsAre DEF ComingIsConnected, SameSeats
<1>17. QED
  BY <1>7, <1>8, <1>9, <1>10, <1>11, <1>12, <1>13, <1>14, <1>15, <1>16

(* A takeover: the socket that was here is told it is replaced *)
LEMMA AttachEffect ==
    ASSUME HubInv, NEW g \in Generations, Attach(g)
    PROVE  /\ Takes(g) /\ SameSeats /\ UNCHANGED hub
           /\ First(g).kind = "attach"
           /\ thread'[g].conn = First(g).conn /\ thread'[g].sink = First(g).from
           /\ \A c \in Clients : client'[c].verdict =
                 IF Serves(g, c) THEN "replaced" ELSE client[c].verdict
<1>1. thread[g] \in Thread /\ TypeOK
  BY Types DEF HubInv
<1>2. First(g) \in Event /\ First(g).kind = "attach" /\ UNCHANGED hub
  BY <1>1, TakeEffect DEF Attach
<1>3. First(g).conn \in Nat /\ First(g).from \in Clients
  BY <1>2 DEF Event
<1>4. /\ thread'[g].conn = First(g).conn /\ thread'[g].sink = First(g).from
      /\ thread'[g].pc = thread[g].pc
      /\ \A h \in Generations : h # g => thread'[h] = thread[h]
  <2> DEFINE t == [thread[g] EXCEPT !.conn = First(g).conn, !.sink = First(g).from, !.deadline = "none"]
  <2>1. t.conn = First(g).conn /\ t.pc = thread[g].pc /\ t.sink = First(g).from
    BY <1>1, <1>3 DEF Thread
  <2>2. thread' = [thread EXCEPT ![g] = t]
    BY DEF Attach
  <2> HIDE DEF t
  <2>3. QED
    BY <1>1, <2>1, <2>2, Types
<1>5. Takes(g)
  BY <1>2, <1>4 DEF Attach, Takes, Serving
<1>6. /\ SameSeats
      /\ \A c \in Clients : client'[c].verdict = IF Serves(g, c) THEN "replaced" ELSE client[c].verdict
  <2>1. \A c \in Clients : client[c] \in ClientState
    BY <1>1, Types
  <2>2. \A c \in Clients : client[c].pc = "away" => ~ Serves(g, c)
    BY DEF HubInv, Leases, Away, Serves, Generations
  <2>3. \A c \in Clients : client'[c] = IF Serves(g, c)
                                         THEN [client[c] EXCEPT !.verdict = "replaced"]
                                         ELSE client[c]
    BY DEF Attach
  <2>4. \A c \in Clients : LET r == [client[c] EXCEPT !.verdict = "replaced"] IN
           r.pc = client[c].pc /\ r.gen = client[c].gen /\ r.conn = client[c].conn /\ r.verdict = "replaced"
    BY <2>1, Verdict
  <2>5. QED
    BY <2>2, <2>3, <2>4 DEF SameSeats
<1>7. QED
  BY <1>2, <1>4, <1>5, <1>6

(* A detach or an ignored close: only a detach of the thread's own         *)
(* connection changes the thread                                           *)
LEMMA DropEffect ==
    ASSUME HubInv, NEW g \in Generations, Detach(g) \/ IgnoreClose(g)
    PROVE  /\ Takes(g) /\ UNCHANGED <<hub, client>>
           /\ First(g).kind \in {"detach", "close"}
           /\ thread'[g].conn = thread[g].conn
           /\ First(g).conn # thread[g].conn => thread' = thread
           /\ First(g).conn = thread[g].conn => First(g).kind = "detach" /\ thread'[g].deadline = "armed"
<1> DEFINE t == [thread[g] EXCEPT !.sink = NoClient, !.deadline = "armed"]
<1>1. thread[g] \in Thread
  BY Types DEF HubInv
<1>2. t.pc = thread[g].pc /\ t.conn = thread[g].conn /\ t.sink = NoClient /\ t.deadline = "armed"
  BY <1>1 DEF Thread
<1>3. /\ First(g).conn # thread[g].conn => thread' = thread
      /\ First(g).conn = thread[g].conn => First(g).kind = "detach" /\ thread' = [thread EXCEPT ![g] = t]
      /\ First(g).kind \in {"detach", "close"} /\ UNCHANGED <<hub, client>>
  BY DEF Detach, IgnoreClose
<1> HIDE DEF t
<1>4. /\ thread'[g].conn = thread[g].conn /\ thread'[g].pc = thread[g].pc
      /\ thread'[g].sink \in {thread[g].sink, NoClient}
      /\ First(g).conn = thread[g].conn => thread'[g].deadline = "armed"
      /\ \A h \in Generations : h # g => thread'[h] = thread[h]
  BY <1>2, <1>3, Types DEF HubInv
<1>5. Takes(g)
  BY <1>4 DEF Detach, IgnoreClose, Takes, Serving
<1>6. QED
  BY <1>3, <1>4, <1>5

LEMMA TakeStepKeeps ==
    ASSUME HubInv, TypeOK', NEW g \in Generations, Attach(g) \/ Detach(g) \/ IgnoreClose(g)
    PROVE  HubInv'
BY AttachEffect, DropEffect, TakeKeeps DEF SameSeats

LEMMA ReleaseEffect ==
    ASSUME HubInv, NEW g \in Generations, SlowConsumer(g) \/ SinkClosed(g)
    PROVE  /\ thread[g].pc = "serving"
           /\ UNCHANGED <<reservations, lastGen, events>>
           /\ thread'[g].conn = thread[g].conn /\ thread'[g].pc = thread[g].pc
           /\ thread'[g].sink = NoClient /\ thread'[g].deadline = "armed"
           /\ \A h \in Generations : h # g => thread'[h] = thread[h]
           /\ SameSeats
           /\ \A c \in Clients : client'[c].verdict \in {client[c].verdict, "slow"}
           /\ \A c \in Clients : Serves(g, c) /\ client[c].pc = "open" => client'[c].verdict = "slow"
           /\ \A k \in Keys :
                 /\ owners'[k].gen = owners[k].gen
                 /\ owners'[k].conn = owners[k].conn
                 /\ ~ (owners[k].gen = g /\ owners[k].conn = thread[g].conn) => owners'[k] = owners[k]
                 /\ owners[k].gen = g /\ owners[k].conn = thread[g].conn => ~ owners'[k].connected
<1> USE DEF HubInv
<1>1. thread[g] \in Thread /\ thread[g].pc = "serving"
  BY Types DEF SlowConsumer, SinkClosed, Serving
<1>2. UNCHANGED <<reservations, lastGen, events>> /\ owners' = Detached(g, thread[g].conn)
  BY DEF SlowConsumer, SinkClosed, ReleaseSink
<1>3. /\ thread'[g].conn = thread[g].conn /\ thread'[g].pc = thread[g].pc
      /\ thread'[g].sink = NoClient /\ thread'[g].deadline = "armed"
      /\ \A h \in Generations : h # g => thread'[h] = thread[h]
  <2> DEFINE t == [thread[g] EXCEPT !.sink = NoClient, !.deadline = "armed"]
  <2>1. t.pc = thread[g].pc /\ t.conn = thread[g].conn /\ t.sink = NoClient /\ t.deadline = "armed"
    BY <1>1 DEF Thread
  <2>2. thread' = [thread EXCEPT ![g] = t]
    BY DEF SlowConsumer, SinkClosed, ReleaseSink
  <2> HIDE DEF t
  <2>3. QED
    BY <2>1, <2>2, Types
<1>4. /\ SameSeats
      /\ \A c \in Clients : client'[c].verdict \in {client[c].verdict, "slow"}
      /\ \A c \in Clients : Serves(g, c) /\ client[c].pc = "open" => client'[c].verdict = "slow"
  <2>1. CASE SlowConsumer(g)
    <3>1. thread[g].sink \in Clients /\ client[thread[g].sink].pc # "away"
      BY <2>1 DEF SlowConsumer, Reading, Serves
    <3> DEFINE s == thread[g].sink
               u == [client[s] EXCEPT !.verdict = "slow"]
    <3>2. client' = [client EXCEPT ![s] = u]
      BY <2>1 DEF SlowConsumer
    <3>3. client[s] \in ClientState
      BY <3>1, Types
    <3>4. u.pc = client[s].pc /\ u.gen = client[s].gen /\ u.conn = client[s].conn /\ u.verdict = "slow"
      BY <3>3, Verdict
    <3> HIDE DEF u
    <3>5. client'[s] = u /\ \A c \in Clients : c # s => client'[c] = client[c]
      BY <3>1, <3>2, Types
    <3>6. SameSeats
      BY <3>1, <3>4, <3>5 DEF SameSeats
    <3>7. \A c \in Clients : Serves(g, c) => c = s
      BY DEF Serves
    <3>8. QED
      BY <3>4, <3>5, <3>6, <3>7
  <2>2. CASE SinkClosed(g)
    BY <2>2 DEF SinkClosed, SameSeats, Reading
  <2>3. QED
    BY <2>1, <2>2
<1>5. \A k \in Keys :
        /\ owners'[k].gen = owners[k].gen
        /\ owners'[k].conn = owners[k].conn
        /\ ~ (owners[k].gen = g /\ owners[k].conn = thread[g].conn) => owners'[k] = owners[k]
        /\ owners[k].gen = g /\ owners[k].conn = thread[g].conn => ~ owners'[k].connected
  BY <1>2, DetachedOwners
<1>6. QED
  BY <1>1, <1>2, <1>3, <1>4, <1>5

(* release: the flag it clears belongs to no client on its way, for that   *)
(* client's connection has not reached the thread                          *)
LEMMA ReleaseKeeps ==
    ASSUME HubInv, TypeOK', NEW g \in Generations, SlowConsumer(g) \/ SinkClosed(g)
    PROVE  HubInv'
<1> USE DEF HubInv
<1>1. thread[g].pc = "serving"
  BY ReleaseEffect
<1>2. UNCHANGED <<reservations, lastGen, events>>
  BY ReleaseEffect
<1>3. /\ thread'[g].conn = thread[g].conn /\ thread'[g].pc = thread[g].pc
      /\ \A h \in Generations : h # g => thread'[h] = thread[h]
  BY ReleaseEffect
<1>4. SameSeats
  BY ReleaseEffect
<1>5. \A k \in Keys :
        /\ owners'[k].gen = owners[k].gen
        /\ owners'[k].conn = owners[k].conn
        /\ ~ (owners[k].gen = g /\ owners[k].conn = thread[g].conn) => owners'[k] = owners[k]
  BY ReleaseEffect
<1>6. g <= lastGen
  BY <1>1, GenerationsAre
<1>7. \A h \in Generations : thread'[h].conn = thread[h].conn /\ thread'[h].pc = thread[h].pc
  BY <1>3
<1>8. Births'
  <2>1. \A h \in Generations : h > lastGen => thread'[h] = thread[h]
    BY <1>3, <1>6, Types DEF Generations
  <2>2. QED
    BY <1>2, <1>4, <1>5, <2>1 DEF Births, SameSeats
<1>9. Leases' /\ ReservedStarts' /\ OwnConn'
  BY <1>2, <1>4, SeatsKeep
<1>10. ReservedOnce' /\ OwnedOnce'
  BY <1>2, <1>5 DEF ReservedOnce, OwnedOnce
<1>11. ReservedDormant' /\ NoGhostOwner'
  BY <1>2, <1>5, <1>7, GenerationsAre DEF ReservedDormant, NoGhostOwner, Asleep
<1>12. Dormant'
  BY <1>1, <1>2, <1>3, <1>4 DEF Dormant, Asleep, SameSeats
<1>13. Issued'
  BY <1>2, <1>4, <1>5, <1>7, GenerationsAre DEF Issued, SameSeats
<1>14. UpgradingIsNew'
  BY <1>2, <1>4, <1>7, GenerationsAre DEF UpgradingIsNew, AttachQueued, AttachAt, SameSeats
<1>15. QueuedOnce'
  BY <1>2, <1>7 DEF QueuedOnce, AttachAt
<1>16. ComingIsConnected'
  <2>1. \A c \in Clients, h \in Generations : OnTheWay(c, h)' => OnTheWay(c, h)
    BY <1>2, <1>4 DEF OnTheWay, Pending, SameSeats
  <2>2. ASSUME NEW c \in Clients, OnTheWay(c, g) PROVE client[c].conn # thread[g].conn
    <3>1. CASE client[c].pc = "upgrading"
      BY <2>2, <3>1 DEF OnTheWay, UpgradingIsNew
    <3>2. CASE client[c].pc = "open" /\ Pending("attach", c)
      BY <2>2, <3>2 DEF OnTheWay, Pending, QueuedOnce
    <3>3. QED
      BY <2>2, <3>1, <3>2 DEF OnTheWay
  <2>3. QED
    BY <1>4, <1>5, <2>1, <2>2, GenerationsAre DEF ComingIsConnected, SameSeats
<1>17. QED
  BY <1>8, <1>9, <1>10, <1>11, <1>12, <1>13, <1>14, <1>15, <1>16

(* A connected client goes on to a later stage, or away *)
Moves(c) ==
    /\ Linked(c)
    /\ \A d \in Clients : d # c => client'[d] = client[d]
    /\ \/ client'[c] = Away
       \/ /\ client'[c].pc \in {"open", "leaving", "marked", "closing"}
          /\ client'[c].gen = client[c].gen
          /\ client'[c].conn = client[c].conn
          /\ client'[c].verdict = client[c].verdict

LEMMA MovesKeep ==
    ASSUME HubInv, NEW c \in Clients, Moves(c), UNCHANGED reservations
    PROVE  /\ Leases' /\ ReservedStarts' /\ OwnConn'
           /\ \A d \in Clients : client'[d].gen \in {client[d].gen, 0}
           /\ \A d \in Clients : client'[d].gen # 0 =>
                 client'[d].gen = client[d].gen /\ client'[d].conn = client[d].conn
           /\ \A d \in Clients : client'[d].pc \in {"starting", "upgrading"} => d # c /\ client'[d] = client[d]
<1> USE DEF HubInv
<1>1. Away.pc = "away" /\ Away.gen = 0
  BY DEF Away
<1>2. client[c].pc \notin {"away", "starting"}
  BY DEF Moves, Linked
<1>3. Leases'
  BY <1>1, <1>2 DEF Moves, Leases, Linked
<1>4. ReservedStarts'
  <2>1. \A k \in Keys : reservations[k] # 0 => client[c].gen # reservations[k]
    BY <1>2 DEF ReservedStarts
  <2>2. \A d \in Clients : client[d].pc = "starting" => client[d].gen # client[c].gen
    BY <1>2 DEF ReservedStarts
  <2>3. \A d \in Clients : client[d].pc = "starting" => client[d].gen # 0
    BY DEF Leases
  <2>4. QED
    BY <1>1, <1>2, <2>1, <2>2, <2>3 DEF Moves, ReservedStarts
<1>5. OwnConn'
  BY <1>1, <1>2 DEF Moves, OwnConn, Linked
<1>6. QED
  BY <1>1, <1>2, <1>3, <1>4, <1>5 DEF Moves

(* A client moves without a word to its owner thread *)
LEMMA LeaveKeeps ==
    ASSUME HubInv, TypeOK', NEW c \in Clients, Moves(c), client'[c].pc # "open",
           UNCHANGED <<reservations, lastGen, thread, events>>,
           \/ owners' = owners
           \/ owners' = Removed(client[c].gen)
           \/ client[c].pc = "leaving" /\ owners' = Detached(client[c].gen, client[c].conn)
    PROVE  HubInv'
<1> USE DEF HubInv
<1>1. /\ Leases' /\ ReservedStarts' /\ OwnConn'
      /\ \A d \in Clients : client'[d].gen \in {client[d].gen, 0}
      /\ \A d \in Clients : client'[d].gen # 0 =>
            client'[d].gen = client[d].gen /\ client'[d].conn = client[d].conn
      /\ \A d \in Clients : client'[d].pc \in {"starting", "upgrading"} => d # c /\ client'[d] = client[d]
  BY MovesKeep
<1>2. NoEntry.gen = 0 /\ 0 <= lastGen
  BY Types DEF NoEntry
<1>3. \A k \in Keys :
        /\ owners'[k].gen \in {owners[k].gen, 0}
        /\ owners'[k].gen # 0 => owners'[k].gen = owners[k].gen /\ owners'[k].conn = owners[k].conn
        /\ owners'[k].gen # 0 => \/ owners'[k] = owners[k]
                                 \/ /\ client[c].pc = "leaving"
                                    /\ owners[k].gen = client[c].gen
                                    /\ owners[k].conn = client[c].conn
  BY <1>2, RemovedOwners, DetachedOwners
<1>4. Births'
  BY <1>1, <1>2, <1>3 DEF Births
<1>5. ReservedOnce' /\ OwnedOnce'
  BY <1>3 DEF ReservedOnce, OwnedOnce
<1>6. ReservedDormant' /\ NoGhostOwner'
  BY <1>3 DEF ReservedDormant, NoGhostOwner, Asleep
<1>7. Dormant'
  <2>1. ASSUME NEW g \in Generations, Asleep(g), NEW d \in Clients, client'[d].gen = g
        PROVE  client'[d].pc = "starting"
    <3>1. client[d].gen = g /\ client[d].pc = "starting"
      BY <1>1, <2>1 DEF Dormant, Generations
    <3>2. d # c
      BY <3>1 DEF Moves, Linked
    <3>3. QED
      BY <3>1, <3>2 DEF Moves
  <2>2. QED
    BY <2>1 DEF Dormant, Asleep
<1>8. Issued'
  BY <1>1, <1>3 DEF Issued
<1>9. UpgradingIsNew'
  BY <1>1 DEF UpgradingIsNew, AttachQueued, AttachAt
<1>10. QueuedOnce'
  BY DEF QueuedOnce, AttachAt
<1>11. ComingIsConnected'
  <2>1. ASSUME NEW k \in Keys, owners'[k].gen # 0,
               NEW d \in Clients, OnTheWay(d, owners[k].gen)', client'[d].conn = owners[k].conn
        PROVE  owners'[k].connected
    <3>1. owners'[k].gen = owners[k].gen /\ owners'[k].conn = owners[k].conn
      BY <1>3, <2>1
    <3>2. client'[d].gen = owners[k].gen /\ client'[d].pc \in {"upgrading", "open"}
      BY <2>1, <3>1 DEF OnTheWay
    <3>3. d # c
      BY <3>2, <1>1
    <3>4. client'[d] = client[d]
      BY <3>3 DEF Moves
    <3>5. OnTheWay(d, owners[k].gen)
      BY <2>1, <3>1, <3>4 DEF OnTheWay, Pending
    <3>6. owners[k].connected
      BY <2>1, <3>1, <3>4, <3>5 DEF ComingIsConnected
    <3>7. ~ (client[c].pc = "leaving" /\ owners[k].gen = client[c].gen /\ owners[k].conn = client[c].conn)
      BY <2>1, <3>2, <3>3, <3>4 DEF OwnConn, Linked
    <3>8. QED
      BY <1>3, <2>1, <3>6, <3>7
  <2>2. QED
    BY <1>3, <2>1 DEF ComingIsConnected, OnTheWay, Pending
<1>12. QED
  BY <1>1, <1>4, <1>5, <1>6, <1>7, <1>8, <1>9, <1>10, <1>11

(* A client moves and says so; only an upgrade announces a connection *)
LEMMA SendKeeps ==
    ASSUME HubInv, TypeOK', NEW c \in Clients, Moves(c),
           UNCHANGED <<owners, reservations, lastGen, thread>>,
           NEW kind \in {"attach", "detach", "close"},
           Send(client[c].gen, kind, client[c].conn, c),
           kind = "attach" => client[c].pc = "upgrading",
           client'[c].pc = "open" => kind = "attach"
    PROVE  HubInv'
<1> USE DEF HubInv
<1> DEFINE g == client[c].gen
           e == [kind |-> kind, conn |-> client[c].conn, from |-> c]
           last == Len(events[g]) + 1
<1>1. /\ Leases' /\ ReservedStarts' /\ OwnConn'
      /\ \A d \in Clients : client'[d].gen \in {client[d].gen, 0}
      /\ \A d \in Clients : client'[d].gen # 0 =>
            client'[d].gen = client[d].gen /\ client'[d].conn = client[d].conn
      /\ \A d \in Clients : client'[d].pc \in {"starting", "upgrading"} => d # c /\ client'[d] = client[d]
  BY MovesKeep
<1>2. g \in Generations /\ client[c].pc \notin {"away", "starting"}
  BY GenerationsAre DEF Moves, Linked
<1>3. e \in Event /\ e.kind = kind /\ e.conn = client[c].conn /\ e.from = c
  <2>1. client[c].conn \in Nat
    BY Types DEF ClientState
  <2>2. QED
    BY <2>1 DEF Event
<1>4. events' = [events EXCEPT ![g] = Append(@, e)]
  BY DEF Send
<1> HIDE DEF e
<1>5. /\ \A h \in Generations : h # g => events'[h] = events[h]
      /\ DOMAIN events[g] = 1 .. Len(events[g])
      /\ DOMAIN events'[g] = 1 .. last
      /\ Len(events[g]) \in Nat
      /\ \A i \in DOMAIN events[g] : events'[g][i] = events[g][i]
      /\ events'[g][last] = e
  BY <1>2, <1>3, <1>4, SendEffect
<1>6. \A i \in DOMAIN events'[g] : i \in DOMAIN events[g] \/ i = last
  BY <1>5
<1>7. last \in DOMAIN events'[g] /\ \A i \in DOMAIN events[g] : i \in DOMAIN events'[g] /\ i # last
  BY <1>5
<1>8. Births'
  <2>1. g <= lastGen
    BY DEF Births
  <2>2. \A h \in Generations : h > lastGen => events'[h] = events[h]
    BY <1>5, <2>1, Types DEF Generations
  <2>3. 0 <= lastGen
    BY Types
  <2>4. QED
    BY <1>1, <2>2, <2>3 DEF Births
<1> HIDE DEF g, last
<1>9. ReservedOnce' /\ OwnedOnce' /\ ReservedDormant' /\ NoGhostOwner'
  BY DEF ReservedOnce, OwnedOnce, ReservedDormant, NoGhostOwner, Asleep
<1>10. Dormant'
  <2>1. ~ Asleep(g)
    BY <1>2 DEF Dormant, g
  <2>2. ASSUME NEW h \in Generations, Asleep(h), NEW d \in Clients, client'[d].gen = h
        PROVE  client'[d].pc = "starting"
    <3>1. client[d].gen = h /\ client[d].pc = "starting"
      BY <1>1, <2>2 DEF Dormant, Generations
    <3>2. d # c
      BY <3>1, <1>2
    <3>3. QED
      BY <3>1, <3>2 DEF Moves
  <2>3. QED
    BY <1>5, <2>1, <2>2 DEF Dormant, Asleep
<1>11. Issued'
  <2>1. ASSUME NEW k \in Keys, owners[k].gen # 0
        PROVE  \A i \in DOMAIN events'[owners[k].gen] : events'[owners[k].gen][i].conn <= owners[k].conn
    <3>1. CASE owners[k].gen = g
      <4>1. e.conn <= owners[k].conn
        BY <1>3, <2>1, <3>1 DEF Issued, g
      <4>2. QED
        BY <1>5, <1>6, <2>1, <3>1, <4>1 DEF Issued
    <3>2. CASE owners[k].gen # g
      BY <1>5, <2>1, <3>2, GenerationsAre DEF Issued
    <3>3. QED
      BY <3>1, <3>2
  <2>2. QED
    BY <1>1, <2>1 DEF Issued
<1>12. UpgradingIsNew'
  <2>1. ASSUME NEW d \in Clients, client'[d].pc = "upgrading"
        PROVE  ~ AttachQueued(client[d].gen, client[d].conn)' /\ thread[client[d].gen].conn # client[d].conn
    <3>1. d # c /\ client'[d] = client[d]
      BY <1>1, <2>1
    <3>2. ~ AttachQueued(client[d].gen, client[d].conn) /\ thread[client[d].gen].conn # client[d].conn
      BY <2>1, <3>1 DEF UpgradingIsNew
    <3>3. CASE client[d].gen = g
      <4>1. client[d].conn # client[c].conn
        BY <1>2, <2>1, <3>1, <3>3 DEF OwnConn, Linked, g
      <4>2. \A i \in DOMAIN events'[g] : events'[g][i].kind = "attach" => events'[g][i].conn # client[d].conn
        BY <1>3, <1>5, <1>6, <3>2, <3>3, <4>1 DEF AttachQueued, AttachAt
      <4>3. QED
        BY <3>1, <3>2, <3>3, <4>2 DEF AttachQueued, AttachAt
    <3>4. CASE client[d].gen # g
      <4>1. client[d].gen \in Generations
        BY <2>1, <3>1, GenerationsAre
      <4>2. events'[client[d].gen] = events[client[d].gen]
        BY <1>5, <3>4, <4>1
      <4>3. QED
        BY <3>1, <3>2, <4>2 DEF AttachQueued, AttachAt
    <3>5. QED
      BY <3>3, <3>4
  <2>2. QED
    BY <1>1, <2>1 DEF UpgradingIsNew, AttachQueued, AttachAt
<1>13. QueuedOnce'
  <2>1. ASSUME kind = "attach"
        PROVE  /\ thread[g].conn # client[c].conn
               /\ \A i \in DOMAIN events[g] : events[g][i].kind = "attach" => events[g][i].conn # client[c].conn
    BY <2>1 DEF UpgradingIsNew, AttachQueued, AttachAt, g
  <2>2. ASSUME NEW i \in DOMAIN events'[g], events'[g][i].kind = "attach"
        PROVE  /\ thread[g].conn # events'[g][i].conn
               /\ \A j \in DOMAIN events'[g] :
                     events'[g][j].kind = "attach" /\ events'[g][j].conn = events'[g][i].conn => i = j
    <3>1. thread[g].conn # events'[g][i].conn
      BY <1>2, <1>3, <1>5, <1>6, <2>1, <2>2 DEF QueuedOnce
    <3>2. ASSUME NEW j \in DOMAIN events'[g],
                 events'[g][j].kind = "attach", events'[g][j].conn = events'[g][i].conn
          PROVE  i = j
      <4>1. CASE i = last \/ j = last
        BY <1>3, <1>5, <1>6, <2>1, <2>2, <3>2, <4>1
      <4>2. CASE i # last /\ j # last
        BY <1>2, <1>5, <1>6, <2>2, <3>2, <4>2 DEF QueuedOnce, AttachAt
      <4>3. QED
        BY <4>1, <4>2
    <3>3. QED
      BY <3>1, <3>2
  <2>3. \A h \in Generations : h # g => events'[h] = events[h]
    BY <1>5
  <2>4. QED
    BY <2>2, <2>3 DEF QueuedOnce, AttachAt
<1>14. ComingIsConnected'
  <2>1. ASSUME NEW d \in Clients, NEW h \in Generations, OnTheWay(d, h)'
        PROVE  OnTheWay(d, h) /\ client'[d].conn = client[d].conn
    <3>1. client'[d].gen = h /\ client[d].gen = h /\ client'[d].conn = client[d].conn
      BY <1>1, <2>1 DEF OnTheWay, Generations
    <3>2. CASE d = c
      <4>1. kind = "attach"
        BY <1>1, <2>1, <3>2 DEF OnTheWay
      <4>2. QED
        BY <3>1, <3>2, <4>1 DEF OnTheWay
    <3>3. CASE d # c
      <4>1. client'[d] = client[d]
        BY <3>3 DEF Moves
      <4>2. CASE client[d].pc = "upgrading"
        BY <3>1, <4>1, <4>2 DEF OnTheWay
      <4>3. CASE client[d].pc # "upgrading"
        <5>1. client[d].pc = "open" /\ Pending("attach", d)'
          BY <2>1, <4>1, <4>3 DEF OnTheWay
        <5>2. PICK i \in DOMAIN events'[h] :
                events'[h][i].kind = "attach" /\ events'[h][i].from = d /\ events'[h][i].conn = client[d].conn
          BY <3>1, <4>1, <5>1 DEF Pending
        <5>3. i \in DOMAIN events[h] /\ events'[h][i] = events[h][i]
          BY <1>3, <1>5, <1>6, <3>3, <5>2
        <5>4. QED
          BY <3>1, <5>1, <5>2, <5>3 DEF OnTheWay, Pending
      <4>4. QED
        BY <4>2, <4>3
    <3>4. QED
      BY <3>2, <3>3
  <2>2. QED
    BY <2>1, GenerationsAre DEF ComingIsConnected
<1>15. QED
  BY <1>1, <1>8, <1>9, <1>10, <1>11, <1>12, <1>13, <1>14

(* The client leaves the channel alone, or sends one event of its own *)
Silent(c) ==
    /\ client'[c].pc # "open"
    /\ UNCHANGED events
    /\ \/ owners' = owners
       \/ owners' = Removed(client[c].gen)
       \/ client[c].pc = "leaving" /\ owners' = Detached(client[c].gen, client[c].conn)

Says(c, kind) ==
    /\ UNCHANGED owners
    /\ Send(client[c].gen, kind, client[c].conn, c)
    /\ kind = "attach" => client[c].pc = "upgrading"
    /\ client'[c].pc = "open" => kind = "attach"

LEMMA ClientStepEffect ==
    ASSUME HubInv, NEW c \in Clients,
           \/ Upgrade(c) \/ ReattachFails(c) \/ FreshFails(c) \/ Disconnect(c)
           \/ MarkDetached(c) \/ SendDetach(c) \/ Released(c) \/ AskClose(c) \/ CloseAnswered(c)
    PROVE  /\ Moves(c)
           /\ UNCHANGED <<reservations, lastGen, thread>>
           /\ Silent(c) \/ \E kind \in {"attach", "detach", "close"} : Says(c, kind)
<1> DEFINE g == client[c].gen
<1> USE DEF hub
<1>1. client[c] \in ClientState /\ client \in [Clients -> ClientState]
  BY Types DEF HubInv
<1>2. Away.pc = "away"
  BY DEF Away
<1>3. ASSUME client' = [client EXCEPT ![c] = Away], client[c].pc \notin {"away", "starting"}
      PROVE  Moves(c) /\ client'[c] = Away
  BY <1>1, <1>3 DEF Moves, Linked
<1>4. ASSUME NEW p \in {"open", "leaving", "marked", "closing"},
             client' = [client EXCEPT ![c].pc = p], client[c].pc \notin {"away", "starting"}
      PROVE  Moves(c) /\ client'[c].pc = p
  <2>1. p \in ClientPC
    BY DEF ClientPC
  <2>2. client'[c] = [client[c] EXCEPT !.pc = p]
    BY <1>1, <1>4
  <2>3. QED
    BY <1>1, <1>4, <2>1, <2>2, Stage DEF Moves, Linked
<1>5. CASE Upgrade(c)
  <2>1. CASE Listening(g)
    <3>1. client' = [client EXCEPT ![c].pc = "open"] /\ Send(g, "attach", client[c].conn, c)
      BY <1>5, <2>1 DEF Upgrade
    <3>2. Moves(c)
      BY <1>4, <1>5, <3>1 DEF Upgrade
    <3>3. QED
      BY <1>5, <2>1, <3>1, <3>2 DEF Says, Upgrade
  <2>2. CASE ~ Listening(g)
    <3>1. Moves(c) /\ client'[c].pc # "open" /\ owners' = Removed(g)
      BY <1>2, <1>3, <1>5, <2>2 DEF Upgrade
    <3>2. QED
      BY <1>5, <2>2, <3>1 DEF Silent, Upgrade
  <2>3. QED
    BY <2>1, <2>2
<1>6. CASE ReattachFails(c) \/ Disconnect(c) \/ MarkDetached(c)
  <2>1. \E p \in {"leaving", "marked"} : client' = [client EXCEPT ![c].pc = p]
    BY <1>6 DEF ReattachFails, Disconnect, MarkDetached
  <2>2. Moves(c) /\ client'[c].pc # "open"
    BY <1>4, <1>6, <2>1 DEF ReattachFails, Disconnect, MarkDetached
  <2>3. QED
    BY <1>6, <2>2 DEF Silent, ReattachFails, Disconnect, MarkDetached
<1>7. CASE FreshFails(c)
  <2>1. Moves(c) /\ client'[c].pc # "open"
    BY <1>2, <1>3, <1>7 DEF FreshFails
  <2>2. CASE Listening(g)
    <3>1. Send(g, "close", client[c].conn, c) /\ UNCHANGED <<owners, reservations, lastGen, thread>>
      BY <1>7, <2>2 DEF FreshFails
    <3>2. QED
      BY <2>1, <3>1 DEF Says
  <2>3. CASE ~ Listening(g)
    BY <1>7, <2>1, <2>3 DEF Silent, FreshFails
  <2>4. QED
    BY <2>2, <2>3
<1>8. CASE SendDetach(c) \/ AskClose(c)
  <2>1. Moves(c) /\ client'[c].pc # "open"
    <3>1. CASE SendDetach(c)
      BY <1>2, <1>3, <3>1 DEF SendDetach
    <3>2. CASE AskClose(c)
      BY <1>4, <3>2 DEF AskClose
    <3>3. QED
      BY <1>8, <3>1, <3>2
  <2>2. UNCHANGED <<owners, reservations, lastGen, thread>>
    BY <1>8 DEF SendDetach, AskClose
  <2>3. CASE Listening(g)
    <3>1. \E kind \in {"detach", "close"} : Send(g, kind, client[c].conn, c)
      BY <1>8, <2>3 DEF SendDetach, AskClose
    <3>2. QED
      BY <2>1, <2>2, <3>1 DEF Says
  <2>4. CASE ~ Listening(g)
    BY <1>8, <2>1, <2>2, <2>4 DEF Silent, SendDetach, AskClose
  <2>5. QED
    BY <2>3, <2>4
<1>9. CASE Released(c) \/ CloseAnswered(c)
  <2>1. Moves(c) /\ client'[c].pc # "open"
    <3>1. client' = [client EXCEPT ![c].pc = "leaving"] \/ client' = [client EXCEPT ![c] = Away]
      BY <1>9 DEF Released, CloseAnswered
    <3>2. client[c].pc \notin {"away", "starting"}
      BY <1>9 DEF Released, CloseAnswered
    <3>3. QED
      BY <1>2, <1>3, <1>4, <3>1, <3>2
  <2>2. QED
    BY <1>9, <2>1 DEF Silent, Released, CloseAnswered
<1>10. QED
  BY <1>5, <1>6, <1>7, <1>8, <1>9

LEMMA ClientStepKeeps ==
    ASSUME HubInv, TypeOK', NEW c \in Clients,
           \/ Upgrade(c) \/ ReattachFails(c) \/ FreshFails(c) \/ Disconnect(c)
           \/ MarkDetached(c) \/ SendDetach(c) \/ Released(c) \/ AskClose(c) \/ CloseAnswered(c)
    PROVE  HubInv'
BY ClientStepEffect, LeaveKeeps, SendKeeps DEF Silent, Says

(* A takeover is handed a connection newer than every one in flight *)
LEMMA ReattachEffect ==
    ASSUME HubInv, NEW c \in Clients, NEW k \in Keys, Reattach(c, k)
    PROVE  LET g == owners[k].gen
               n == owners[k].conn + 1
           IN  /\ UNCHANGED <<reservations, lastGen, thread, events>>
               /\ g # 0 /\ reservations[k] = 0 /\ client[c].pc = "away"
               /\ g \in Generations /\ n \in Nat /\ n >= 1
               /\ thread[g].pc \in {"serving", "closing"}
               /\ \A j \in Keys : owners'[j].gen = owners[j].gen
               /\ \A j \in Keys : j # k => owners'[j] = owners[j]
               /\ owners'[k].conn = n /\ owners'[k].connected
               /\ client'[c].pc = "upgrading" /\ client'[c].gen = g /\ client'[c].conn = n
               /\ client'[c].verdict = "finished"
               /\ \A d \in Clients : d # c => client'[d] = client[d]
               /\ thread[g].conn < n
               /\ \A i \in DOMAIN events[g] : events[g][i].conn < n
               /\ \A d \in Clients : client[d].gen = g => client[d].conn < n
<1> USE DEF HubInv
<1> DEFINE g == owners[k].gen
           n == owners[k].conn + 1
<1>1. UNCHANGED <<reservations, lastGen, thread, events>> /\ g # 0 /\ reservations[k] = 0 /\ client[c].pc = "away"
  BY DEF Reattach
<1>2. g \in Generations /\ g \in 0 .. MaxGeneration /\ n \in Nat /\ n >= 1 /\ thread[g].pc \in {"serving", "closing"}
  <2>1. owners[k] \in OwnerEntry
    BY Types
  <2>2. QED
    BY <1>1, <2>1, GenerationsAre DEF OwnerEntry, NoGhostOwner
<1>3. /\ \A j \in Keys : owners'[j].gen = owners[j].gen
      /\ \A j \in Keys : j # k => owners'[j] = owners[j]
      /\ owners'[k].conn = n /\ owners'[k].connected
  <2> DEFINE o == [owners[k] EXCEPT !.connected = TRUE, !.conn = @ + 1]
  <2>1. owners[k] \in OwnerEntry
    BY Types
  <2>2. o.gen = owners[k].gen /\ o.connected /\ o.conn = n
    BY <2>1, TakenOver
  <2>3. owners' = [owners EXCEPT ![k] = o]
    BY DEF Reattach
  <2> HIDE DEF o
  <2>4. QED
    BY <2>2, <2>3, Types
<1>4. /\ client'[c].pc = "upgrading" /\ client'[c].gen = g /\ client'[c].conn = n
      /\ client'[c].verdict = "finished"
      /\ \A d \in Clients : d # c => client'[d] = client[d]
  <2> DEFINE s == [Away EXCEPT !.pc = "upgrading", !.gen = owners[k].gen, !.conn = owners[k].conn + 1]
  <2>1. s.pc = "upgrading" /\ s.gen = g
    BY DEF Away
  <2>2. s.conn = n /\ s.verdict = "finished"
    BY DEF Away
  <2>3. client' = [client EXCEPT ![c] = s]
    BY DEF Reattach
  <2> HIDE DEF s
  <2>4. QED
    BY <2>1, <2>2, <2>3, Types
<1>5. /\ thread[g].conn < n
      /\ \A i \in DOMAIN events[g] : events[g][i].conn < n
      /\ \A d \in Clients : client[d].gen = g => client[d].conn < n
  <2>1. thread[g].conn <= owners[k].conn
    BY <1>1 DEF Issued
  <2>2. \A i \in DOMAIN events[g] : events[g][i].conn <= owners[k].conn
    BY <1>1 DEF Issued
  <2>3. \A d \in Clients : client[d].gen = g => client[d].conn <= owners[k].conn
    BY <1>1 DEF Issued
  <2>4. QED
    BY <1>2, <2>1, <2>2, <2>3, Numbers
<1>6. QED
  BY <1>1, <1>2, <1>3, <1>4, <1>5

LEMMA ReattachKeeps ==
    ASSUME HubInv, TypeOK', NEW c \in Clients, NEW k \in Keys, Reattach(c, k)
    PROVE  HubInv'
<1> USE DEF HubInv
<1> DEFINE g == owners[k].gen
           n == owners[k].conn + 1
<1>1. UNCHANGED <<reservations, lastGen, thread, events>> /\ g # 0 /\ reservations[k] = 0
  BY ReattachEffect
<1>2. g \in Generations /\ n \in Nat /\ n >= 1 /\ thread[g].pc \in {"serving", "closing"}
  BY ReattachEffect
<1>3. /\ \A j \in Keys : owners'[j].gen = owners[j].gen
      /\ \A j \in Keys : j # k => owners'[j] = owners[j]
      /\ owners'[k].conn = n /\ owners'[k].connected
  BY ReattachEffect
<1>4. /\ client'[c].pc = "upgrading" /\ client'[c].gen = g /\ client'[c].conn = n
      /\ \A d \in Clients : d # c => client'[d] = client[d]
  BY ReattachEffect
<1>5. /\ thread[g].conn < n
      /\ \A i \in DOMAIN events[g] : events[g][i].conn < n
      /\ \A d \in Clients : client[d].gen = g => client[d].conn < n
  BY ReattachEffect
<1>6. \A d \in Clients : client[d].gen = g => client[d].pc # "starting"
  <2>1. \A j \in Keys : reservations[j] # g
    BY <1>1, <1>2 DEF ReservedDormant, Asleep
  <2>2. QED
    BY <2>1 DEF Leases
<1> HIDE DEF n
<1>7. Births'
  BY <1>1, <1>3, <1>4 DEF Births
<1>8. Leases'
  BY <1>1, <1>2, <1>4 DEF Leases, Linked
<1>9. ReservedOnce' /\ OwnedOnce'
  BY <1>1, <1>3 DEF ReservedOnce, OwnedOnce
<1>10. ReservedStarts'
  <2>1. \A j \in Keys : reservations[j] # g
    BY <1>1, <1>2 DEF ReservedDormant, Asleep
  <2>2. QED
    BY <1>1, <1>4, <1>6, <2>1 DEF ReservedStarts
<1>11. ReservedDormant' /\ NoGhostOwner'
  BY <1>1, <1>3 DEF ReservedDormant, NoGhostOwner, Asleep
<1>12. Dormant'
  BY <1>1, <1>2, <1>4 DEF Dormant, Asleep
<1>13. Issued'
  <2>1. ASSUME NEW j \in Keys, owners[j].gen # 0, j # k
        PROVE  owners[j].gen # g
    BY <1>1, <2>1 DEF OwnedOnce
  <2>2. \A d \in Clients : client'[d].gen = g => client'[d].conn <= n
    BY <1>2, <1>4, <1>5, Numbers
  <2>3. thread[g].conn <= n /\ \A i \in DOMAIN events[g] : events[g][i].conn <= n
    BY <1>2, <1>5, Numbers
  <2>4. QED
    BY <1>1, <1>2, <1>3, <1>4, <2>1, <2>2, <2>3 DEF Issued
<1>14. OwnConn'
  <2>1. \A d \in Clients : client[d].gen = g => client[d].conn # n
    BY <1>2, <1>5, Numbers
  <2>2. QED
    BY <1>4, <2>1 DEF OwnConn, Linked
<1>15. UpgradingIsNew'
  <2>1. thread[g].conn # n /\ \A i \in DOMAIN events[g] : events[g][i].conn # n
    BY <1>2, <1>5, Numbers
  <2>2. ASSUME NEW d \in Clients, client'[d].pc = "upgrading"
        PROVE  /\ \A i \in DOMAIN events[client'[d].gen] :
                     ~ AttachAt(client'[d].gen, i, client'[d].conn)
               /\ thread[client'[d].gen].conn # client'[d].conn
    <3>1. CASE d = c
      BY <1>4, <2>1, <3>1 DEF AttachAt
    <3>2. CASE d # c
      BY <1>4, <2>2, <3>2 DEF UpgradingIsNew, AttachQueued
    <3>3. QED
      BY <3>1, <3>2
  <2>3. QED
    BY <1>1, <2>2 DEF UpgradingIsNew, AttachQueued, AttachAt
<1>16. QueuedOnce'
  BY <1>1 DEF QueuedOnce, AttachAt
<1>17. ComingIsConnected'
  <2>1. ASSUME NEW j \in Keys, j # k, owners[j].gen # 0, NEW d \in Clients, OnTheWay(d, owners[j].gen)',
               client'[d].conn = owners'[j].conn
        PROVE  owners'[j].connected
    <3>1. owners[j].gen # g /\ owners'[j] = owners[j]
      BY <1>1, <1>3, <2>1 DEF OwnedOnce
    <3>2. d # c
      BY <1>3, <1>4, <2>1, <3>1 DEF OnTheWay
    <3>3. client'[d] = client[d]
      BY <1>4, <3>2
    <3>4. OnTheWay(d, owners[j].gen)
      BY <1>1, <2>1, <3>1, <3>3 DEF OnTheWay, Pending
    <3>5. QED
      BY <2>1, <3>1, <3>3, <3>4 DEF ComingIsConnected
  <2>2. QED
    BY <1>3, <2>1 DEF ComingIsConnected, OnTheWay, Pending
<1>18. QED
  BY <1>7, <1>8, <1>9, <1>10, <1>11, <1>12, <1>13, <1>14, <1>15, <1>16, <1>17

(* A reservation takes a generation nobody has seen *)
LEMMA ReserveEffect ==
    ASSUME HubInv, NEW c \in Clients, NEW k \in Keys, Reserve(c, k)
    PROVE  LET n == lastGen + 1
           IN  /\ UNCHANGED <<owners, thread, child, events>>
               /\ owners[k].gen = 0 /\ reservations[k] = 0 /\ client[c].pc = "away"
               /\ lastGen \in Nat /\ n \in Generations /\ n > lastGen /\ lastGen' = n /\ n # 0
               /\ reservations'[k] = n /\ \A j \in Keys : j # k => reservations'[j] = reservations[j]
               /\ client'[c].pc = "starting" /\ client'[c].gen = n /\ client'[c].verdict = "finished"
               /\ \A d \in Clients : d # c => client'[d] = client[d]
               /\ thread[n] = Unborn /\ thread[n].pc = "unborn"
               /\ \A d \in Clients : client[d].gen # n
               /\ \A j \in Keys : owners[j].gen # n /\ reservations[j] # n
<1> USE DEF HubInv
<1> DEFINE n == lastGen + 1
<1>1. UNCHANGED <<owners, thread, child, events>> /\ owners[k].gen = 0 /\ reservations[k] = 0 /\ client[c].pc = "away"
  BY DEF Reserve
<1>2. lastGen \in Nat /\ n \in Generations /\ n > lastGen /\ lastGen' = n /\ n # 0
  BY Types, HubAssumption DEF Reserve, Generations
<1>3. reservations'[k] = n /\ \A j \in Keys : j # k => reservations'[j] = reservations[j]
  BY Types DEF Reserve
<1>4. /\ client'[c].pc = "starting" /\ client'[c].gen = n /\ client'[c].verdict = "finished"
      /\ \A d \in Clients : d # c => client'[d] = client[d]
  <2> DEFINE s == [Away EXCEPT !.pc = "starting", !.gen = lastGen + 1]
  <2>1. s.pc = "starting" /\ s.gen = n /\ s.verdict = "finished"
    BY DEF Away
  <2>2. client' = [client EXCEPT ![c] = s]
    BY DEF Reserve
  <2> HIDE DEF s
  <2>3. QED
    BY <2>1, <2>2, Types
<1>5. /\ thread[n] = Unborn /\ thread[n].pc = "unborn"
      /\ \A d \in Clients : client[d].gen # n
      /\ \A j \in Keys : owners[j].gen # n /\ reservations[j] # n
  <2>1. thread[n] = Unborn
    BY <1>2 DEF Births
  <2>2. \A d \in Clients : client[d].gen \in Nat /\ client[d].gen <= lastGen
    BY Types DEF Births, ClientState
  <2>3. \A j \in Keys : owners[j].gen \in Nat /\ owners[j].gen <= lastGen
    BY Types DEF Births, OwnerEntry
  <2>4. \A j \in Keys : reservations[j] \in Nat /\ reservations[j] <= lastGen
    BY Types DEF Births
  <2>5. QED
    BY <1>2, <2>1, <2>2, <2>3, <2>4 DEF Unborn
<1>6. QED
  BY <1>1, <1>2, <1>3, <1>4, <1>5

LEMMA ReserveKeeps ==
    ASSUME HubInv, TypeOK', NEW c \in Clients, NEW k \in Keys, Reserve(c, k)
    PROVE  HubInv'
<1> USE DEF HubInv
<1> DEFINE n == lastGen + 1
<1>1. UNCHANGED <<owners, thread, child, events>> /\ owners[k].gen = 0 /\ reservations[k] = 0
  BY ReserveEffect
<1>2. lastGen \in Nat /\ n \in Generations /\ n > lastGen /\ lastGen' = n /\ n # 0
  BY ReserveEffect
<1>3. reservations'[k] = n /\ \A j \in Keys : j # k => reservations'[j] = reservations[j]
  BY ReserveEffect
<1>4. /\ client'[c].pc = "starting" /\ client'[c].gen = n
      /\ \A d \in Clients : d # c => client'[d] = client[d]
  BY ReserveEffect
<1>5. /\ thread[n] = Unborn /\ thread[n].pc = "unborn"
      /\ \A d \in Clients : client[d].gen # n
      /\ \A j \in Keys : owners[j].gen # n /\ reservations[j] # n
  BY ReserveEffect
<1>6. Births'
  <2>1. \A h \in Generations : h > n => h > lastGen
    BY <1>2 DEF Generations
  <2>2. \A m \in Nat : m <= lastGen => m <= n
    BY <1>2
  <2>3. \A d \in Clients : client[d].gen \in Nat /\ client[d].gen <= lastGen
    BY Types DEF Births, ClientState
  <2>4. \A j \in Keys : owners[j].gen \in Nat /\ owners[j].gen <= lastGen
    BY Types DEF Births, OwnerEntry
  <2>5. \A j \in Keys : reservations[j] \in Nat /\ reservations[j] <= lastGen
    BY Types DEF Births
  <2>6. \A d \in Clients : client'[d].gen <= n
    BY <1>2, <1>4, <2>2, <2>3
  <2>7. \A j \in Keys : owners'[j].gen <= n /\ reservations'[j] <= n
    BY <1>1, <1>2, <1>3, <2>2, <2>4, <2>5
  <2>8. QED
    BY <1>1, <1>2, <2>1, <2>6, <2>7 DEF Births
<1> HIDE DEF n
<1>7. Leases'
  BY <1>2, <1>3, <1>4, <1>5, <1>1 DEF Leases, Linked, Reserve
<1>8. ReservedOnce' /\ OwnedOnce'
  BY <1>1, <1>3, <1>5 DEF ReservedOnce, OwnedOnce
<1>9. ReservedStarts'
  BY <1>3, <1>4, <1>5 DEF ReservedStarts
<1>10. ReservedDormant' /\ NoGhostOwner'
  BY <1>1, <1>3, <1>5 DEF ReservedDormant, NoGhostOwner, Asleep
<1>11. Dormant'
  BY <1>1, <1>4 DEF Dormant, Asleep
<1>12. Issued'
  BY <1>1, <1>4, <1>5 DEF Issued
<1>13. OwnConn' /\ UpgradingIsNew' /\ QueuedOnce'
  BY <1>1, <1>4 DEF OwnConn, UpgradingIsNew, QueuedOnce, Linked, AttachQueued, AttachAt
<1>14. ComingIsConnected'
  BY <1>1, <1>4, <1>5 DEF ComingIsConnected, OnTheWay, Pending
<1>15. QED
  BY <1>6, <1>7, <1>8, <1>9, <1>10, <1>11, <1>12, <1>13, <1>14

LEMMA LaunchKeeps == ASSUME HubInv, TypeOK', NEW c \in Clients, Launch(c) PROVE HubInv'
<1> USE DEF HubInv
<1> DEFINE g == client[c].gen
<1>1. g \in Generations /\ g <= lastGen
  BY GenerationsAre DEF Launch, Births
<1>2. "spawning" \in ThreadPC /\ thread[g] \in Thread
  BY <1>1, Types DEF ThreadPC
<1>3. /\ thread'[g].pc = "spawning" /\ thread'[g].conn = thread[g].conn
      /\ thread'[g].sink = thread[g].sink
      /\ \A h \in Generations : h # g => thread'[h] = thread[h]
  BY <1>1, <1>2, ThreadTurn, Types DEF Launch
<1>4. Turns(g) /\ ~ Adoptable(g)
  BY <1>3 DEF Launch, Turns, Adoptable, Asleep
<1>5. QED
  BY <1>1, <1>4, TurnKeeps DEF Launch, hub

(* The reservation goes; whoever started the thread was alone on it *)
LEMMA GiveUpKeeps == ASSUME HubInv, TypeOK', NEW c \in Clients, GiveUp(c) PROVE HubInv'
<1> USE DEF HubInv
<1> DEFINE g == client[c].gen
<1>1. UNCHANGED <<owners, lastGen, thread, child, events>> /\ client[c].pc = "starting"
  BY DEF GiveUp
<1>2. \A k \in Keys : reservations'[k] = IF reservations[k] = g THEN 0 ELSE reservations[k]
  BY UnreservedKeys DEF GiveUp
<1>3. client'[c] = Away /\ \A d \in Clients : d # c => client'[d] = client[d]
  BY Types DEF GiveUp
<1>4. Away.pc = "away" /\ Away.gen = 0 /\ Away.conn = 0
  BY DEF Away
<1>5. \A d \in Clients : d # c => client[d].gen # g
  BY <1>1 DEF ReservedStarts
<1>6. Births'
  <2>1. 0 <= lastGen
    BY Types
  <2>2. QED
    BY <1>1, <1>2, <1>3, <1>4, <2>1 DEF Births
<1>7. Leases'
  BY <1>2, <1>3, <1>4, <1>5 DEF Leases, Linked
<1>8. ReservedOnce' /\ OwnedOnce'
  BY <1>1, <1>2 DEF ReservedOnce, OwnedOnce
<1>9. ReservedStarts'
  <2>1. client[c].gen # 0 /\ \A d \in Clients : client[d].pc = "starting" => client[d].gen # 0
    BY <1>1 DEF Leases
  <2>2. QED
    BY <1>2, <1>3, <1>4, <2>1 DEF ReservedStarts
<1>10. ReservedDormant' /\ NoGhostOwner'
  BY <1>1, <1>2 DEF ReservedDormant, NoGhostOwner, Asleep
<1>11. Dormant'
  BY <1>1, <1>3, <1>4 DEF Dormant, Asleep, Generations
<1>12. Issued'
  BY <1>1, <1>3, <1>4 DEF Issued
<1>13. OwnConn' /\ UpgradingIsNew' /\ QueuedOnce'
  BY <1>1, <1>3, <1>4 DEF OwnConn, UpgradingIsNew, QueuedOnce, Linked, AttachQueued, AttachAt
<1>14. ComingIsConnected'
  BY <1>1, <1>3, <1>4 DEF ComingIsConnected, OnTheWay, Pending
<1>15. QED
  BY <1>6, <1>7, <1>8, <1>9, <1>10, <1>11, <1>12, <1>13, <1>14

(* The reservation becomes the owner, and its only client the connection 1 *)
LEMMA ActivateEffect ==
    ASSUME HubInv, NEW c \in Clients, Activate(c)
    PROVE  LET g == client[c].gen
           IN  /\ UNCHANGED <<lastGen, child, events>>
               /\ client[c].pc = "starting" /\ thread[g].pc = "waiting"
               /\ g \in Generations /\ g # 0 /\ g <= lastGen
               /\ \A k \in Keys : reservations'[k] = IF reservations[k] = g THEN 0 ELSE reservations[k]
               /\ client'[c].pc = "upgrading" /\ client'[c].gen = g /\ client'[c].conn = 1
               /\ client'[c].verdict = client[c].verdict
               /\ \A d \in Clients : d # c => client'[d] = client[d]
               /\ thread'[g].pc = "serving" /\ thread'[g].conn = thread[g].conn
               /\ thread'[g].deadline = "armed"
               /\ \A h \in Generations : h # g => thread'[h] = thread[h]
               /\ \E k \in Keys :
                     /\ reservations[k] = g
                     /\ \A j \in Keys : j # k => reservations[j] # g
                     /\ owners'[k].gen = g /\ owners'[k].conn = 1 /\ owners'[k].connected
                     /\ \A j \in Keys : j # k => owners'[j] = owners[j]
               /\ \A j \in Keys : owners[j].gen # g
               /\ thread[g].conn = 0 /\ events[g] = <<>>
               /\ \A d \in Clients : client[d].gen = g => d = c
<1> USE DEF HubInv
<1> DEFINE g == client[c].gen
<1>1. UNCHANGED <<lastGen, child, events>> /\ client[c].pc = "starting" /\ thread[g].pc = "waiting"
  BY DEF Activate
<1>2. g \in Generations /\ g # 0 /\ g <= lastGen
  BY <1>1, GenerationsAre DEF Births, Generations
<1>3. \A k \in Keys : reservations'[k] = IF reservations[k] = g THEN 0 ELSE reservations[k]
  BY UnreservedKeys DEF Activate
<1>4. /\ client'[c].pc = "upgrading" /\ client'[c].gen = g /\ client'[c].conn = 1
      /\ client'[c].verdict = client[c].verdict
      /\ \A d \in Clients : d # c => client'[d] = client[d]
  <2> DEFINE s == [client[c] EXCEPT !.pc = "upgrading", !.conn = 1]
  <2>1. client[c] \in ClientState
    BY Types
  <2>2. s.pc = "upgrading" /\ s.gen = g /\ s.conn = 1 /\ s.verdict = client[c].verdict
    BY <2>1 DEF ClientState
  <2>3. client' = [client EXCEPT ![c] = s]
    BY DEF Activate
  <2> HIDE DEF s
  <2>4. QED
    BY <2>2, <2>3, Types
<1>5. /\ thread'[g].pc = "serving" /\ thread'[g].conn = thread[g].conn
      /\ thread'[g].deadline = "armed"
      /\ \A h \in Generations : h # g => thread'[h] = thread[h]
  <2> DEFINE t == [thread[g] EXCEPT !.pc = "serving", !.deadline = "armed"]
  <2>1. thread[g] \in Thread
    BY <1>2, Types
  <2>2. t.pc = "serving" /\ t.conn = thread[g].conn /\ t.deadline = "armed"
    BY <2>1 DEF Thread
  <2>3. thread' = [thread EXCEPT ![g] = t]
    BY DEF Activate
  <2> HIDE DEF t
  <2>4. QED
    BY <1>2, <2>2, <2>3, Types
<1>6. PICK k \in Keys : reservations[k] = g
  BY <1>1 DEF Leases
<1>7. \A j \in Keys : j # k => reservations[j] # g
  BY <1>2, <1>6 DEF ReservedOnce
<1>8. /\ owners'[k].gen = g /\ owners'[k].conn = 1 /\ owners'[k].connected
      /\ \A j \in Keys : j # k => owners'[j] = owners[j]
  <2>1. owners' = [j \in Keys |-> IF reservations[j] = g THEN [gen |-> g, connected |-> TRUE, conn |-> 1]
                                  ELSE owners[j]]
    BY DEF Activate
  <2>2. QED
    BY <1>6, <1>7, <2>1
<1>9. \A j \in Keys : owners[j].gen # g
  BY <1>1, <1>2 DEF NoGhostOwner
<1>10. /\ thread[g].conn = 0 /\ events[g] = <<>>
       /\ \A d \in Clients : client[d].gen = g => d = c
  BY <1>1, <1>2 DEF Dormant, Asleep, ReservedStarts
<1>11. QED
  BY <1>1, <1>2, <1>3, <1>4, <1>5, <1>6, <1>7, <1>8, <1>9, <1>10

LEMMA ActivateKeeps == ASSUME HubInv, TypeOK', NEW c \in Clients, Activate(c) PROVE HubInv'
<1> USE DEF HubInv
<1> DEFINE g == client[c].gen
<1>1. UNCHANGED <<lastGen, child, events>> /\ client[c].pc = "starting" /\ thread[g].pc = "waiting"
  BY ActivateEffect
<1>2. g \in Generations /\ g # 0 /\ g <= lastGen
  BY ActivateEffect
<1>3. \A k \in Keys : reservations'[k] = IF reservations[k] = g THEN 0 ELSE reservations[k]
  BY ActivateEffect
<1>4. /\ client'[c].pc = "upgrading" /\ client'[c].gen = g /\ client'[c].conn = 1
      /\ \A d \in Clients : d # c => client'[d] = client[d]
  BY ActivateEffect
<1>5. /\ thread'[g].pc = "serving" /\ thread'[g].conn = thread[g].conn
      /\ \A h \in Generations : h # g => thread'[h] = thread[h]
  BY ActivateEffect
<1>6. PICK k \in Keys :
        /\ reservations[k] = g
        /\ \A j \in Keys : j # k => reservations[j] # g
        /\ owners'[k].gen = g /\ owners'[k].conn = 1 /\ owners'[k].connected
        /\ \A j \in Keys : j # k => owners'[j] = owners[j]
  BY ActivateEffect
<1>7. \A j \in Keys : j # k => reservations[j] # g
  BY <1>6
<1>8. /\ owners'[k].gen = g /\ owners'[k].conn = 1 /\ owners'[k].connected
      /\ \A j \in Keys : j # k => owners'[j] = owners[j]
  BY <1>6
<1>9. \A j \in Keys : owners[j].gen # g
  BY ActivateEffect
<1>10. /\ thread[g].conn = 0 /\ events[g] = <<>>
       /\ \A d \in Clients : client[d].gen = g => d = c
  BY ActivateEffect
<1> HIDE DEF g
<1>11. Births'
  <2>1. \A h \in Generations : h > lastGen => h # g
    BY <1>2, Types DEF Generations
  <2>2. 0 <= lastGen
    BY Types
  <2>3. QED
    BY <1>1, <1>2, <1>3, <1>4, <1>5, <1>8, <2>1, <2>2 DEF Births, g
<1>12. Leases'
  <2>1. ASSUME NEW d \in Clients, client'[d].pc = "starting"
        PROVE  \E j \in Keys : reservations'[j] = client'[d].gen
    <3>1. d # c /\ client'[d] = client[d]
      BY <1>4, <2>1
    <3>2. PICK j \in Keys : reservations[j] = client[d].gen
      BY <2>1, <3>1 DEF Leases
    <3>3. reservations[j] # g
      BY <1>10, <3>1, <3>2
    <3>4. QED
      BY <1>3, <3>1, <3>2, <3>3
  <2>2. QED
    BY <1>2, <1>4, <2>1 DEF Leases, Linked
<1>13. ReservedOnce' /\ OwnedOnce'
  BY <1>3, <1>6, <1>7, <1>8, <1>9 DEF ReservedOnce, OwnedOnce
<1>14. ReservedStarts'
  BY <1>3, <1>4, <1>10 DEF ReservedStarts
<1>15. ReservedDormant' /\ NoGhostOwner'
  BY <1>3, <1>5, <1>8, <1>9, GenerationsAre DEF ReservedDormant, NoGhostOwner, Asleep
<1>16. Dormant'
  <2>1. ASSUME NEW h \in Generations, h # g, Asleep(h), NEW d \in Clients, client'[d].gen = h
        PROVE  client'[d].pc = "starting"
    BY <1>4, <2>1 DEF Dormant
  <2>2. QED
    BY <1>1, <1>5, <2>1 DEF Dormant, Asleep
<1>17. Issued'
  <2>1. ASSUME NEW j \in Keys, j # k, owners[j].gen # 0
        PROVE  /\ owners'[j] = owners[j]
               /\ thread'[owners[j].gen] = thread[owners[j].gen]
               /\ \A d \in Clients : client'[d].gen = owners[j].gen => client'[d] = client[d]
    BY <1>4, <1>5, <1>8, <1>9, <2>1, GenerationsAre
  <2>2. \A d \in Clients : client'[d].gen = g => client'[d].conn = 1
    BY <1>4, <1>10
  <2>3. ASSUME NEW j \in Keys, j # k, owners'[j].gen # 0
        PROVE  /\ owners'[j].conn >= 1
               /\ thread'[owners'[j].gen].conn <= owners'[j].conn
               /\ \A i \in DOMAIN events[owners'[j].gen] : events[owners'[j].gen][i].conn <= owners'[j].conn
               /\ \A d \in Clients : client'[d].gen = owners'[j].gen => client'[d].conn <= owners'[j].conn
    <3>1. owners'[j] = owners[j] /\ owners[j].gen # 0
      BY <1>8, <2>3
    <3>2. \A d \in Clients : client'[d].gen = owners[j].gen => client'[d] = client[d]
      BY <2>1, <2>3, <3>1
    <3>3. QED
      BY <2>1, <2>3, <3>1, <3>2 DEF Issued
  <2>4. /\ thread'[g].conn <= 1 /\ 1 >= 1
        /\ \A i \in DOMAIN events[g] : events[g][i].conn <= 1
        /\ \A d \in Clients : client'[d].gen = g => client'[d].conn <= 1
    BY <1>5, <1>10, <2>2
  <2>5. QED
    BY <1>1, <1>8, <2>3, <2>4 DEF Issued
<1>18. OwnConn'
  BY <1>4, <1>10 DEF OwnConn, Linked
<1>19. UpgradingIsNew'
  <2>1. ASSUME NEW d \in Clients, d # c, client[d].pc = "upgrading"
        PROVE  thread'[client[d].gen] = thread[client[d].gen]
    BY <1>5, <1>10, <2>1, GenerationsAre
  <2>2. QED
    BY <1>1, <1>4, <1>5, <1>10, <2>1 DEF UpgradingIsNew, AttachQueued, AttachAt
<1>20. QueuedOnce'
  BY <1>1, <1>5, <1>10 DEF QueuedOnce, AttachAt
<1>21. ComingIsConnected'
  <2>1. ASSUME NEW j \in Keys, j # k, owners[j].gen # 0, NEW d \in Clients, OnTheWay(d, owners[j].gen)',
               client'[d].conn = owners'[j].conn
        PROVE  owners'[j].connected
    <3>1. owners[j].gen # g /\ owners'[j] = owners[j]
      BY <1>8, <1>9, <2>1
    <3>2. d # c
      BY <1>4, <2>1, <3>1 DEF OnTheWay
    <3>3. client'[d] = client[d]
      BY <1>4, <3>2
    <3>4. OnTheWay(d, owners[j].gen)
      BY <1>1, <2>1, <3>1, <3>3 DEF OnTheWay, Pending
    <3>5. QED
      BY <2>1, <3>1, <3>3, <3>4 DEF ComingIsConnected
  <2>2. QED
    BY <1>8, <2>1 DEF ComingIsConnected, OnTheWay, Pending
<1>22. QED
  BY <1>11, <1>12, <1>13, <1>14, <1>15, <1>16, <1>17, <1>18, <1>19, <1>20, <1>21

LEMMA HubStutters == ASSUME HubInv, UNCHANGED <<hub, thread, events, client>>, TypeOK' PROVE HubInv'
BY DEF hub, HubInv, Births, Leases, ReservedOnce, OwnedOnce, ReservedStarts, ReservedDormant,
       Dormant, NoGhostOwner, Issued, OwnConn, UpgradingIsNew, QueuedOnce, ComingIsConnected,
       Asleep, Linked, AttachQueued, AttachAt, OnTheWay, Pending

LEMMA HubKeeps == ASSUME HubInv, [Next]_vars PROVE HubInv'
<1>1. TypeOK'
  BY TypeKeeps DEF HubInv
<1>2. CASE \E c \in Clients : ClientStep(c) \/ ClientEvent(c)
  BY <1>1, <1>2, ClientStepKeeps, ReattachKeeps, ReserveKeeps, LaunchKeeps, GiveUpKeeps, ActivateKeeps
     DEF ClientStep, ClientEvent, Connect
<1>3. CASE \E g \in Generations : ThreadStep(g) \/ GraceRunsOut(g) \/ ThreadEvent(g)
  <2>1. ASSUME NEW g \in Generations, ChildExits(g) PROVE HubInv'
    BY <1>1, <2>1, HubStutters DEF ChildExits
  <2>2. QED
    BY <1>1, <1>3, <2>1, TurnStepKeeps, EndKeeps, TakeStepKeeps, ReleaseKeeps DEF ThreadStep, ThreadEvent
<1>4. CASE UNCHANGED vars
  BY <1>1, <1>4, HubStutters DEF vars, hub
<1>5. QED
  BY <1>2, <1>3, <1>4 DEF Next

(* The inductive invariant, for every order and failure of the upgrades.   *)
THEOREM HubInvariance == Spec => []HubInv
<1>1. Init => HubInv
  BY HubStarts
<1>2. HubInv /\ [Next]_vars => HubInv'
  BY HubKeeps
<1>3. QED
  BY <1>1, <1>2, PTL DEF Spec

(* No connect adopts a thread that no longer listens: every way an owner   *)
(* thread can end takes its hub entry with it.                             *)
THEOREM OwnersAreAlive == Spec => []NoGhostOwner
<1>1. HubInv => NoGhostOwner
  BY DEF HubInv
<1>2. QED
  BY <1>1, HubInvariance, PTL

-----------------------------------------------------------------------------
(* The grace clock *)

(* A serving thread turns to killing only in Expire, which the hub allows  *)
(* when the flag is down                                                   *)
LEMMA OnlyExpireKills ==
    ASSUME HubInv, Next, NEW g \in Generations,
           thread[g].pc = "serving", thread'[g].pc = "killing"
    PROVE  ~ Connected(g)
<1> USE DEF HubInv
<1>1. \A h \in Generations : thread[h] \in Thread
  BY Types
<1>2. ASSUME NEW c \in Clients, ClientStep(c) \/ ClientEvent(c) PROVE FALSE
  <2>1. CASE Launch(c) \/ Activate(c)
    <3>1. PICK t : /\ thread' = [thread EXCEPT ![client[c].gen] = t]
                   /\ client[c].gen \in Generations => t.pc \in {"spawning", "serving"}
      <4>1. CASE Launch(c)
        <5>1. client[c].gen \in Generations => [thread[client[c].gen] EXCEPT !.pc = "spawning"].pc = "spawning"
          BY <1>1, ThreadTurn DEF ThreadPC
        <5>2. QED
          BY <4>1, <5>1 DEF Launch
      <4>2. CASE Activate(c)
        <5>1. client[c].gen \in Generations =>
                [thread[client[c].gen] EXCEPT !.pc = "serving", !.deadline = "armed"].pc = "serving"
          BY <1>1 DEF Thread
        <5>2. QED
          BY <4>2, <5>1 DEF Activate
      <4>3. QED
        BY <2>1, <4>1, <4>2
    <3>2. QED
      BY <3>1, Types
  <2>2. CASE ~ (Launch(c) \/ Activate(c))
    <3>1. thread' = thread
      BY <1>2, <2>2 DEF ClientStep, ClientEvent, Connect, Reattach, Reserve, GiveUp, Upgrade, ReattachFails,
         FreshFails, Disconnect, MarkDetached, SendDetach, Released, AskClose, CloseAnswered
    <3>2. QED
      BY <3>1
  <2>3. QED
    BY <2>1, <2>2
<1>3. PICK h \in Generations : ThreadStep(h) \/ GraceRunsOut(h) \/ ThreadEvent(h)
  BY <1>2 DEF Next
<1>4. CASE Expire(h)
  <2>1. h = g
    BY <1>4, Types DEF Expire
  <2>2. QED
    BY <1>4, <2>1 DEF Expire
<1>5. CASE PtySpawned(h) \/ PtyFailed(h) \/ Abandon(h) \/ Close(h)
  <2>1. PICK p \in {"waiting", "gone", "closing"} : thread' = [thread EXCEPT ![h].pc = p]
    BY <1>5 DEF PtySpawned, PtyFailed, Abandon, Close
  <2>2. thread'[h].pc = p /\ \A i \in Generations : i # h => thread'[i] = thread[i]
    BY <1>1, <2>1, ThreadTurn, Types DEF ThreadPC
  <2>3. QED
    BY <2>2
<1>6. CASE GraceRunsOut(h) \/ Reconnected(h)
  <2>1. PICK d \in {"none", "armed", "due"} : thread' = [thread EXCEPT ![h].deadline = d]
    BY <1>6 DEF GraceRunsOut, Reconnected
  <2>2. thread'[h].pc = thread[h].pc /\ \A i \in Generations : i # h => thread'[i] = thread[i]
    BY <1>1, <2>1, ThreadDeadline, Types
  <2>3. QED
    BY <2>2
<1>7. CASE FinishExited(h) \/ Kill(h) \/ FinishClose(h)
  <2>1. thread'[h].pc = "gone" /\ \A i \in Generations : i # h => thread'[i] = thread[i]
    BY <1>7, ThreadEndsTyped DEF FinishExited, Kill, FinishClose
  <2>2. QED
    BY <2>1
<1>8. CASE ChildExits(h)
  BY <1>8 DEF ChildExits
<1>9. CASE Attach(h)
  <2>1. First(h).conn \in Nat /\ First(h).from \in Clients
    BY <1>9, TakeEffect DEF Attach, Event
  <2>2. [thread[h] EXCEPT !.conn = First(h).conn, !.sink = First(h).from, !.deadline = "none"].pc = thread[h].pc
    BY <1>1, <2>1 DEF Thread
  <2>3. thread'[h].pc = thread[h].pc /\ \A i \in Generations : i # h => thread'[i] = thread[i]
    BY <1>9, <2>2, Types DEF Attach
  <2>4. QED
    BY <2>3
<1>10. CASE Detach(h) \/ IgnoreClose(h) \/ SlowConsumer(h) \/ SinkClosed(h)
  <2>1. [thread[h] EXCEPT !.sink = NoClient, !.deadline = "armed"].pc = thread[h].pc
    BY <1>1 DEF Thread
  <2>2. thread' = thread \/ thread' = [thread EXCEPT ![h] = [thread[h] EXCEPT !.sink = NoClient, !.deadline = "armed"]]
    BY <1>10 DEF Detach, IgnoreClose, SlowConsumer, SinkClosed, ReleaseSink
  <2>3. thread'[h].pc = thread[h].pc /\ \A i \in Generations : i # h => thread'[i] = thread[i]
    BY <2>1, <2>2, Types
  <2>4. QED
    BY <2>3
<1>11. QED
  BY <1>3, <1>4, <1>5, <1>6, <1>7, <1>8, <1>9, <1>10 DEF ThreadStep, ThreadEvent

LEMMA NewestIsNotKilled ==
    ASSUME HubInv, [Next]_vars, NEW g \in Generations,
           thread[g].pc = "serving", thread'[g].pc = "killing",
           NEW c \in Clients, NEW k \in Keys, OnTheWay(c, g), owners[k].gen = g
    PROVE  client[c].conn < owners[k].conn
<1> USE DEF HubInv
<1>1. Next
  BY DEF vars
<1>2. ~ owners[k].connected
  BY <1>1, OnlyExpireKills DEF Connected
<1>3. owners[k].gen # 0 /\ client[c].gen = g
  BY DEF OnTheWay, Generations
<1>4. client[c].conn # owners[k].conn
  BY <1>2, <1>3 DEF ComingIsConnected
<1>5. client[c].conn <= owners[k].conn
  BY <1>3 DEF Issued
<1>6. client[c].conn \in Nat /\ owners[k].conn \in Nat
  BY Numbers
<1>7. QED
  BY <1>4, <1>5, <1>6

(* "A connect racing the deadline either adopts the live owner or spawns a *)
(* fresh PTY": the clock kills no child under the holder of the newest     *)
(* connection (terminal_grace_expired).                                    *)
THEOREM NewestSurvivesGrace == Spec => AdoptedSurvivesGrace
<1> DEFINE Spares ==
        \A g \in Generations :
            thread[g].pc = "serving" /\ thread'[g].pc = "killing" =>
                \A c \in Clients, k \in Keys :
                    OnTheWay(c, g) /\ owners[k].gen = g => client[c].conn < owners[k].conn
<1>1. HubInv /\ [Next]_vars => [Spares]_vars
  BY NewestIsNotKilled
<1>2. QED
  BY <1>1, HubInvariance, PTL DEF Spec, AdoptedSurvivesGrace

-----------------------------------------------------------------------------
(* TERMINAL_LIMIT *)

LimitInv ==
    /\ IsFiniteSet(Owned)
    /\ IsFiniteSet(Reserved)
    /\ WithinLimit

(* Only a reservation adds a key, and an activation moves one *)
LEMMA HubShrinks ==
    ASSUME HubInv, [Next]_vars,
           \A c \in Clients, k \in Keys : ~ Reserve(c, k), \A c \in Clients : ~ Activate(c)
    PROVE  Owned' \subseteq Owned /\ Reserved' \subseteq Reserved
<1> USE DEF HubInv
<1>1. NoEntry.gen = 0
  BY DEF NoEntry
<1>2. CASE \E c \in Clients, k \in Keys : Reattach(c, k)
  <2>1. PICK c \in Clients, k \in Keys : Reattach(c, k)
    BY <1>2
  <2>2. owners' = [owners EXCEPT ![k] = [owners[k] EXCEPT !.connected = TRUE, !.conn = @ + 1]]
    BY <2>1 DEF Reattach
  <2>3. owners[k].gen # 0 /\ reservations' = reservations
    BY <2>1 DEF Reattach
  <2>4. \A j \in Keys : j # k => owners'[j] = owners[j]
    BY <2>2, Types
  <2>5. QED
    BY <2>3, <2>4 DEF Owned, Reserved
<1>3. CASE /\ owners' = owners \/ \E g : owners' = Removed(g) \/ \E n : owners' = Detached(g, n)
           /\ reservations' = reservations \/ \E g : reservations' = Unreserved(g)
  <2>1. \A k \in Keys : owners'[k].gen # 0 => owners[k].gen # 0
    BY <1>1, <1>3, RemovedOwners, DetachedOwners
  <2>2. \A k \in Keys : reservations'[k] # 0 => reservations[k] # 0
    BY <1>3, UnreservedKeys
  <2>3. QED
    BY <2>1, <2>2 DEF Owned, Reserved
<1>4. CASE \E c \in Clients : ClientStep(c) \/ ClientEvent(c)
  <2>1. PICK c \in Clients : ClientStep(c) \/ ClientEvent(c)
    BY <1>4
  <2>2. QED
    BY <1>2, <1>3, <2>1 DEF ClientStep, ClientEvent, Connect, Launch, GiveUp, Upgrade, ReattachFails,
       FreshFails, Disconnect, MarkDetached, SendDetach, Released, AskClose, CloseAnswered, hub
<1>5. CASE \E g \in Generations : ThreadStep(g) \/ GraceRunsOut(g) \/ ThreadEvent(g)
  <2>1. PICK g \in Generations : ThreadStep(g) \/ GraceRunsOut(g) \/ ThreadEvent(g)
    BY <1>5
  <2>2. QED
    BY <1>3, <2>1 DEF ThreadStep, ThreadEvent, PtySpawned, Abandon, FinishExited, Reconnected, Expire, Kill,
       Attach, Detach, Close, FinishClose, IgnoreClose, PtyFailed, ChildExits, GraceRunsOut,
       SlowConsumer, SinkClosed, ReleaseSink, hub
<1>6. CASE UNCHANGED vars
  BY <1>3, <1>6 DEF vars
<1>7. QED
  BY <1>4, <1>5, <1>6 DEF Next

LEMMA LimitStarts == ASSUME Init PROVE LimitInv
<1>1. Owned = {} /\ Reserved = {}
  BY DEF Init, Owned, Reserved, NoEntry
<1>2. IsFiniteSet({}) /\ Cardinality({}) = 0
  BY FS_EmptySet
<1>3. QED
  BY <1>1, <1>2, HubAssumption DEF LimitInv, WithinLimit

LEMMA LimitKeeps == ASSUME HubInv, HubInv', LimitInv, [Next]_vars PROVE LimitInv'
<1> USE DEF HubInv
<1>1. Cardinality(Owned) \in Nat /\ Cardinality(Reserved) \in Nat
  BY FS_CardinalityType DEF LimitInv
<1>2. (Owned \cap Reserved = {})'
  BY DEF ReservedOnce, Owned, Reserved
<1>3. CASE \E c \in Clients, k \in Keys : Reserve(c, k)
  <2>1. PICK c \in Clients, k \in Keys : Reserve(c, k)
    BY <1>3
  <2>2. Owned' = Owned
    BY <2>1 DEF Reserve, Owned
  <2>3. Reserved' = Reserved \cup {k} /\ k \notin Reserved
    <3>1. reservations' = [reservations EXCEPT ![k] = lastGen + 1] /\ reservations[k] = 0
      BY <2>1 DEF Reserve
    <3>2. lastGen + 1 # 0
      BY Types
    <3>3. QED
      BY <3>1, <3>2, Types DEF Reserved
  <2>4. IsFiniteSet(Reserved') /\ Cardinality(Reserved') = Cardinality(Reserved) + 1
    BY <2>3, FS_AddElement DEF LimitInv
  <2>5. Cardinality(Owned) + Cardinality(Reserved) < Limit
    BY <2>1 DEF Reserve
  <2>6. QED
    BY <1>1, <1>2, <2>2, <2>4, <2>5, HubAssumption DEF LimitInv, WithinLimit
<1>4. CASE \E c \in Clients : Activate(c)
  <2>1. PICK c \in Clients : Activate(c)
    BY <1>4
  <2> DEFINE g == client[c].gen
  <2>2. g \in Generations /\ g # 0
    BY <2>1, GenerationsAre DEF Activate, Generations
  <2>3. PICK k \in Keys : reservations[k] = g
    BY <2>1 DEF Activate, Leases
  <2>4. \A j \in Keys : reservations[j] = g => j = k
    BY <2>2, <2>3 DEF ReservedOnce
  <2>5. Owned' = Owned \cup {k} /\ k \notin Owned
    <3>1. owners' = [j \in Keys |-> IF reservations[j] = g THEN [gen |-> g, connected |-> TRUE, conn |-> 1]
                                    ELSE owners[j]]
      BY <2>1 DEF Activate
    <3>2. owners'[k].gen = g /\ \A j \in Keys : j # k => owners'[j] = owners[j]
      BY <2>3, <2>4, <3>1
    <3>3. owners[k].gen = 0
      BY <2>2, <2>3 DEF ReservedOnce
    <3>4. QED
      BY <2>2, <3>2, <3>3 DEF Owned
  <2>6. Reserved' = Reserved \ {k} /\ k \in Reserved
    <3>1. \A j \in Keys : reservations'[j] = IF reservations[j] = g THEN 0 ELSE reservations[j]
      BY <2>1, UnreservedKeys DEF Activate
    <3>2. QED
      BY <2>2, <2>3, <2>4, <3>1 DEF Reserved
  <2>7. IsFiniteSet(Owned') /\ Cardinality(Owned') = Cardinality(Owned) + 1
    BY <2>5, FS_AddElement DEF LimitInv
  <2>8. IsFiniteSet(Reserved') /\ Cardinality(Reserved') = Cardinality(Reserved) - 1
    BY <2>6, FS_RemoveElement DEF LimitInv
  <2>9. QED
    BY <1>1, <1>2, <2>7, <2>8, HubAssumption DEF LimitInv, WithinLimit
<1>5. CASE (\A c \in Clients, k \in Keys : ~ Reserve(c, k)) /\ \A c \in Clients : ~ Activate(c)
  <2>1. Owned' \subseteq Owned /\ Reserved' \subseteq Reserved
    BY <1>5, HubShrinks
  <2>2. IsFiniteSet(Owned') /\ Cardinality(Owned') <= Cardinality(Owned) /\ Cardinality(Owned') \in Nat
    BY <2>1, FS_Subset, FS_CardinalityType DEF LimitInv
  <2>3. IsFiniteSet(Reserved') /\ Cardinality(Reserved') <= Cardinality(Reserved) /\ Cardinality(Reserved') \in Nat
    BY <2>1, FS_Subset, FS_CardinalityType DEF LimitInv
  <2>4. QED
    BY <1>1, <1>2, <2>2, <2>3, HubAssumption DEF LimitInv, WithinLimit
<1>6. QED
  BY <1>3, <1>4, <1>5

(* Owners and reservations together never exceed TERMINAL_LIMIT, and no    *)
(* key has both (acquire, complete, cancel).                               *)
THEOREM HubStaysWithinLimit == Spec => []WithinLimit
<1>1. Init => LimitInv
  BY LimitStarts
<1>2. HubInv /\ HubInv' /\ LimitInv /\ [Next]_vars => LimitInv'
  BY LimitKeeps
<1>3. LimitInv => WithinLimit
  BY DEF LimitInv
<1>4. QED
  BY <1>1, <1>2, <1>3, HubInvariance, PTL DEF Spec


-----------------------------------------------------------------------------
(* The served child.  All of it is about one generation g whose thread is  *)
(* serving.                                                                *)

(* A detach or a close of connection n is queued *)
PartsAt(g, i, n) == events[g][i].kind \in {"detach", "close"} /\ events[g][i].conn = n
CloseAt(g, i, n) == events[g][i].kind = "close" /\ events[g][i].conn = n

(* A client with connection n is still to tell the owner that it leaves *)
Attends(g, n) ==
    \E c \in Clients : /\ client[c].gen = g
                       /\ client[c].conn = n
                       /\ client[c].pc \in {"open", "leaving", "marked"}

Listed(g) == \E k \in Keys : owners[k].gen = g

OpenIsServed(g) ==
    \A c \in Clients : client[c].gen = g /\ client[c].pc = "open" /\ client[c].conn = thread[g].conn =>
        thread[g].sink = c \/ client[c].verdict = "slow"

FromHolder(g) ==
    \A c \in Clients : client[c].gen = g /\ Linked(c) =>
        \A i \in DOMAIN events[g] : AttachAt(g, i, client[c].conn) => events[g][i].from = c

DetachedIsGone(g) ==
    \A c \in Clients : client[c].gen = g /\ Linked(c) =>
        \A i \in DOMAIN events[g] : events[g][i].kind = "detach" => client[c].conn # events[g][i].conn

(* The newest connection's detach clears the flag before it is announced *)
FlagIsDown(g) ==
    \A k \in Keys : owners[k].gen = g /\ owners[k].connected =>
        /\ \A c \in Clients : client[c].gen = g /\ client[c].pc = "marked" => client[c].conn # owners[k].conn
        /\ \A i \in DOMAIN events[g] : events[g][i].kind = "detach" => events[g][i].conn # owners[k].conn

QueuedIsHeld(g) ==
    \A i \in DOMAIN events[g] : events[g][i].kind = "attach" =>
        \/ Attends(g, events[g][i].conn)
        \/ \E j \in DOMAIN events[g] : j > i /\ PartsAt(g, j, events[g][i].conn)

(* Where hub and owner agree, the flag is up on behalf of somebody *)
ConnectedIsHeld(g) ==
    \A k \in Keys : owners[k].gen = g /\ owners[k].connected /\ owners[k].conn = thread[g].conn =>
        \/ \E c \in Clients : /\ client[c].gen = g
                              /\ client[c].conn = thread[g].conn
                              /\ client[c].pc \in {"open", "leaving"}
        \/ \E j \in DOMAIN events[g] : CloseAt(g, j, thread[g].conn)

(* Where they agree and no grace clock runs, the owner is still to hear of *)
(* the end of its connection                                               *)
NotForgotten(g) ==
    \A k \in Keys : owners[k].gen = g /\ owners[k].conn = thread[g].conn /\ thread[g].deadline = "none" =>
        \/ Attends(g, thread[g].conn)
        \/ \E j \in DOMAIN events[g] : PartsAt(g, j, thread[g].conn)

Served(g) ==
    /\ Listed(g)
    /\ OpenIsServed(g)
    /\ FromHolder(g)
    /\ DetachedIsGone(g)
    /\ FlagIsDown(g)
    /\ QueuedIsHeld(g)
    /\ ConnectedIsHeld(g)
    /\ NotForgotten(g)

ServedInv == \A g \in Generations : Serving(g) => Served(g)

(* What one more event does to a channel *)
Grows(g, last, kind, c) ==
    /\ last \in DOMAIN events'[g] /\ last \in Nat
    /\ \A i \in DOMAIN events[g] :
          i \in Nat /\ i < last /\ i \in DOMAIN events'[g] /\ events'[g][i] = events[g][i]
    /\ \A i \in DOMAIN events'[g] : i \in DOMAIN events[g] \/ i = last
    /\ events'[g][last].kind = kind
    /\ events'[g][last].conn = client[c].conn
    /\ events'[g][last].from = c

LEMMA SaysEffect ==
    ASSUME HubInv, NEW c \in Clients, Moves(c), NEW kind \in {"attach", "detach", "close"}, Says(c, kind)
    PROVE  /\ client[c].gen \in Generations
           /\ \A h \in Generations : h # client[c].gen => events'[h] = events[h]
           /\ \E last : Grows(client[c].gen, last, kind, c)
<1> DEFINE g == client[c].gen
           e == [kind |-> kind, conn |-> client[c].conn, from |-> c]
           last == Len(events[g]) + 1
<1>1. g \in Generations
  BY GenerationsAre DEF Moves, Linked, HubInv
<1>2. e \in Event /\ e.kind = kind /\ e.conn = client[c].conn /\ e.from = c
  <2>1. client[c].conn \in Nat
    BY Numbers DEF HubInv
  <2>2. QED
    BY <2>1 DEF Event
<1>3. events' = [events EXCEPT ![g] = Append(@, e)]
  BY DEF Says, Send
<1> HIDE DEF e
<1>4. /\ \A h \in Generations : h # g => events'[h] = events[h]
      /\ DOMAIN events[g] = 1 .. Len(events[g])
      /\ DOMAIN events'[g] = 1 .. last
      /\ Len(events[g]) \in Nat
      /\ \A i \in DOMAIN events[g] : events'[g][i] = events[g][i]
      /\ events'[g][last] = e
  BY <1>1, <1>2, <1>3, SendEffect DEF HubInv
<1>5. \A i \in DOMAIN events'[g] : i \in DOMAIN events[g] \/ i = last
  BY <1>4
<1>6. /\ last \in DOMAIN events'[g] /\ last \in Nat
      /\ \A i \in DOMAIN events[g] : i \in DOMAIN events'[g] /\ i \in Nat /\ i < last
  BY <1>4
<1>7. Grows(g, last, kind, c)
  BY <1>2, <1>4, <1>5, <1>6 DEF Grows
<1>8. QED
  BY <1>1, <1>4, <1>7
LEMMA LaunchEffect ==
    ASSUME HubInv, NEW c \in Clients, Launch(c)
    PROVE  /\ Turns(client[c].gen) /\ client[c].gen \in Generations
           /\ UNCHANGED <<hub, child, events, client>>
           /\ thread'[client[c].gen].pc = "spawning"
<1> USE DEF HubInv
<1> DEFINE g == client[c].gen
<1>1. g \in Generations
  BY GenerationsAre DEF Launch
<1>2. "spawning" \in ThreadPC /\ thread[g] \in Thread
  BY <1>1, Types DEF ThreadPC
<1>3. /\ thread'[g].pc = "spawning" /\ thread'[g].conn = thread[g].conn
      /\ thread'[g].sink = thread[g].sink
      /\ \A h \in Generations : h # g => thread'[h] = thread[h]
  BY <1>1, <1>2, ThreadTurn, Types DEF Launch
<1>4. Turns(g)
  BY <1>3 DEF Launch, Turns, Asleep
<1>5. QED
  BY <1>1, <1>3, <1>4 DEF Launch

(* Another generation's thread, channel, entry and clients stay *)
LEMMA ServedElsewhere ==
    ASSUME ServedInv, NEW g \in Generations,
           thread'[g] = thread[g], events'[g] = events[g],
           \A k \in Keys : owners[k].gen = g \/ owners'[k].gen = g => owners'[k] = owners[k],
           \A c \in Clients : client[c].gen = g \/ client'[c].gen = g => client'[c] = client[c],
           Serving(g)'
    PROVE  Served(g)'
<1>1. Served(g)
  BY DEF ServedInv, Serving
<1>2. Listed(g)' /\ OpenIsServed(g)'
  BY <1>1 DEF Served, Listed, OpenIsServed
<1>3. FromHolder(g)' /\ DetachedIsGone(g)'
  BY <1>1 DEF Served, FromHolder, DetachedIsGone, Linked, AttachAt
<1>4. FlagIsDown(g)'
  BY <1>1 DEF Served, FlagIsDown
<1>5. \A m : Attends(g, m) => Attends(g, m)'
  BY DEF Attends
<1>6. QueuedIsHeld(g)'
  BY <1>1, <1>5 DEF Served, QueuedIsHeld, PartsAt
<1>7. ConnectedIsHeld(g)'
  BY <1>1 DEF Served, ConnectedIsHeld, CloseAt
<1>8. NotForgotten(g)'
  BY <1>1, <1>5 DEF Served, NotForgotten, PartsAt
<1>9. QED
  BY <1>2, <1>3, <1>4, <1>6, <1>7, <1>8 DEF Served

(* The clock: it only stops for a connection that somebody holds *)
LEMMA ServedTurns ==
    ASSUME HubInv, ServedInv, NEW g \in Generations, Turns(g), UNCHANGED <<events, client>>, Serving(g)'
    PROVE  Served(g)'
<1>1. Serving(g) /\ owners' = owners
  BY DEF Serving, Turns
<1>2. Served(g) /\ thread'[g].conn = thread[g].conn /\ thread'[g].sink = thread[g].sink
  BY <1>1 DEF ServedInv, Turns
<1>3. Listed(g)' /\ OpenIsServed(g)' /\ FromHolder(g)' /\ DetachedIsGone(g)' /\ FlagIsDown(g)'
  BY <1>1, <1>2 DEF Served, Listed, OpenIsServed, FromHolder, DetachedIsGone, FlagIsDown, Linked, AttachAt
<1>4. QueuedIsHeld(g)' /\ ConnectedIsHeld(g)'
  BY <1>1, <1>2 DEF Served, QueuedIsHeld, ConnectedIsHeld, Attends, PartsAt, CloseAt
<1>5. NotForgotten(g)'
  <2>1. SUFFICES ASSUME NEW k \in Keys, owners[k].gen = g, owners[k].conn = thread[g].conn,
                        thread'[g].deadline = "none"
                 PROVE  \/ Attends(g, thread[g].conn)
                        \/ \E j \in DOMAIN events[g] : PartsAt(g, j, thread[g].conn)
    BY <1>1, <1>2 DEF NotForgotten, Attends, PartsAt
  <2>2. CASE thread[g].deadline = "none"
    BY <1>2, <2>1, <2>2 DEF Served, NotForgotten
  <2>3. CASE Connected(g)
    <3>1. owners[k].connected
      BY <2>1, <2>3 DEF Connected, HubInv, OwnedOnce, Generations
    <3>2. QED
      BY <1>2, <2>1, <3>1 DEF Served, ConnectedIsHeld, Attends, PartsAt, CloseAt
  <2>4. QED
    BY <2>1, <2>2, <2>3 DEF Turns, Serving
<1>6. QED
  BY <1>3, <1>4, <1>5 DEF Served

(* What is left in the channel keeps its order *)
LEMMA TakeLeaves ==
    ASSUME HubInv, NEW g \in Generations, Takes(g)
    PROVE  /\ \A i \in DOMAIN events[g] : i # 1 => i - 1 \in DOMAIN events'[g]
           /\ \A i \in DOMAIN events[g] : i # 1 => events'[g][i - 1] = events[g][i]
           /\ \A i \in DOMAIN events[g] : i \in Nat /\ i >= 1
           /\ \A i \in DOMAIN events'[g] : i \in Nat /\ i >= 1 /\ i + 1 \in DOMAIN events[g]
                                           /\ events'[g][i] = events[g][i + 1]
           /\ 1 \in DOMAIN events[g] /\ First(g) = events[g][1]
<1>1. /\ 1 \in DOMAIN events[g] /\ First(g) = events[g][1]
      /\ \A i \in DOMAIN events'[g] : /\ i \in Nat /\ i >= 1 /\ i + 1 \in DOMAIN events[g]
                                      /\ events'[g][i] = events[g][i + 1]
      /\ \A i \in DOMAIN events[g] : /\ i \in Nat /\ i >= 1
                                     /\ i # 1 => i - 1 \in DOMAIN events'[g]
  BY TakeShifts DEF Takes, HubInv
<1>2. \A i \in DOMAIN events[g] : i # 1 => events'[g][i - 1] = events[g][i]
  <2>1. ASSUME NEW i \in DOMAIN events[g], i # 1
        PROVE  events'[g][i - 1] = events[g][i]
    <3>1. i - 1 \in DOMAIN events'[g] /\ i \in Nat
      BY <1>1, <2>1
    <3>2. events'[g][i - 1] = events[g][(i - 1) + 1]
      BY <1>1, <3>1
    <3>3. (i - 1) + 1 = i
      BY <3>1
    <3>4. QED
      BY <3>2, <3>3
  <2>2. QED
    BY <2>1
<1>3. QED
  BY <1>1, <1>2

LEMMA ServedAttaches ==
    ASSUME HubInv, ServedInv, NEW g \in Generations, Attach(g)
    PROVE  Served(g)'
<1> DEFINE n == First(g).conn
<1>1. /\ Takes(g) /\ SameSeats /\ UNCHANGED hub
      /\ First(g).kind = "attach"
      /\ thread'[g].conn = n /\ thread'[g].sink = First(g).from
      /\ \A c \in Clients : client'[c].verdict =
            IF Serves(g, c) THEN "replaced" ELSE client[c].verdict
  BY AttachEffect
<1>2. /\ \A i \in DOMAIN events[g] : i # 1 => i - 1 \in DOMAIN events'[g]
      /\ \A i \in DOMAIN events[g] : i # 1 => events'[g][i - 1] = events[g][i]
      /\ \A i \in DOMAIN events[g] : i \in Nat /\ i >= 1
      /\ \A i \in DOMAIN events'[g] : i \in Nat /\ i >= 1 /\ i + 1 \in DOMAIN events[g]
                                      /\ events'[g][i] = events[g][i + 1]
      /\ 1 \in DOMAIN events[g] /\ First(g) = events[g][1]
  BY <1>1, TakeLeaves
<1>3. Served(g)
  BY <1>1 DEF ServedInv, Takes
<1>4. \A m : Attends(g, m) => Attends(g, m)'
  BY <1>1 DEF Attends, SameSeats
<1>5. \A c \in Clients : (client'[c].gen = g /\ Linked(c)' <=> client[c].gen = g /\ Linked(c))
                         /\ client'[c].conn = client[c].conn
  BY <1>1 DEF SameSeats, Linked
<1>6. Listed(g)'
  BY <1>1, <1>3 DEF Served, Listed, hub
<1>7. OpenIsServed(g)'
  <2>1. ASSUME NEW c \in Clients, client[c].gen = g, client[c].pc = "open", client[c].conn = n
        PROVE  First(g).from = c
    <3>1. AttachAt(g, 1, client[c].conn)
      BY <1>1, <1>2, <2>1 DEF AttachAt
    <3>2. QED
      BY <1>2, <1>3, <2>1, <3>1 DEF Served, FromHolder, Linked
  <2>2. QED
    BY <1>1, <2>1 DEF OpenIsServed, SameSeats
<1>8. FromHolder(g)' /\ DetachedIsGone(g)'
  BY <1>2, <1>3, <1>5 DEF Served, FromHolder, DetachedIsGone, AttachAt
<1>9. FlagIsDown(g)'
  BY <1>1, <1>2, <1>3 DEF Served, FlagIsDown, SameSeats, hub
<1>10. QueuedIsHeld(g)'
  <2>1. ASSUME NEW i \in DOMAIN events'[g], events'[g][i].kind = "attach", ~ Attends(g, events[g][i + 1].conn)
        PROVE  \E j \in DOMAIN events'[g] :
                  j > i /\ events'[g][j].kind \in {"detach", "close"} /\ events'[g][j].conn = events'[g][i].conn
    <3>1. i + 1 \in DOMAIN events[g] /\ events[g][i + 1] = events'[g][i] /\ i \in Nat /\ i >= 1
      BY <1>2
    <3>2. PICK j \in DOMAIN events[g] : j > i + 1 /\ PartsAt(g, j, events[g][i + 1].conn)
      BY <1>3, <2>1, <3>1 DEF Served, QueuedIsHeld
    <3>3. j \in Nat /\ j # 1
      BY <1>2, <3>1, <3>2
    <3>4. j - 1 \in DOMAIN events'[g] /\ events'[g][j - 1] = events[g][j] /\ j - 1 > i
      BY <1>2, <3>1, <3>2, <3>3
    <3>5. QED
      BY <3>1, <3>2, <3>4 DEF PartsAt
  <2>2. QED
    BY <1>2, <1>4, <2>1 DEF QueuedIsHeld, PartsAt
<1>11. \/ Attends(g, n)
       \/ \E j \in DOMAIN events'[g] : /\ events'[g][j].kind \in {"detach", "close"}
                                       /\ events'[g][j].conn = n
  <2>1. CASE \E j \in DOMAIN events[g] : j > 1 /\ PartsAt(g, j, n)
    <3>1. PICK j \in DOMAIN events[g] : j > 1 /\ PartsAt(g, j, n)
      BY <2>1
    <3>2. j - 1 \in DOMAIN events'[g] /\ events'[g][j - 1] = events[g][j]
      BY <1>2, <3>1
    <3>3. QED
      BY <3>1, <3>2 DEF PartsAt
  <2>2. QED
    BY <1>1, <1>2, <1>3, <2>1 DEF Served, QueuedIsHeld
<1>12. ConnectedIsHeld(g)'
  <2>1. SUFFICES ASSUME NEW k \in Keys, owners[k].gen = g, owners[k].connected, owners[k].conn = n,
                        \A j \in DOMAIN events'[g] :
                           ~ (events'[g][j].kind = "close" /\ events'[g][j].conn = n)
                 PROVE  \E c \in Clients : /\ client[c].gen = g
                                           /\ client[c].conn = n
                                           /\ client[c].pc \in {"open", "leaving"}
    BY <1>1 DEF ConnectedIsHeld, CloseAt, SameSeats, hub
  <2>2. \A j \in DOMAIN events'[g] : ~ (events'[g][j].kind = "detach" /\ events'[g][j].conn = n)
    BY <1>2, <1>3, <2>1 DEF Served, FlagIsDown
  <2>3. Attends(g, n)
    BY <1>11, <2>1, <2>2
  <2>4. QED
    BY <1>3, <2>1, <2>3 DEF Attends, Served, FlagIsDown
<1>13. NotForgotten(g)'
  BY <1>1, <1>4, <1>11 DEF NotForgotten, PartsAt
<1>14. QED
  BY <1>6, <1>7, <1>8, <1>9, <1>10, <1>12, <1>13 DEF Served

LEMMA ServedDrops ==
    ASSUME HubInv, ServedInv, NEW g \in Generations, Detach(g) \/ IgnoreClose(g)
    PROVE  Served(g)'
<1>1. /\ Takes(g) /\ UNCHANGED <<hub, client>>
      /\ First(g).kind \in {"detach", "close"}
      /\ thread'[g].conn = thread[g].conn
      /\ First(g).conn # thread[g].conn => thread' = thread
      /\ First(g).conn = thread[g].conn => First(g).kind = "detach" /\ thread'[g].deadline = "armed"
  BY DropEffect
<1>2. /\ \A i \in DOMAIN events[g] : i # 1 => i - 1 \in DOMAIN events'[g]
      /\ \A i \in DOMAIN events[g] : i # 1 => events'[g][i - 1] = events[g][i]
      /\ \A i \in DOMAIN events[g] : i \in Nat /\ i >= 1
      /\ \A i \in DOMAIN events'[g] : i \in Nat /\ i >= 1 /\ i + 1 \in DOMAIN events[g]
                                      /\ events'[g][i] = events[g][i + 1]
      /\ 1 \in DOMAIN events[g] /\ First(g) = events[g][1]
  BY <1>1, TakeLeaves
<1>3. Served(g)
  BY <1>1 DEF ServedInv, Takes
<1>4. Listed(g)' /\ FlagIsDown(g)'
  BY <1>1, <1>2, <1>3 DEF Served, Listed, FlagIsDown, hub
<1>5. OpenIsServed(g)'
  <2>1. ASSUME NEW c \in Clients, client[c].gen = g, client[c].pc = "open", First(g).conn = thread[g].conn
        PROVE  client[c].conn # thread[g].conn
    BY <1>1, <1>2, <1>3, <2>1 DEF Served, DetachedIsGone, Linked
  <2>2. QED
    BY <1>1, <1>3, <2>1 DEF Served, OpenIsServed
<1>6. FromHolder(g)' /\ DetachedIsGone(g)'
  BY <1>1, <1>2, <1>3 DEF Served, FromHolder, DetachedIsGone, AttachAt, Linked
<1>7. QueuedIsHeld(g)'
  <2>1. ASSUME NEW i \in DOMAIN events'[g], events'[g][i].kind = "attach", ~ Attends(g, events[g][i + 1].conn)
        PROVE  \E j \in DOMAIN events'[g] :
                  j > i /\ events'[g][j].kind \in {"detach", "close"} /\ events'[g][j].conn = events'[g][i].conn
    <3>1. i + 1 \in DOMAIN events[g] /\ events[g][i + 1] = events'[g][i] /\ i \in Nat /\ i >= 1
      BY <1>2
    <3>2. PICK j \in DOMAIN events[g] : j > i + 1 /\ PartsAt(g, j, events[g][i + 1].conn)
      BY <1>3, <2>1, <3>1 DEF Served, QueuedIsHeld
    <3>3. j \in Nat /\ j # 1
      BY <1>2, <3>1, <3>2
    <3>4. j - 1 \in DOMAIN events'[g] /\ events'[g][j - 1] = events[g][j] /\ j - 1 > i
      BY <1>2, <3>1, <3>2, <3>3
    <3>5. QED
      BY <3>1, <3>2, <3>4 DEF PartsAt
  <2>2. QED
    BY <1>1, <1>2, <2>1 DEF QueuedIsHeld, PartsAt, Attends
<1>8. \A j \in DOMAIN events[g] : CloseAt(g, j, thread[g].conn) => j # 1
  BY <1>1, <1>2 DEF CloseAt
<1>9. ConnectedIsHeld(g)'
  <2>1. \A j \in DOMAIN events[g] : CloseAt(g, j, thread[g].conn) =>
           \E i \in DOMAIN events'[g] : events'[g][i].kind = "close" /\ events'[g][i].conn = thread[g].conn
    BY <1>2, <1>8 DEF CloseAt
  <2>2. QED
    BY <1>1, <1>3, <2>1 DEF Served, ConnectedIsHeld, CloseAt, hub
<1>10. NotForgotten(g)'
  <2>1. SUFFICES ASSUME thread'[g].deadline = "none" PROVE NotForgotten(g)'
    BY DEF NotForgotten
  <2>2. First(g).conn # thread[g].conn /\ thread' = thread
    BY <1>1, <2>1
  <2>3. \A j \in DOMAIN events[g] : PartsAt(g, j, thread[g].conn) => j # 1
    BY <1>2, <2>2 DEF PartsAt
  <2>4. \A j \in DOMAIN events[g] : PartsAt(g, j, thread[g].conn) =>
           \E i \in DOMAIN events'[g] : events'[g][i].kind \in {"detach", "close"}
                                        /\ events'[g][i].conn = thread[g].conn
    BY <1>2, <2>3 DEF PartsAt
  <2>5. QED
    BY <1>1, <1>3, <2>1, <2>2, <2>4 DEF Served, NotForgotten, Attends, PartsAt, hub
<1>11. QED
  BY <1>4, <1>5, <1>6, <1>7, <1>9, <1>10 DEF Served

LEMMA ServedReleases ==
    ASSUME HubInv, ServedInv, NEW g \in Generations, SlowConsumer(g) \/ SinkClosed(g)
    PROVE  Served(g)'
<1>1. /\ thread[g].pc = "serving"
      /\ UNCHANGED events
      /\ thread'[g].conn = thread[g].conn
      /\ thread'[g].deadline = "armed"
      /\ SameSeats
      /\ \A c \in Clients : client'[c].verdict \in {client[c].verdict, "slow"}
      /\ \A c \in Clients : Serves(g, c) /\ client[c].pc = "open" => client'[c].verdict = "slow"
      /\ \A k \in Keys :
            /\ owners'[k].gen = owners[k].gen
            /\ ~ (owners[k].gen = g /\ owners[k].conn = thread[g].conn) => owners'[k] = owners[k]
            /\ owners[k].gen = g /\ owners[k].conn = thread[g].conn => ~ owners'[k].connected
  BY ReleaseEffect
<1>2. Served(g)
  BY <1>1 DEF ServedInv, Serving
<1>3. \A k \in Keys : owners'[k].gen = g /\ owners'[k].connected => owners'[k] = owners[k]
  BY <1>1
<1>4. Listed(g)' /\ FromHolder(g)' /\ DetachedIsGone(g)'
  BY <1>1, <1>2 DEF Served, Listed, FromHolder, DetachedIsGone, Linked, AttachAt, SameSeats
<1>5. FlagIsDown(g)'
  BY <1>1, <1>2, <1>3 DEF Served, FlagIsDown, SameSeats
<1>6. OpenIsServed(g)'
  <2>1. ASSUME NEW c \in Clients, client[c].gen = g, client[c].pc = "open",
               thread[g].conn = client[c].conn, thread[g].sink = c
        PROVE  client'[c].verdict = "slow"
    BY <1>1, <2>1 DEF Serves
  <2>2. QED
    BY <1>1, <1>2, <2>1 DEF Served, OpenIsServed, SameSeats
<1>7. QueuedIsHeld(g)'
  BY <1>1, <1>2 DEF Served, QueuedIsHeld, SameSeats, Attends, PartsAt
<1>8. ConnectedIsHeld(g)'
  BY <1>1, <1>2, <1>3 DEF Served, ConnectedIsHeld, SameSeats, CloseAt
<1>9. NotForgotten(g)'
  BY <1>1 DEF NotForgotten
<1>10. QED
  BY <1>4, <1>5, <1>6, <1>7, <1>8, <1>9 DEF Served

(* A client moves on in silence: it still has to tell the owner that it    *)
(* leaves, or the owner is not on its connection                           *)
LEMMA ServedSilent ==
    ASSUME HubInv, ServedInv, NEW g \in Generations, NEW c \in Clients, client[c].gen = g,
           Moves(c), UNCHANGED <<thread, events>>, Serving(g), client'[c].pc # "open",
           \A k \in Keys : /\ owners'[k].gen = owners[k].gen
                           /\ owners'[k].conn = owners[k].conn
                           /\ owners'[k].connected => owners[k].connected,
           \/ client'[c].pc \in {"leaving", "marked"}
           \/ client[c].pc = "closing"
           \/ thread[g].conn # client[c].conn /\ ~ AttachQueued(g, client[c].conn),
           client'[c].pc = "marked" =>
              \A k \in Keys : owners[k].gen = g /\ owners[k].conn = client[c].conn => ~ owners'[k].connected
    PROVE  Served(g)'
<1>1. Served(g)
  BY DEF ServedInv
<1>2. /\ \A d \in Clients : d # c => client'[d] = client[d]
      /\ client'[c] = Away \/ (client'[c].gen = g /\ client'[c].conn = client[c].conn)
      /\ Linked(c)
      /\ ~ Linked(c)' \/ client'[c] # Away
  BY DEF Moves, Linked, Away
<1>3. ASSUME NEW d \in Clients, client'[d].gen = g, Linked(d)'
      PROVE  client[d].gen = g /\ Linked(d) /\ client'[d].conn = client[d].conn
  BY <1>2, <1>3 DEF Linked
<1>4. \A d \in Clients : client'[d].pc = "open" => client'[d] = client[d]
  BY <1>2
<1>5. Listed(g)' /\ OpenIsServed(g)'
  BY <1>1, <1>4 DEF Served, Listed, OpenIsServed
<1>6. FromHolder(g)' /\ DetachedIsGone(g)'
  BY <1>1, <1>3 DEF Served, FromHolder, DetachedIsGone, AttachAt
<1>7. FlagIsDown(g)'
  <2>1. ASSUME NEW k \in Keys, owners'[k].gen = g, owners'[k].connected,
               NEW d \in Clients, client'[d].gen = g, client'[d].pc = "marked"
        PROVE  client'[d].conn # owners'[k].conn
    <3>1. CASE d = c
      <4>1. client'[c] # Away
        BY <2>1, <3>1 DEF Away
      <4>2. QED
        BY <1>2, <2>1, <3>1, <4>1
    <3>2. CASE d # c
      BY <1>1, <1>2, <2>1, <3>2 DEF Served, FlagIsDown
    <3>3. QED
      BY <3>1, <3>2
  <2>2. QED
    BY <1>1, <2>1 DEF Served, FlagIsDown
<1>8. ASSUME NEW m, Attends(g, m), m = thread[g].conn \/ AttachQueued(g, m)
      PROVE  Attends(g, m)'
  <2>1. PICK d \in Clients : /\ client[d].gen = g /\ client[d].conn = m
                             /\ client[d].pc \in {"open", "leaving", "marked"}
    BY <1>8 DEF Attends
  <2>2. CASE d # c
    BY <1>2, <2>1, <2>2 DEF Attends
  <2>3. CASE d = c
    <3>1. client'[c].pc \in {"leaving", "marked"}
      BY <1>8, <2>1, <2>3
    <3>2. client'[c] # Away
      BY <3>1 DEF Away
    <3>3. QED
      BY <1>2, <2>1, <2>3, <3>1, <3>2 DEF Attends
  <2>4. QED
    BY <2>2, <2>3
<1>9. QueuedIsHeld(g)'
  <2>1. \A i \in DOMAIN events[g] : events[g][i].kind = "attach" => AttachQueued(g, events[g][i].conn)
    BY DEF AttachQueued, AttachAt
  <2>2. QED
    BY <1>1, <1>8, <2>1 DEF Served, QueuedIsHeld, PartsAt
<1>10. ConnectedIsHeld(g)'
  <2>1. ASSUME NEW k \in Keys, owners[k].gen = g, owners'[k].connected, owners[k].conn = thread[g].conn,
               NEW d \in Clients, client[d].gen = g, client[d].conn = thread[g].conn,
               client[d].pc \in {"open", "leaving"}
        PROVE  client'[d].gen = g /\ client'[d].conn = thread[g].conn
               /\ client'[d].pc \in {"open", "leaving"}
    <3>1. CASE d # c
      BY <1>2, <2>1, <3>1
    <3>2. CASE d = c
      <4>1. client'[c].pc = "leaving"
        BY <2>1, <3>2
      <4>2. client'[c] # Away
        BY <4>1 DEF Away
      <4>3. QED
        BY <1>2, <2>1, <3>2, <4>1, <4>2
    <3>3. QED
      BY <3>1, <3>2
  <2>2. QED
    BY <1>1, <2>1 DEF Served, ConnectedIsHeld, CloseAt
<1>11. NotForgotten(g)'
  BY <1>1, <1>8 DEF Served, NotForgotten, PartsAt
<1>12. QED
  BY <1>5, <1>6, <1>7, <1>9, <1>10, <1>11 DEF Served

(* A client tells the owner that it leaves *)
LEMMA ServedParts ==
    ASSUME HubInv, ServedInv, NEW g \in Generations, NEW c \in Clients, client[c].gen = g,
           Moves(c), UNCHANGED thread, Serving(g),
           NEW kind \in {"detach", "close"}, Says(c, kind), client'[c].pc # "marked",
           kind = "detach" => client[c].pc = "marked" /\ client'[c] = Away
    PROVE  Served(g)'
<1>1. Served(g) /\ owners' = owners /\ client'[c].pc # "open"
  BY DEF ServedInv, Says
<1>2. /\ \A d \in Clients : d # c => client'[d] = client[d]
      /\ client'[c] = Away \/ (client'[c].gen = g /\ client'[c].conn = client[c].conn)
      /\ Linked(c)
      /\ ~ Linked(c)' \/ client'[c] # Away
  BY DEF Moves, Linked, Away
<1>3. PICK last : Grows(g, last, kind, c)
  BY SaysEffect
<1>4. /\ last \in DOMAIN events'[g] /\ last \in Nat
      /\ \A i \in DOMAIN events[g] :
            i \in Nat /\ i < last /\ i \in DOMAIN events'[g] /\ events'[g][i] = events[g][i]
      /\ \A i \in DOMAIN events'[g] : i \in DOMAIN events[g] \/ i = last
      /\ events'[g][last].kind = kind
      /\ events'[g][last].conn = client[c].conn
  BY <1>3 DEF Grows
<1>5. ASSUME NEW d \in Clients, client'[d].gen = g, Linked(d)'
      PROVE  client[d].gen = g /\ Linked(d) /\ client'[d].conn = client[d].conn
  BY <1>2, <1>5 DEF Linked
<1>6. Listed(g)' /\ OpenIsServed(g)'
  <2>1. \A d \in Clients : client'[d].pc = "open" => client'[d] = client[d]
    BY <1>1, <1>2
  <2>2. QED
    BY <1>1, <2>1 DEF Served, Listed, OpenIsServed
<1>7. FromHolder(g)'
  <2>1. \A i \in DOMAIN events'[g] : events'[g][i].kind = "attach" => i \in DOMAIN events[g] /\ events'[g][i] = events[g][i]
    BY <1>4
  <2>2. QED
    BY <1>1, <1>5, <2>1 DEF Served, FromHolder, AttachAt
<1>8. DetachedIsGone(g)'
  <2>1. ASSUME NEW d \in Clients, client'[d].gen = g, Linked(d)', kind = "detach"
        PROVE  client'[d].conn # client[c].conn
    <3>1. d # c
      BY <1>2, <2>1 DEF Linked, Away
    <3>2. QED
      BY <1>2, <1>5, <2>1, <3>1 DEF HubInv, OwnConn
  <2>2. QED
    BY <1>1, <1>4, <1>5, <2>1 DEF Served, DetachedIsGone
<1>9. FlagIsDown(g)'
  <2>1. kind = "detach" => client[c].gen = g /\ client[c].pc = "marked"
    OBVIOUS
  <2>2. \A d \in Clients : client'[d].pc = "marked" => client'[d] = client[d]
    BY <1>2
  <2>3. QED
    BY <1>1, <1>4, <2>1, <2>2 DEF Served, FlagIsDown
<1>10. ASSUME NEW m, Attends(g, m)
       PROVE  Attends(g, m)' \/ m = client[c].conn
  BY <1>2, <1>10 DEF Attends
<1>11. QueuedIsHeld(g)'
  <2>1. ASSUME NEW i \in DOMAIN events'[g], events'[g][i].kind = "attach", ~ Attends(g, events[g][i].conn)'
        PROVE  \E j \in DOMAIN events'[g] :
                  j > i /\ events'[g][j].kind \in {"detach", "close"} /\ events'[g][j].conn = events'[g][i].conn
    <3>1. i \in DOMAIN events[g] /\ events'[g][i] = events[g][i] /\ i < last /\ i \in Nat
      BY <1>4, <2>1
    <3>2. CASE events[g][i].conn = client[c].conn
      BY <1>4, <3>1, <3>2
    <3>3. CASE events[g][i].conn # client[c].conn
      <4>1. ~ Attends(g, events[g][i].conn)
        BY <1>2, <2>1, <3>1, <3>3 DEF Attends
      <4>2. PICK j \in DOMAIN events[g] : j > i /\ PartsAt(g, j, events[g][i].conn)
        BY <1>1, <2>1, <3>1, <4>1 DEF Served, QueuedIsHeld
      <4>3. QED
        BY <1>4, <3>1, <4>2 DEF PartsAt
    <3>4. QED
      BY <3>2, <3>3
  <2>2. QED
    BY <2>1 DEF QueuedIsHeld, PartsAt
<1>12. \A m : (\E j \in DOMAIN events[g] : CloseAt(g, j, m)) \/ (kind = "close" /\ m = client[c].conn) =>
               \E j \in DOMAIN events'[g] : events'[g][j].kind = "close" /\ events'[g][j].conn = m
  BY <1>4 DEF CloseAt
<1>13. ConnectedIsHeld(g)'
  <2>1. ASSUME NEW d \in Clients, client[d].gen = g, client[d].conn = thread[g].conn,
               client[d].pc \in {"open", "leaving"}
        PROVE  client'[d] = client[d] \/ (kind = "close" /\ client[c].conn = thread[g].conn)
    BY <1>2, <2>1
  <2>2. QED
    BY <1>1, <1>12, <2>1 DEF Served, ConnectedIsHeld, CloseAt
<1>14. NotForgotten(g)'
  <2>1. \A m : (\E j \in DOMAIN events[g] : PartsAt(g, j, m)) \/ m = client[c].conn =>
               \E j \in DOMAIN events'[g] : events'[g][j].kind \in {"detach", "close"} /\ events'[g][j].conn = m
    BY <1>4 DEF PartsAt
  <2>2. QED
    BY <1>1, <1>10, <2>1 DEF Served, NotForgotten, PartsAt
<1>15. QED
  BY <1>6, <1>7, <1>8, <1>9, <1>11, <1>13, <1>14 DEF Served

LEMMA ServedUpgrades ==
    ASSUME HubInv, ServedInv, NEW g \in Generations, NEW c \in Clients, client[c].gen = g,
           Moves(c), UNCHANGED thread, Serving(g), Says(c, "attach"), client'[c].pc = "open"
    PROVE  Served(g)'
<1>1. Served(g) /\ owners' = owners /\ client[c].pc = "upgrading"
  BY DEF ServedInv, Says
<1>2. /\ \A d \in Clients : d # c => client'[d] = client[d]
      /\ client'[c].gen = g /\ client'[c].conn = client[c].conn
  BY DEF Moves, Away
<1>3. PICK last : Grows(g, last, "attach", c)
  BY SaysEffect
<1>4. /\ last \in DOMAIN events'[g] /\ last \in Nat
      /\ \A i \in DOMAIN events[g] :
            i \in Nat /\ i < last /\ i \in DOMAIN events'[g] /\ events'[g][i] = events[g][i]
      /\ \A i \in DOMAIN events'[g] : i \in DOMAIN events[g] \/ i = last
      /\ events'[g][last].kind = "attach"
      /\ events'[g][last].conn = client[c].conn
      /\ events'[g][last].from = c
  BY <1>3 DEF Grows
<1>5. \A d \in Clients : /\ client'[d].gen = client[d].gen
                         /\ client'[d].conn = client[d].conn
                         /\ Linked(d)' <=> Linked(d)
                         /\ d # c => client'[d] = client[d]
  BY <1>1, <1>2 DEF Linked
<1>6. thread[g].conn # client[c].conn
  BY <1>1 DEF HubInv, UpgradingIsNew
<1>7. Listed(g)' /\ OpenIsServed(g)'
  BY <1>1, <1>5, <1>6 DEF Served, Listed, OpenIsServed
<1>8. FromHolder(g)'
  <2>1. ASSUME NEW d \in Clients, client[d].gen = g, Linked(d), client[d].conn = client[c].conn
        PROVE  d = c
    BY <1>1, <2>1 DEF HubInv, OwnConn, Linked
  <2>2. QED
    BY <1>1, <1>4, <1>5, <2>1 DEF Served, FromHolder, AttachAt
<1>9. DetachedIsGone(g)'
  BY <1>1, <1>4, <1>5 DEF Served, DetachedIsGone
<1>10. FlagIsDown(g)'
  <2>1. \A d \in Clients : client'[d].pc = "marked" => client'[d] = client[d]
    BY <1>5
  <2>2. QED
    BY <1>1, <1>4, <2>1 DEF Served, FlagIsDown
<1>11. \A m : Attends(g, m) \/ m = client[c].conn => Attends(g, m)'
  BY <1>2 DEF Attends
<1>12. QueuedIsHeld(g)'
  <2>1. ASSUME NEW i \in DOMAIN events'[g], events'[g][i].kind = "attach", ~ Attends(g, events[g][i].conn)'
        PROVE  \E j \in DOMAIN events'[g] :
                  j > i /\ events'[g][j].kind \in {"detach", "close"} /\ events'[g][j].conn = events'[g][i].conn
    <3>1. i # last
      BY <1>2, <1>4, <2>1 DEF Attends
    <3>2. i \in DOMAIN events[g] /\ events'[g][i] = events[g][i]
      BY <1>4, <3>1
    <3>3. ~ Attends(g, events[g][i].conn)
      BY <1>2, <2>1, <3>2 DEF Attends
    <3>4. PICK j \in DOMAIN events[g] : j > i /\ PartsAt(g, j, events[g][i].conn)
      BY <1>1, <2>1, <3>2, <3>3 DEF Served, QueuedIsHeld
    <3>5. QED
      BY <1>4, <3>2, <3>4 DEF PartsAt
  <2>2. QED
    BY <2>1 DEF QueuedIsHeld, PartsAt
<1>13. ConnectedIsHeld(g)'
  <2>1. \A d \in Clients : client[d].pc \in {"open", "leaving"} => client'[d].pc \in {"open", "leaving"}
    BY <1>1, <1>5
  <2>2. \A m : (\E j \in DOMAIN events[g] : CloseAt(g, j, m)) =>
               \E j \in DOMAIN events'[g] : events'[g][j].kind = "close" /\ events'[g][j].conn = m
    BY <1>4 DEF CloseAt
  <2>3. QED
    BY <1>1, <1>5, <2>1, <2>2 DEF Served, ConnectedIsHeld, CloseAt
<1>14. NotForgotten(g)'
  <2>1. \A m : (\E j \in DOMAIN events[g] : PartsAt(g, j, m)) =>
               \E j \in DOMAIN events'[g] : events'[g][j].kind \in {"detach", "close"} /\ events'[g][j].conn = m
    BY <1>4 DEF PartsAt
  <2>2. QED
    BY <1>1, <1>11, <2>1 DEF Served, NotForgotten, PartsAt
<1>15. QED
  BY <1>7, <1>8, <1>9, <1>10, <1>12, <1>13, <1>14 DEF Served

(* A released socket that does not detach had been displaced: the thread   *)
(* is on another connection, and no attach will bring it back              *)
LEMMA ReleasedIsPassed ==
    ASSUME HubInv, ServedInv, NEW g \in Generations, NEW c \in Clients, client[c].gen = g, Serving(g),
           Released(c), client[c].verdict # "slow"
    PROVE  thread[g].conn # client[c].conn /\ ~ AttachQueued(g, client[c].conn)
<1>1. Served(g) /\ client[c].pc = "open" /\ SinkDropped(c)
  BY DEF ServedInv, Released
<1>2. ~ AttachQueued(g, client[c].conn)
  BY <1>1 DEF SinkDropped, Pending, AttachQueued, AttachAt, Served, FromHolder, Linked
<1>3. ~ (thread[g].conn = client[c].conn /\ thread[g].sink = c)
  BY <1>1 DEF SinkDropped, Serves
<1>4. QED
  BY <1>1, <1>2, <1>3 DEF Served, OpenIsServed

LEMMA ServedClient ==
    ASSUME HubInv, ServedInv, NEW c \in Clients, NEW g \in Generations, client[c].gen = g, Serving(g),
           \/ Upgrade(c) \/ ReattachFails(c) \/ FreshFails(c) \/ Disconnect(c)
           \/ MarkDetached(c) \/ SendDetach(c) \/ Released(c) \/ AskClose(c) \/ CloseAnswered(c)
    PROVE  Served(g)'
<1>1. Moves(c) /\ UNCHANGED thread /\ Listening(g)
  BY ClientStepEffect DEF Serving, Listening
<1>2. client[c] \in ClientState /\ client \in [Clients -> ClientState]
  BY Types DEF HubInv
<1>3. ASSUME NEW p \in ClientPC, client' = [client EXCEPT ![c].pc = p] PROVE client'[c].pc = p
  BY <1>2, <1>3, Stage
<1>4. Away.pc = "away"
  BY DEF Away
<1>5. CASE Upgrade(c)
  <2>1. /\ Send(g, "attach", client[c].conn, c)
        /\ client' = [client EXCEPT ![c].pc = "open"]
        /\ UNCHANGED owners
        /\ client[c].pc = "upgrading"
    BY <1>1, <1>5 DEF Upgrade
  <2>2. client'[c].pc = "open"
    BY <1>3, <2>1 DEF ClientPC
  <2>3. Says(c, "attach")
    BY <2>1 DEF Says
  <2>4. QED
    BY <1>1, <2>2, <2>3, ServedUpgrades
<1>6. CASE Disconnect(c) \/ ReattachFails(c)
  <2>1. client'[c].pc = "leaving" /\ owners' = owners /\ events' = events
    BY <1>3, <1>6 DEF Disconnect, ReattachFails, ClientPC, hub
  <2>2. QED
    BY <1>1, <2>1, ServedSilent
<1>7. CASE MarkDetached(c)
  <2>1. client'[c].pc = "marked" /\ events' = events /\ owners' = Detached(g, client[c].conn)
    BY <1>3, <1>7 DEF MarkDetached, ClientPC
  <2>2. \A k \in Keys :
           /\ owners'[k].gen = owners[k].gen /\ owners'[k].conn = owners[k].conn
           /\ owners'[k].connected => owners[k].connected
           /\ owners[k].gen = g /\ owners[k].conn = client[c].conn => ~ owners'[k].connected
    BY <2>1, DetachedOwners DEF HubInv
  <2>3. QED
    BY <1>1, <2>1, <2>2, ServedSilent
<1>8. CASE SendDetach(c)
  <2>1. /\ Send(g, "detach", client[c].conn, c)
        /\ client' = [client EXCEPT ![c] = Away]
        /\ UNCHANGED owners
        /\ client[c].pc = "marked"
    BY <1>1, <1>8 DEF SendDetach, hub
  <2>2. client'[c] = Away
    BY <1>2, <2>1
  <2>3. Says(c, "detach")
    BY <1>4, <2>1, <2>2 DEF Says
  <2>4. QED
    BY <1>1, <1>4, <2>1, <2>2, <2>3, ServedParts
<1>9. CASE AskClose(c)
  <2>1. /\ Send(g, "close", client[c].conn, c)
        /\ client' = [client EXCEPT ![c].pc = "closing"]
        /\ UNCHANGED owners
    BY <1>1, <1>9 DEF AskClose, hub
  <2>2. client'[c].pc = "closing"
    BY <1>3, <2>1 DEF ClientPC
  <2>3. Says(c, "close")
    BY <2>1, <2>2 DEF Says
  <2>4. QED
    BY <1>1, <1>4, <2>2, <2>3, ServedParts
<1>10. CASE FreshFails(c)
  <2>1. /\ Send(g, "close", client[c].conn, c)
        /\ client' = [client EXCEPT ![c] = Away]
        /\ UNCHANGED owners
    BY <1>1, <1>10 DEF FreshFails
  <2>2. client'[c] = Away
    BY <1>2, <2>1
  <2>3. Says(c, "close")
    BY <1>4, <2>1, <2>2 DEF Says
  <2>4. QED
    BY <1>1, <1>4, <2>2, <2>3, ServedParts
<1>11. CASE Released(c)
  <2>1. owners' = owners /\ events' = events
    BY <1>11 DEF Released, hub
  <2>2. CASE client[c].verdict = "slow"
    <3>1. client' = [client EXCEPT ![c].pc = "leaving"]
      BY <1>11, <2>2 DEF Released
    <3>2. client'[c].pc = "leaving"
      BY <1>3, <3>1 DEF ClientPC
    <3>3. QED
      BY <1>1, <2>1, <3>2, ServedSilent
  <2>3. CASE client[c].verdict # "slow"
    <3>1. client'[c] = Away
      BY <1>2, <1>11, <2>3 DEF Released
    <3>2. thread[g].conn # client[c].conn /\ ~ AttachQueued(g, client[c].conn)
      BY <1>11, <2>3, ReleasedIsPassed
    <3>3. QED
      BY <1>1, <1>4, <2>1, <3>1, <3>2, ServedSilent
  <2>4. QED
    BY <2>2, <2>3
<1>12. CASE CloseAnswered(c)
  <2>1. client'[c] = Away /\ owners' = owners /\ events' = events /\ client[c].pc = "closing"
    BY <1>2, <1>12 DEF CloseAnswered, hub
  <2>2. QED
    BY <1>1, <1>4, <2>1, ServedSilent
<1>13. QED
  BY <1>5, <1>6, <1>7, <1>8, <1>9, <1>10, <1>11, <1>12

(* A takeover is a dispute until its attach arrives *)
LEMMA ServedReattaches ==
    ASSUME HubInv, ServedInv, NEW c \in Clients, NEW k \in Keys, Reattach(c, k),
           NEW g \in Generations, owners[k].gen = g, Serving(g)
    PROVE  Served(g)'
<1> DEFINE n == owners[k].conn + 1
<1>1. /\ UNCHANGED <<thread, events>> /\ client[c].pc = "away"
      /\ \A j \in Keys : owners'[j].gen = owners[j].gen
      /\ \A j \in Keys : j # k => owners'[j] = owners[j]
      /\ owners'[k].conn = n
      /\ client'[c].pc = "upgrading" /\ client'[c].gen = g /\ client'[c].conn = n
      /\ \A d \in Clients : d # c => client'[d] = client[d]
      /\ thread[g].conn < n
      /\ \A i \in DOMAIN events[g] : events[g][i].conn < n
      /\ \A d \in Clients : client[d].gen = g => client[d].conn < n
      /\ n \in Nat
  BY ReattachEffect
<1> HIDE DEF n
<1>2. Served(g)
  BY DEF ServedInv
<1>3. /\ \A i \in DOMAIN events[g] : events[g][i].conn # n
      /\ \A d \in Clients : client[d].gen = g => client[d].conn # n
      /\ thread[g].conn # n
  BY <1>1, Numbers DEF HubInv
<1>4. \A j \in Keys : owners'[j].gen = g => j = k
  BY <1>1 DEF HubInv, OwnedOnce, Generations
<1>5. Listed(g)' /\ OpenIsServed(g)'
  BY <1>1, <1>2 DEF Served, Listed, OpenIsServed
<1>6. FromHolder(g)' /\ DetachedIsGone(g)'
  BY <1>1, <1>2, <1>3 DEF Served, FromHolder, DetachedIsGone, Linked, AttachAt
<1>7. FlagIsDown(g)'
  BY <1>1, <1>3, <1>4 DEF FlagIsDown
<1>8. \A m : Attends(g, m) => Attends(g, m)'
  BY <1>1 DEF Attends
<1>9. QueuedIsHeld(g)'
  BY <1>1, <1>2, <1>8 DEF Served, QueuedIsHeld, PartsAt
<1>10. ConnectedIsHeld(g)' /\ NotForgotten(g)'
  BY <1>1, <1>3, <1>4 DEF ConnectedIsHeld, NotForgotten
<1>11. QED
  BY <1>5, <1>6, <1>7, <1>9, <1>10 DEF Served

(* A fresh owner waits, its grace clock armed, for its one client *)
LEMMA ServedActivates ==
    ASSUME HubInv, NEW c \in Clients, Activate(c), NEW g \in Generations, client[c].gen = g
    PROVE  Served(g)'
<1>1. /\ UNCHANGED events
      /\ client'[c].pc = "upgrading" /\ client'[c].gen = g /\ client'[c].conn = 1
      /\ \A d \in Clients : d # c => client'[d] = client[d]
      /\ thread'[g].deadline = "armed" /\ thread'[g].conn = 0
      /\ \A j \in Keys : owners[j].gen # g
      /\ events[g] = <<>>
      /\ \A d \in Clients : client[d].gen = g => d = c
  BY ActivateEffect
<1>2. PICK k \in Keys : /\ owners'[k].gen = g /\ owners'[k].conn = 1
                        /\ \A j \in Keys : j # k => owners'[j] = owners[j]
  BY ActivateEffect
<1>3. \A d \in Clients : client'[d].gen = g => d = c
  BY <1>1
<1>4. \A j \in Keys : owners'[j].gen = g => j = k
  BY <1>1, <1>2
<1>5. Listed(g)' /\ OpenIsServed(g)'
  BY <1>1, <1>2, <1>3 DEF Listed, OpenIsServed
<1>6. FromHolder(g)' /\ DetachedIsGone(g)' /\ QueuedIsHeld(g)'
  BY <1>1 DEF FromHolder, DetachedIsGone, QueuedIsHeld
<1>7. FlagIsDown(g)'
  BY <1>1, <1>3 DEF FlagIsDown
<1>8. ConnectedIsHeld(g)' /\ NotForgotten(g)'
  BY <1>1, <1>2, <1>4 DEF ConnectedIsHeld, NotForgotten
<1>9. QED
  BY <1>5, <1>6, <1>7, <1>8 DEF Served

(* A client's step is about its own generation only *)
LEMMA ClientElsewhere ==
    ASSUME HubInv, NEW c \in Clients, NEW h \in Generations, client[c].gen # h,
           \/ Upgrade(c) \/ ReattachFails(c) \/ FreshFails(c) \/ Disconnect(c)
           \/ MarkDetached(c) \/ SendDetach(c) \/ Released(c) \/ AskClose(c) \/ CloseAnswered(c)
    PROVE  /\ thread'[h] = thread[h] /\ events'[h] = events[h]
           /\ \A k \in Keys : owners[k].gen = h \/ owners'[k].gen = h => owners'[k] = owners[k]
           /\ \A d \in Clients : client[d].gen = h \/ client'[d].gen = h => client'[d] = client[d]
<1>1. /\ Moves(c) /\ UNCHANGED thread
      /\ Silent(c) \/ \E kind \in {"attach", "detach", "close"} : Says(c, kind)
  BY ClientStepEffect
<1>2. events'[h] = events[h]
  BY <1>1, SaysEffect DEF Silent
<1>3. \A k \in Keys : owners[k].gen = h \/ owners'[k].gen = h => owners'[k] = owners[k]
  <2>1. \/ owners' = owners
        \/ owners' = Removed(client[c].gen)
        \/ owners' = Detached(client[c].gen, client[c].conn)
    BY <1>1 DEF Silent, Says
  <2>2. NoEntry.gen = 0
    BY DEF NoEntry
  <2>3. QED
    BY <2>1, <2>2, RemovedOwners, DetachedOwners DEF HubInv, Generations
<1>4. \A d \in Clients : client[d].gen = h \/ client'[d].gen = h => client'[d] = client[d]
  BY <1>1 DEF Moves, Away, Generations
<1>5. QED
  BY <1>1, <1>2, <1>3, <1>4

LEMMA ServedKeepsClient ==
    ASSUME HubInv, ServedInv, NEW c \in Clients, ClientStep(c) \/ ClientEvent(c)
    PROVE  ServedInv'
<1>1. SUFFICES ASSUME NEW g \in Generations, Serving(g)' PROVE Served(g)'
  BY DEF ServedInv
<1>2. ASSUME NEW k \in Keys, Reattach(c, k) PROVE Served(g)'
  <2>1. /\ UNCHANGED <<thread, events>> /\ client[c].pc = "away"
        /\ \A j \in Keys : j # k => owners'[j] = owners[j]
        /\ owners'[k].gen = owners[k].gen
        /\ client'[c].gen = owners[k].gen
        /\ \A d \in Clients : d # c => client'[d] = client[d]
    BY <1>2, ReattachEffect
  <2>2. client[c].gen = 0
    BY <2>1 DEF HubInv, Leases, Away
  <2>3. CASE owners[k].gen = g
    BY <1>1, <1>2, <2>1, <2>3, ServedReattaches DEF Serving
  <2>4. CASE owners[k].gen # g
    BY <1>1, <2>1, <2>2, <2>4, ServedElsewhere DEF Generations
  <2>5. QED
    BY <2>3, <2>4
<1>3. ASSUME NEW k \in Keys, Reserve(c, k) PROVE Served(g)'
  <2> DEFINE n == lastGen + 1
  <2>1. /\ UNCHANGED <<owners, thread, events>> /\ client[c].pc = "away"
        /\ client'[c].gen = n
        /\ \A d \in Clients : d # c => client'[d] = client[d]
        /\ thread[n].pc = "unborn"
    BY <1>3, ReserveEffect
  <2>2. client[c].gen = 0 /\ g # n
    BY <1>1, <2>1 DEF HubInv, Leases, Away, Serving
  <2>3. QED
    BY <1>1, <2>1, <2>2, ServedElsewhere DEF Generations
<1>4. CASE GiveUp(c)
  <2>1. /\ UNCHANGED <<owners, thread, events>> /\ client[c].pc = "starting"
        /\ client'[c] = Away
        /\ \A d \in Clients : d # c => client'[d] = client[d]
    BY <1>4, Types DEF GiveUp, HubInv
  <2>2. client[c].gen # g
    BY <1>1, <2>1 DEF HubInv, Leases, ReservedDormant, Serving, Asleep
  <2>3. Away.gen = 0
    BY DEF Away
  <2>4. QED
    BY <1>1, <2>1, <2>2, <2>3, ServedElsewhere DEF Generations
<1>5. CASE Launch(c)
  BY <1>1, <1>5, LaunchEffect, ServedTurns, ServedElsewhere DEF Turns, Serving, hub
<1>6. CASE Activate(c)
  <2>1. CASE client[c].gen = g
    BY <1>6, <2>1, ServedActivates
  <2>2. CASE client[c].gen # g
    <3>1. PICK k \in Keys : /\ owners'[k].gen = client[c].gen
                            /\ reservations[k] = client[c].gen
                            /\ \A j \in Keys : j # k => owners'[j] = owners[j]
      BY <1>6, ActivateEffect
    <3>2. /\ events'[g] = events[g] /\ thread'[g] = thread[g]
          /\ client'[c].gen = client[c].gen /\ client[c].gen # 0
          /\ \A d \in Clients : d # c => client'[d] = client[d]
      BY <1>6, <2>2, ActivateEffect
    <3>3. owners[k].gen = 0
      BY <3>1, <3>2 DEF HubInv, ReservedOnce
    <3>4. \A j \in Keys : owners[j].gen = g \/ owners'[j].gen = g => owners'[j] = owners[j]
      BY <2>2, <3>1, <3>3 DEF Generations
    <3>5. QED
      BY <1>1, <2>2, <3>2, <3>4, ServedElsewhere
  <2>3. QED
    BY <2>1, <2>2
<1>7. CASE \/ Upgrade(c) \/ ReattachFails(c) \/ FreshFails(c) \/ Disconnect(c)
           \/ MarkDetached(c) \/ SendDetach(c) \/ Released(c) \/ AskClose(c) \/ CloseAnswered(c)
  <2>1. thread' = thread
    BY <1>7, ClientStepEffect
  <2>2. CASE client[c].gen = g
    BY <1>1, <1>7, <2>1, <2>2, ServedClient DEF Serving
  <2>3. CASE client[c].gen # g
    BY <1>1, <1>7, <2>3, ClientElsewhere, ServedElsewhere
  <2>4. QED
    BY <2>2, <2>3
<1>8. QED
  BY <1>2, <1>3, <1>4, <1>5, <1>6, <1>7 DEF ClientStep, ClientEvent, Connect

LEMMA ServedKeepsThread ==
    ASSUME HubInv, ServedInv, NEW g \in Generations,
           ThreadStep(g) \/ GraceRunsOut(g) \/ ThreadEvent(g)
    PROVE  ServedInv'
<1>1. SUFFICES ASSUME NEW h \in Generations, Serving(h)' PROVE Served(h)'
  BY DEF ServedInv
<1>2. NoEntry.gen = 0 /\ Away.gen = 0
  BY DEF NoEntry, Away
<1>3. CASE \/ PtySpawned(g) \/ PtyFailed(g) \/ Abandon(g) \/ Expire(g) \/ Close(g)
           \/ GraceRunsOut(g) \/ Reconnected(g)
  <2>1. Turns(g) /\ UNCHANGED <<events, client>> /\ (owners' = owners \/ owners' = Removed(g))
    BY <1>3, TurnStepEffect
  <2>2. CASE h = g
    BY <1>1, <2>1, <2>2, ServedTurns
  <2>3. CASE h # g
    <3>1. \A k \in Keys : owners[k].gen = h \/ owners'[k].gen = h => owners'[k] = owners[k]
      BY <1>2, <2>1, <2>3, RemovedOwners DEF HubInv, Generations
    <3>2. QED
      BY <1>1, <2>1, <2>3, <3>1, ServedElsewhere DEF Turns
  <2>4. QED
    BY <2>2, <2>3
<1>4. CASE FinishExited(g) \/ Kill(g) \/ FinishClose(g)
  <2>1. /\ thread'[g].pc = "gone"
        /\ h # g => thread'[h] = thread[h] /\ events'[h] = events[h]
        /\ client' = client
    BY <1>4, EndEffect
  <2>2. h # g
    BY <1>1, <2>1 DEF Serving
  <2>3. owners' = owners \/ owners' = Removed(g)
    BY <1>4 DEF FinishExited, Kill, FinishClose, hub
  <2>4. \A k \in Keys : owners[k].gen = h \/ owners'[k].gen = h => owners'[k] = owners[k]
    BY <1>2, <2>2, <2>3, RemovedOwners DEF HubInv, Generations
  <2>5. QED
    BY <1>1, <2>1, <2>2, <2>4, ServedElsewhere
<1>5. CASE Attach(g) \/ Detach(g) \/ IgnoreClose(g)
  <2>1. CASE h = g
    BY <1>5, <2>1, ServedAttaches, ServedDrops
  <2>2. CASE h # g
    <3>1. Takes(g) /\ owners' = owners
      BY <1>5, AttachEffect, DropEffect DEF hub
    <3>2. thread'[h] = thread[h] /\ events'[h] = events[h]
      BY <2>2, <3>1, TakeShifts DEF Takes, HubInv
    <3>3. \A c \in Clients : client[c].gen = h \/ client'[c].gen = h => client'[c] = client[c]
      <4>1. CASE Attach(g)
        <5>1. SameSeats
          BY <4>1, AttachEffect
        <5>2. \A c \in Clients : client[c].gen = h => ~ Serves(g, c)
          BY <2>2 DEF Serves
        <5>3. \A c \in Clients : ~ Serves(g, c) => client'[c] = client[c]
          BY <4>1 DEF Attach
        <5>4. QED
          BY <5>1, <5>2, <5>3 DEF SameSeats
      <4>2. CASE Detach(g) \/ IgnoreClose(g)
        BY <4>2, DropEffect
      <4>3. QED
        BY <1>5, <4>1, <4>2
    <3>4. QED
      BY <1>1, <3>1, <3>2, <3>3, ServedElsewhere
  <2>3. QED
    BY <2>1, <2>2
<1>6. CASE SlowConsumer(g) \/ SinkClosed(g)
  <2>1. CASE h = g
    BY <1>6, <2>1, ServedReleases
  <2>2. CASE h # g
    <3>1. thread'[h] = thread[h] /\ events' = events /\ SameSeats
      BY <1>6, <2>2, ReleaseEffect
    <3>2. \A k \in Keys : owners[k].gen = h \/ owners'[k].gen = h => owners'[k] = owners[k]
      BY <1>6, <2>2, ReleaseEffect
    <3>3. \A c \in Clients : client[c].gen = h => client'[c] = client[c]
      <4>1. CASE SlowConsumer(g)
        <5>1. client[thread[g].sink].gen = g
          BY <4>1 DEF SlowConsumer, Reading, Serves
        <5>2. \A c \in Clients : c # thread[g].sink => client'[c] = client[c]
          BY <4>1, Types DEF SlowConsumer, HubInv
        <5>3. QED
          BY <2>2, <5>1, <5>2
      <4>2. CASE SinkClosed(g)
        BY <4>2 DEF SinkClosed
      <4>3. QED
        BY <1>6, <4>1, <4>2
    <3>4. QED
      BY <1>1, <3>1, <3>2, <3>3, ServedElsewhere DEF SameSeats
  <2>3. QED
    BY <2>1, <2>2
<1>7. CASE ChildExits(g)
  BY <1>1, <1>7, ServedElsewhere DEF ChildExits, hub
<1>8. QED
  BY <1>3, <1>4, <1>5, <1>6, <1>7 DEF ThreadStep, ThreadEvent

LEMMA ServedKeeps == ASSUME HubInv, ServedInv, [Next]_vars PROVE ServedInv'
<1>1. CASE UNCHANGED vars
  BY <1>1, ServedElsewhere DEF vars, ServedInv
<1>2. QED
  BY <1>1, ServedKeepsClient, ServedKeepsThread DEF Next

LEMMA ServedIsNotStranded == ASSUME HubInv, ServedInv PROVE StrandedOnlyInDispute
<1>1. SUFFICES ASSUME NEW g \in Generations, Stranded(g), ~ Disputed(g) PROVE FALSE
  BY DEF StrandedOnlyInDispute
<1>2. Served(g) /\ thread[g].deadline = "none" /\ events[g] = <<>>
  BY <1>1 DEF Stranded, ServedInv
<1>3. PICK k \in Keys : owners[k].gen = g /\ owners[k].conn = thread[g].conn
  BY <1>1, <1>2 DEF Served, Listed, Disputed
<1>4. \A c \in Clients : client[c].gen = g => client[c].pc = "away"
  BY <1>1 DEF Stranded, HoldsLease
<1>5. QED
  BY <1>2, <1>3, <1>4 DEF Served, NotForgotten, Attends

(* Whatever upgrades fail, arrive late or overtake one another, a serving  *)
(* thread can only be left without a client, an event and a clock while    *)
(* hub and owner hold different connections for the newest.                *)
THEOREM OnlyDisputesStrand == Spec => []StrandedOnlyInDispute
<1>1. Init => ServedInv
  BY DEF Init, ServedInv, Serving, Unborn
<1>2. HubInv /\ ServedInv /\ [Next]_vars => ServedInv'
  BY ServedKeeps
<1>3. HubInv /\ ServedInv => StrandedOnlyInDispute
  BY ServedIsNotStranded
<1>4. QED
  BY <1>1, <1>2, <1>3, HubInvariance, PTL DEF Spec
=============================================================================
