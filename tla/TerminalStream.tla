--------------------------- MODULE TerminalStream ---------------------------
(***************************************************************************)
(* The way of a child's output to a phone: the PTY's reader thread with    *)
(* its parser lock and output tap, the owner thread that drains the tap    *)
(* and queues frames, and the socket tasks that send them.                 *)
(*                                                                         *)
(* Chunks of output are numbered in the order they are read.  A socket is  *)
(* one connection and is used once.  Who may connect, the grace window and *)
(* the hub are TerminalHub's; here the owner may be told to kill its child *)
(* at any event.                                                           *)
(***************************************************************************)
EXTENDS Naturals, Sequences

CONSTANTS Sockets, Nobody,
          MaxChunks,    \* bound: chunks the child prints
          FrameChunks,  \* TERMINAL_OUTPUT_FRAME_BYTES, in chunks
          SinkFrames,   \* TERMINAL_SINK_FRAMES
          SinkBytes     \* TERMINAL_SINK_BYTES, in chunks

ASSUME StreamAssumption == /\ Nobody \notin Sockets
                           /\ MaxChunks \in Nat
                           /\ FrameChunks \in Nat \ {0}
                           /\ SinkFrames \in Nat \ {0}
                           /\ SinkBytes \in Nat \ {0}

VARIABLES written,  \* chunks the child has printed
          hungUp,   \* the child's side of the PTY is closed
          reader,   \* the reader thread
          lock,     \* who holds the parser lock
          screen,   \* chunks the parser has processed
          tap,      \* the output tap's channel
          events,   \* the owner's event channel
          owner,    \* the owner thread: where it is and its batch
          sink,     \* the socket the owner serves
          socket    \* per socket: its task, its frame queue and its phone

pty == <<written, hungUp, reader, lock, screen>>
vars == <<pty, tap, events, owner, sink, socket>>

Printed(n) == [i \in 1 .. n |-> i]

Frame(kind, chunks) == [kind |-> kind, chunks |-> chunks]
Hello == Frame("hello", <<>>)
Redraw(n) == Frame("redraw", Printed(n))
Output(chunks) == Frame("output", chunks)
Exit == Frame("exit", <<>>)

(* ServerFrame::len: a text or a redraw weighs as much as one chunk *)
Weight(frame) == IF frame.kind = "output" THEN Len(frame.chunks) ELSE 1

Closed == [pc |-> "closed", frames |-> <<>>, sending |-> <<>>, queued |-> 0,
           verdict |-> "finished", shown |-> <<>>, told |-> FALSE]

Chunks == Seq(1 .. MaxChunks)
Frames == [kind : {"hello", "redraw", "output", "exit"}, chunks : Chunks]

Connection == [pc : {"new", "open", "leaving", "closed"}, frames : Seq(Frames),
               sending : Seq(Frames), queued : Nat,
               verdict : {"finished", "replaced", "slow"},
               shown : Chunks, told : BOOLEAN]

TypeOK ==
    /\ written \in 0 .. MaxChunks
    /\ hungUp \in BOOLEAN
    /\ reader \in {"reading", "locked", "processed", "gone"}
    /\ lock \in {"free", "reader", "owner"}
    /\ screen \in 0 .. MaxChunks
    /\ tap \in Chunks
    /\ events \in Seq([kind : {"attach", "detach"}, from : Sockets])
    /\ owner \in [pc : {"forward", "events", "attached", "draining", "ending",
                        "killing", "gone"},
                  batch : Chunks]
    /\ sink \in Sockets \cup {Nobody}
    /\ socket \in [Sockets -> Connection]

Init ==
    /\ written = 0
    /\ hungUp = FALSE
    /\ reader = "reading"
    /\ lock = "free"
    /\ screen = 0
    /\ tap = <<>>
    /\ events = <<>>
    /\ owner = [pc |-> "forward", batch |-> <<>>]
    /\ sink = Nobody
    /\ socket = [s \in Sockets |-> [Closed EXCEPT !.pc = "new"]]

-----------------------------------------------------------------------------
(* The child and the PTY's reader thread *)

ChildPrints ==
    /\ ~ hungUp
    /\ written < MaxChunks
    /\ written' = written + 1
    /\ UNCHANGED <<hungUp, reader, lock, screen, tap, events, owner, sink, socket>>

ChildExits ==
    /\ ~ hungUp
    /\ hungUp' = TRUE
    /\ UNCHANGED <<written, reader, lock, screen, tap, events, owner, sink, socket>>

(* A read returns a chunk; the reader takes the parser lock *)
ReadChunk ==
    /\ reader = "reading"
    /\ screen < written
    /\ lock = "free"
    /\ reader' = "locked"
    /\ lock' = "reader"
    /\ UNCHANGED <<written, hungUp, screen, tap, events, owner, sink, socket>>

(* Mutant: the reader lets the parser go before it publishes *)
ProcessChunkUnlocks ==
    /\ reader = "locked"
    /\ screen' = screen + 1
    /\ reader' = "processed"
    /\ lock' = "free"
    /\ UNCHANGED <<written, hungUp, tap, events, owner, sink, socket>>

ProcessChunk ==
    /\ reader = "locked"
    /\ screen' = screen + 1
    /\ reader' = "processed"
    /\ UNCHANGED <<written, hungUp, lock, tap, events, owner, sink, socket>>

(* Published under the lock; without a receiver the tap is off for good *)
PublishChunk ==
    /\ reader = "processed"
    /\ tap' = IF owner.pc = "gone" THEN tap ELSE Append(tap, screen)
    /\ reader' = "reading"
    /\ lock' = "free"
    /\ UNCHANGED <<written, hungUp, screen, events, owner, sink, socket>>

(* End of file: the thread ends and the tap's sender with it *)
ReadEnd ==
    /\ reader = "reading"
    /\ hungUp
    /\ screen = written
    /\ reader' = "gone"
    /\ UNCHANGED <<written, hungUp, lock, screen, tap, events, owner, sink, socket>>

-----------------------------------------------------------------------------
(* TerminalOwnerState::queue. Too many bytes or frames release the socket  *)
(* as a slow consumer, an ended socket task releases it without a verdict. *)

(* Mutant: only the number of frames is looked at *)
OverflowsByFrames(c, frame) == c.pc # "closed" /\ Len(c.frames) = SinkFrames

Overflows(c, frame) ==
    \/ c.queued + Weight(frame) > SinkBytes
    \/ c.pc # "closed" /\ Len(c.frames) = SinkFrames

Accepts(c, frame) == ~ Overflows(c, frame) /\ c.pc # "closed"

Given(c, frame) ==
    IF Accepts(c, frame)
    THEN [c EXCEPT !.frames = Append(@, frame), !.queued = @ + Weight(frame)]
    ELSE [c EXCEPT !.verdict = IF Overflows(c, frame) THEN "slow" ELSE @]

Offered(frame) == IF sink = Nobody THEN socket
                                   ELSE [socket EXCEPT ![sink] = Given(@, frame)]

Queue(frame) ==
    /\ socket' = Offered(frame)
    /\ sink' = IF sink # Nobody /\ Accepts(socket[sink], frame) THEN sink ELSE Nobody

-----------------------------------------------------------------------------
(* forward_output: a batch goes out when it is large enough and when the   *)
(* tap is empty                                                            *)
Collect ==
    LET batch == Append(owner.batch, Head(tap)) IN
    /\ owner.pc = "forward"
    /\ tap # <<>>
    /\ tap' = Tail(tap)
    /\ IF Len(batch) >= FrameChunks
       THEN Queue(Output(batch)) /\ owner' = [owner EXCEPT !.batch = <<>>]
       ELSE owner' = [owner EXCEPT !.batch = batch] /\ UNCHANGED <<sink, socket>>
    /\ UNCHANGED <<pty, events>>

(* Mutant: what was collected when the tap closed is forgotten *)
FlushWhileOpen == IF owner.batch = <<>> \/ reader = "gone"
                  THEN UNCHANGED <<sink, socket>>
                  ELSE Queue(Output(owner.batch))

Flush == IF owner.batch = <<>> THEN UNCHANGED <<sink, socket>> ELSE Queue(Output(owner.batch))

(* A closed tap is the child's end, an empty one sends the owner to its    *)
(* deadline and its events                                                 *)
ForwardEnds ==
    /\ owner.pc = "forward"
    /\ tap = <<>>
    /\ Flush
    /\ owner' = [pc |-> IF reader = "gone" THEN "ending" ELSE "events", batch |-> <<>>]
    /\ UNCHANGED <<pty, tap, events>>

(* finish_exited_terminal: the sink is dropped behind the exit frame *)
Finish ==
    /\ owner.pc = "ending"
    /\ socket' = Offered(Exit)
    /\ sink' = Nobody
    /\ owner' = [owner EXCEPT !.pc = "gone"]
    /\ events' = <<>>
    /\ UNCHANGED <<pty, tap>>

TimedOut ==
    /\ owner.pc = "events"
    /\ events = <<>>
    /\ owner' = [owner EXCEPT !.pc = "forward"]
    /\ UNCHANGED <<pty, tap, events, sink, socket>>

(* The takeover, up to the hello *)
Attach ==
    LET next == Head(events).from IN
    /\ owner.pc = "events"
    /\ events # <<>>
    /\ Head(events).kind = "attach"
    /\ events' = Tail(events)
    /\ socket' = [s \in Sockets |->
                    IF s = next THEN Given(socket[s], Hello)
                    ELSE IF s = sink THEN [socket[s] EXCEPT !.verdict = "replaced"]
                    ELSE socket[s]]
    /\ sink' = IF Accepts(socket[next], Hello) THEN next ELSE Nobody
    /\ owner' = [owner EXCEPT !.pc = "attached"]
    /\ UNCHANGED <<pty, tap>>

(* with_screen takes the parser lock for the drain and the snapshot *)
LockScreen ==
    /\ owner.pc = "attached"
    /\ lock = "free"
    /\ lock' = "owner"
    /\ owner' = [owner EXCEPT !.pc = "draining"]
    /\ UNCHANGED <<written, hungUp, reader, screen, tap, events, sink, socket>>

DrainOne ==
    /\ owner.pc = "draining"
    /\ tap # <<>>
    /\ tap' = Tail(tap)
    /\ UNCHANGED <<pty, events, owner, sink, socket>>

Paint ==
    /\ owner.pc = "draining"
    /\ tap = <<>>
    /\ lock' = "free"
    /\ Queue(Redraw(screen))
    /\ owner' = [owner EXCEPT !.pc = IF reader = "gone" THEN "ending" ELSE "forward"]
    /\ UNCHANGED <<written, hungUp, reader, screen, tap, events>>

(* Only the detach of the socket that is served counts *)
Detach ==
    /\ owner.pc = "events"
    /\ events # <<>>
    /\ Head(events).kind = "detach"
    /\ events' = Tail(events)
    /\ sink' = IF sink = Head(events).from THEN Nobody ELSE sink
    /\ owner' = [owner EXCEPT !.pc = "forward"]
    /\ UNCHANGED <<pty, tap, socket>>

(* The grace window closes or the phone asks for it: PtySession::kill ends  *)
(* the child, and the owner returns although a grandchild may keep the PTY *)
Expire ==
    /\ owner.pc = "events"
    /\ owner' = [owner EXCEPT !.pc = "killing"]
    /\ UNCHANGED <<pty, tap, events, sink, socket>>

Kill ==
    /\ owner.pc = "killing"
    /\ hungUp' \in {hungUp, TRUE}
    /\ owner' = [owner EXCEPT !.pc = "gone"]
    /\ sink' = Nobody
    /\ tap' = <<>>
    /\ events' = <<>>
    /\ UNCHANGED <<written, reader, lock, screen, socket>>

-----------------------------------------------------------------------------
(* The socket task and the phone behind it *)

(* Mutant: the event's kind and sender are swapped *)
SendSwapped(kind, s) == events' = IF owner.pc = "gone" THEN events
                                  ELSE Append(events, [kind |-> s, from |-> kind])

Send(kind, s) == events' = IF owner.pc = "gone" THEN events
                           ELSE Append(events, [kind |-> kind, from |-> s])

Connect(s) ==
    /\ socket[s].pc = "new"
    /\ socket' = [socket EXCEPT ![s].pc = IF owner.pc = "gone" THEN "closed" ELSE "open"]
    /\ Send("attach", s)
    /\ UNCHANGED <<pty, tap, owner, sink>>

TakeFrame(s) ==
    /\ socket[s].pc = "open"
    /\ socket[s].sending = <<>>
    /\ socket[s].frames # <<>>
    /\ socket' = [socket EXCEPT ![s].frames = Tail(@),
                                ![s].sending = <<Head(socket[s].frames)>>]
    /\ UNCHANGED <<pty, tap, events, owner, sink>>

(* The frame is on the wire and the phone prints it *)
Shows(c, frame) ==
    CASE frame.kind = "redraw" -> [c EXCEPT !.shown = frame.chunks]
      [] frame.kind = "output" -> [c EXCEPT !.shown = @ \o frame.chunks]
      [] frame.kind = "exit" -> [c EXCEPT !.told = TRUE]
      [] OTHER -> c

Sent(s) ==
    LET c == socket[s]
        frame == Head(c.sending) IN
    /\ c.sending # <<>>
    /\ socket' = [socket EXCEPT ![s] =
                    [Shows(c, frame) EXCEPT !.sending = <<>>,
                                            !.queued = c.queued - Weight(frame)]]
    /\ UNCHANGED <<pty, tap, events, owner, sink>>

SendFails(s) ==
    /\ socket[s].sending # <<>>
    /\ socket' = [socket EXCEPT ![s].sending = <<>>,
                                ![s].queued = @ - Weight(Head(socket[s].sending)),
                                ![s].pc = "leaving"]
    /\ UNCHANGED <<pty, tap, events, owner, sink>>

(* The phone hangs up or stays silent too long *)
Leave(s) ==
    /\ socket[s].pc = "open"
    /\ socket[s].sending = <<>>
    /\ socket' = [socket EXCEPT ![s].pc = "leaving"]
    /\ UNCHANGED <<pty, tap, events, owner, sink>>

(* The task ends: its frame queue goes with it *)
SendDetach(s) ==
    /\ socket[s].pc = "leaving"
    /\ socket' = [socket EXCEPT ![s].pc = "closed", ![s].frames = <<>>]
    /\ Send("detach", s)
    /\ UNCHANGED <<pty, tap, owner, sink>>

SinkDropped(s) ==
    /\ sink # s
    /\ \A i \in DOMAIN events : events[i] # [kind |-> "attach", from |-> s]

(* close_released_terminal, when the queue is empty and its sender gone *)
Released(s) ==
    /\ socket[s].pc = "open"
    /\ socket[s].sending = <<>>
    /\ socket[s].frames = <<>>
    /\ SinkDropped(s)
    /\ socket' = [socket EXCEPT ![s].pc = IF socket[s].verdict = "slow"
                                          THEN "leaving" ELSE "closed"]
    /\ UNCHANGED <<pty, tap, events, owner, sink>>

-----------------------------------------------------------------------------
ReaderStep == ReadChunk \/ ProcessChunk \/ PublishChunk \/ ReadEnd

OwnerStep ==
    \/ Collect
    \/ ForwardEnds
    \/ Finish
    \/ TimedOut
    \/ Attach
    \/ LockScreen
    \/ DrainOne
    \/ Paint
    \/ Detach
    \/ Kill

SocketStep(s) ==
    \/ TakeFrame(s)
    \/ Sent(s)
    \/ SendDetach(s)
    \/ Released(s)

SocketEvent(s) ==
    \/ Connect(s)
    \/ SendFails(s)
    \/ Leave(s)

Next ==
    \/ ChildPrints
    \/ ChildExits
    \/ ReaderStep
    \/ OwnerStep
    \/ Expire
    \/ \E s \in Sockets : SocketStep(s) \/ SocketEvent(s)

Spec == Init /\ [][Next]_vars

(* Threads and tasks are scheduled, and a phone that stays reads *)
Fairness == /\ WF_vars(ReaderStep)
            /\ WF_vars(OwnerStep)
            /\ \A s \in Sockets : WF_vars(SocketStep(s))

FairSpec == Spec /\ Fairness

-----------------------------------------------------------------------------
(* Refinement: "a chunk is either already rendered into the snapshot and   *)
(* then drained, or still on the tap and streamed after it - never both":  *)
(* what a phone shows is the terminal's screen at some moment, through     *)
(* takeovers, batches and the child's end, and the exit frame comes only   *)
(* when everything is shown.                                               *)
Mirror == INSTANCE ScreenMirror
            WITH screen <- screen,
                 over <- reader = "gone",
                 shown <- [s \in Sockets |-> socket[s].shown],
                 told <- {s \in Sockets : socket[s].told}

ImplementsScreenMirror == Mirror!Spec

(* Safety: "a client that stops reading must not let a chatty child grow   *)
(* this queue without limit": what waits for one socket, the frame on the  *)
(* wire included, stays within both caps although owner and socket task    *)
(* count it from two threads.                                              *)
(* Weighs: rest[i] is the weight of the frames behind the first i.         *)
Weighs(frames, rest) ==
    /\ rest[Len(frames)] = 0
    /\ \A i \in 1 .. Len(frames) : rest[i - 1] = rest[i] + Weight(frames[i])

OnTheWire(c) == IF c.sending = <<>> THEN 0 ELSE Weight(c.sending[1])

QueueIsBounded ==
    \A s \in Sockets :
        /\ Len(socket[s].frames) <= SinkFrames
        /\ \E rest \in [0 .. Len(socket[s].frames) -> 0 .. SinkBytes] :
             /\ Weighs(socket[s].frames, rest)
             /\ rest[0] + OnTheWire(socket[s]) <= SinkBytes

(* Liveness: a phone that stays is shown all that was printed, again and   *)
(* again, and is told of the child's end, unless it leaves, is replaced,   *)
(* is cut off as a slow consumer, or its terminal is killed.               *)
Served(s) == sink = s /\ socket[s].pc = "open"
Excused(s) == \/ socket[s].verdict # "finished"
              \/ socket[s].pc = "leaving"
              \/ owner.pc = "killing"

PhoneCatchesUp ==
    \A s \in Sockets :
        /\ Served(s) ~> (Len(socket[s].shown) = screen \/ Excused(s))
        /\ (Served(s) /\ hungUp) ~> (socket[s].told \/ Excused(s))
=============================================================================
