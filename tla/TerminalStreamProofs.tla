------------------------ MODULE TerminalStreamProofs ------------------------
(***************************************************************************)
(* Proofs about the way of output to the phones, for any sockets, any      *)
(* number of chunks and any positive caps.                                 *)
(*                                                                         *)
(* The chunks the parser has processed are, in this order, those the owner *)
(* has passed, its batch, the tap, and the one in the reader's hands.  The *)
(* frames of a connection are a path of screens from the one its phone     *)
(* shows to the one the owner has passed; an owner between hello and       *)
(* redraw is exempt, the redraw takes a phone there from anywhere.         *)
(***************************************************************************)
EXTENDS TerminalStream, Integers, SequenceTheorems, TLAPS

-----------------------------------------------------------------------------
(* The reader, the tap and the owner's batch                               *)

(* Either thread works on the screen only with the parser's lock *)
LockIsHonoured ==
    /\ lock = "reader" <=> reader \in {"locked", "processed"}
    /\ lock = "owner" <=> owner.pc = "draining"

(* The screen is made of what the child printed, and once the reader's     *)
(* thread is gone of all of it                                             *)
ScreenIsRead ==
    /\ screen <= written
    /\ reader = "locked" => screen < written
    /\ reader = "processed" => screen > 0

(* Chunks on the tap so far: the chunk in the reader's hands is not        *)
Published == IF reader = "processed" THEN screen - 1 ELSE screen

(* Chunks the owner has behind it, in a frame or in a redraw *)
Passed == Published - Len(tap) - Len(owner.batch)

(* Batch and tap hold, in order, every chunk the owner has not passed      *)
ChunksInOrder ==
    owner.pc # "gone" =>
        /\ Passed >= 0
        /\ \A i \in 1 .. Len(owner.batch) : owner.batch[i] = Passed + i
        /\ \A i \in 1 .. Len(tap) : tap[i] = Published - Len(tap) + i

OwnerInPlace ==
    /\ owner.pc # "forward" => owner.batch = <<>>
    /\ owner.pc = "ending" => reader = "gone" /\ tap = <<>>
    /\ owner.pc = "gone" => sink = Nobody

-----------------------------------------------------------------------------
(* The frames on their way to one phone                                    *)

(* A frame takes a phone that shows the first a chunks to the first b *)
Leads(frame, a, b) ==
    CASE frame.kind = "redraw" -> frame.chunks = Printed(b) /\ a <= b
      [] frame.kind = "output" -> /\ b = a + Len(frame.chunks)
                                  /\ \A i \in 1 .. Len(frame.chunks) : frame.chunks[i] = a + i
      [] OTHER -> b = a

(* The phone shows the first a chunks, the frame on the wire takes it to   *)
(* path[0], and the queued ones from there to the path's end               *)
IsPath(c, a, path) ==
    /\ c.shown = Printed(a)
    /\ IF c.sending = <<>> THEN path[0] = a ELSE Leads(c.sending[1], a, path[0])
    /\ \A i \in 1 .. Len(c.frames) : Leads(c.frames[i], path[i - 1], path[i])

HasExit(c) == \/ \E i \in 1 .. Len(c.frames) : c.frames[i].kind = "exit"
              \/ c.sending # <<>> /\ c.sending[1].kind = "exit"

(* An owner that is not about to redraw continues where the path ends, and *)
(* the exit frame is queued behind the whole screen                        *)
Continues(s, end) ==
    /\ sink = s /\ owner.pc \notin {"attached", "draining"} => end = Passed
    /\ HasExit(socket[s]) => reader = "gone" /\ end = screen

PathOf(s) ==
    \E a \in 0 .. screen, path \in [0 .. Len(socket[s].frames) -> 0 .. screen] :
        /\ IsPath(socket[s], a, path)
        /\ Continues(s, path[Len(socket[s].frames)])

ShowsTheScreen(s) == \E a \in 0 .. screen : socket[s].shown = Printed(a)

OneOnTheWire(c) == /\ Len(c.sending) <= 1
                   /\ c.pc # "open" => c.sending = <<>>

(* Nothing follows the exit frame, which is the owner's last *)
ExitIsLast(c) ==
    /\ \A i \in 1 .. Len(c.frames) : c.frames[i].kind = "exit" => i = Len(c.frames)
    /\ c.sending # <<>> /\ c.sending[1].kind = "exit" => c.frames = <<>>
    /\ c.told => c.frames = <<>> /\ c.sending = <<>>

Told(c) == c.told \/ HasExit(c)

(* queued is what the frames weigh, and within its cap *)
CountIsExact(c) ==
    /\ Len(c.frames) <= SinkFrames
    /\ c.queued <= SinkBytes
    /\ \E rest \in [0 .. Len(c.frames) -> Nat] :
         /\ Weighs(c.frames, rest)
         /\ \A i, j \in 0 .. Len(c.frames) : i <= j => rest[j] <= rest[i]
         /\ c.queued = rest[0] + OnTheWire(c)

FramesInv(c) ==
    /\ OneOnTheWire(c)
    /\ ExitIsLast(c)
    /\ \/ CountIsExact(c)
       \/ c.pc = "closed" /\ c.frames = <<>>

SocketInv(s) ==
    /\ FramesInv(socket[s])
    /\ Told(socket[s]) => owner.pc = "gone"
    /\ ShowsTheScreen(s)
    /\ socket[s].pc \in {"new", "open"} => PathOf(s)

ThreadsInv == LockIsHonoured /\ ScreenIsRead /\ ChunksInOrder /\ OwnerInPlace

StreamInv == TypeOK /\ ThreadsInv /\ \A s \in Sockets : SocketInv(s)

-----------------------------------------------------------------------------
(* Frames and what they weigh *)

LEMMA PrintedTyped ==
    ASSUME NEW n \in 0 .. MaxChunks
    PROVE  /\ Printed(n) \in Chunks
           /\ Len(Printed(n)) = n
           /\ \A i \in 1 .. n : Printed(n)[i] = i
<1>1. n \in Nat /\ \A i \in 1 .. n : i \in 1 .. MaxChunks
  BY StreamAssumption
<1>2. Printed(n) \in [1 .. n -> 1 .. MaxChunks]
  BY <1>1 DEF Printed
<1>3. Printed(n) \in Chunks
  BY <1>1, <1>2, SeqDef DEF Chunks
<1>4. QED
  BY <1>1, <1>3 DEF Printed, Chunks

LEMMA FramesTyped ==
    /\ Hello \in Frames /\ Hello.kind = "hello"
    /\ Exit \in Frames /\ Exit.kind = "exit"
    /\ \A n \in 0 .. MaxChunks :
         Redraw(n) \in Frames /\ Redraw(n).kind = "redraw" /\ Redraw(n).chunks = Printed(n)
    /\ \A chunks \in Chunks :
         Output(chunks) \in Frames /\ Output(chunks).kind = "output"
             /\ Output(chunks).chunks = chunks
<1>1. <<>> \in Chunks
  BY DEF Chunks
<1>2. QED
  BY <1>1, PrintedTyped DEF Hello, Exit, Redraw, Output, Frame, Frames

LEMMA WeightTyped ==
    ASSUME NEW f \in Frames
    PROVE  Weight(f) \in Nat
  BY DEF Weight, Frames, Chunks

(* A queued frame is appended and counted, or refused without a trace but  *)
(* the verdict                                                             *)
LEMMA GivenFields ==
    ASSUME NEW c \in Connection, NEW f \in Frames
    PROVE  /\ Given(c, f) \in Connection
           /\ Given(c, f).pc = c.pc
           /\ Given(c, f).sending = c.sending
           /\ Given(c, f).shown = c.shown
           /\ Given(c, f).told = c.told
           /\ Accepts(c, f) => /\ Given(c, f).frames = Append(c.frames, f)
                               /\ Given(c, f).queued = c.queued + Weight(f)
           /\ ~ Accepts(c, f) => /\ Given(c, f).frames = c.frames
                                 /\ Given(c, f).queued = c.queued
<1>1. CASE Accepts(c, f)
  <2>1. Given(c, f) = [c EXCEPT !.frames = Append(c.frames, f),
                                !.queued = c.queued + Weight(f)]
    BY <1>1 DEF Given
  <2>2. Append(c.frames, f) \in Seq(Frames) /\ c.queued + Weight(f) \in Nat
    BY WeightTyped DEF Connection
  <2>3. QED
    BY <1>1, <2>1, <2>2 DEF Connection
<1>2. CASE ~ Accepts(c, f)
  <2>1. \E v \in {"slow", c.verdict} : Given(c, f) = [c EXCEPT !.verdict = v]
    BY <1>2 DEF Given
  <2>2. QED
    BY <1>2, <2>1 DEF Connection
<1>3. QED
  BY <1>1, <1>2

-----------------------------------------------------------------------------
(* What happens to one connection's frames                                 *)

(* The fields the owner and the socket task share *)
SameFrames(c, d) == /\ d.frames = c.frames
                    /\ d.sending = c.sending
                    /\ d.queued = c.queued
                    /\ d.shown = c.shown
                    /\ d.told = c.told

LEMMA AppendFacts ==
    ASSUME NEW c \in Connection, NEW f \in Frames
    PROVE  /\ Len(c.frames) \in Nat
           /\ Len(Append(c.frames, f)) = Len(c.frames) + 1
           /\ \A i \in 1 .. Len(c.frames) : Append(c.frames, f)[i] = c.frames[i]
           /\ Append(c.frames, f)[Len(c.frames) + 1] = f
  BY DEF Connection

LEMMA TakeFacts ==
    ASSUME NEW c \in Connection, c.frames # <<>>
    PROVE  /\ Len(c.frames) \in Nat \ {0}
           /\ Len(Tail(c.frames)) = Len(c.frames) - 1
           /\ \A i \in 1 .. Len(c.frames) - 1 : Tail(c.frames)[i] = c.frames[i + 1]
           /\ Head(c.frames) = c.frames[1]
           /\ c.frames[1] \in Frames
           /\ Tail(c.frames) \in Seq(Frames)
  BY DEF Connection

LEMMA WireTyped ==
    ASSUME NEW c \in Connection
    PROVE  /\ Len(c.sending) \in Nat
           /\ c.sending # <<>> => /\ c.sending[1] \in Frames
                                  /\ Head(c.sending) = c.sending[1]
                                  /\ OnTheWire(c) = Weight(c.sending[1])
           /\ c.sending = <<>> => OnTheWire(c) = 0
           /\ OnTheWire(c) \in Nat
<1>1. /\ Len(c.sending) \in Nat
      /\ c.sending # <<>> => c.sending[1] \in Frames /\ Head(c.sending) = c.sending[1]
  BY DEF Connection
<1>2. QED
  BY <1>1, WeightTyped DEF OnTheWire

(* A frame that leads on lengthens the path *)
LEMMA PathGrows ==
    ASSUME NEW c \in Connection, NEW d \in Connection, NEW f \in Frames,
           d.frames = Append(c.frames, f), d.sending = c.sending, d.shown = c.shown,
           NEW n \in Nat, NEW a, NEW path \in [0 .. Len(c.frames) -> 0 .. n],
           IsPath(c, a, path), NEW b \in 0 .. n, Leads(f, path[Len(c.frames)], b)
    PROVE  \E longer \in [0 .. Len(d.frames) -> 0 .. n] :
              IsPath(d, a, longer) /\ longer[Len(d.frames)] = b
<1> DEFINE m == Len(c.frames)
           longer == [i \in 0 .. m + 1 |-> IF i = m + 1 THEN b ELSE path[i]]
<1>1. /\ m \in Nat /\ Len(d.frames) = m + 1
      /\ \A i \in 1 .. m : d.frames[i] = c.frames[i]
      /\ d.frames[m + 1] = f
  BY AppendFacts
<1>2. longer \in [0 .. Len(d.frames) -> 0 .. n]
  BY <1>1
<1>3. /\ \A i \in 0 .. m : longer[i] = path[i]
      /\ longer[m + 1] = b
  BY <1>1
<1> HIDE DEF longer
<1>4. ASSUME NEW i \in 1 .. m + 1 PROVE Leads(d.frames[i], longer[i - 1], longer[i])
  <2>1. CASE i = m + 1
    BY <1>1, <1>3, <2>1
  <2>2. CASE i \in 1 .. m
    <3>1. d.frames[i] = c.frames[i] /\ longer[i - 1] = path[i - 1] /\ longer[i] = path[i]
      BY <1>1, <1>3, <2>2
    <3>2. Leads(c.frames[i], path[i - 1], path[i])
      BY <2>2 DEF IsPath
    <3>3. QED
      BY <3>1, <3>2
  <2>3. QED
    BY <1>1, <2>1, <2>2
<1>5. longer[0] = path[0]
  BY <1>1, <1>3
<1>6. IsPath(d, a, longer)
  BY <1>1, <1>4, <1>5 DEF IsPath
<1>7. QED
  BY <1>1, <1>2, <1>3, <1>6

(* A frame that is taken from the queue is the path's next step *)
LEMMA PathIsTaken ==
    ASSUME NEW c \in Connection, NEW d \in Connection,
           c.sending = <<>>, c.frames # <<>>,
           d.frames = Tail(c.frames), d.sending = <<Head(c.frames)>>, d.shown = c.shown,
           NEW n \in Nat, NEW a, NEW path \in [0 .. Len(c.frames) -> 0 .. n],
           IsPath(c, a, path)
    PROVE  \E shorter \in [0 .. Len(d.frames) -> 0 .. n] :
              IsPath(d, a, shorter) /\ shorter[Len(d.frames)] = path[Len(c.frames)]
<1> DEFINE m == Len(c.frames)
           shorter == [i \in 0 .. m - 1 |-> path[i + 1]]
<1>1. /\ m \in Nat \ {0} /\ Len(d.frames) = m - 1
      /\ \A i \in 1 .. m - 1 : d.frames[i] = c.frames[i + 1]
      /\ d.sending # <<>> /\ d.sending[1] = c.frames[1]
  BY TakeFacts
<1>2. shorter \in [0 .. Len(d.frames) -> 0 .. n]
  BY <1>1
<1>3. \A i \in 0 .. m - 1 : shorter[i] = path[i + 1]
  BY <1>1
<1> HIDE DEF shorter
<1>4. ASSUME NEW i \in 1 .. m - 1 PROVE Leads(d.frames[i], shorter[i - 1], shorter[i])
  <2>1. /\ d.frames[i] = c.frames[i + 1]
        /\ shorter[i - 1] = path[i] /\ shorter[i] = path[i + 1]
    BY <1>1, <1>3
  <2>2. Leads(c.frames[i + 1], path[(i + 1) - 1], path[i + 1])
    BY <1>1 DEF IsPath
  <2>3. (i + 1) - 1 = i
    OBVIOUS
  <2>4. QED
    BY <2>1, <2>2, <2>3
<1>5. Leads(d.sending[1], a, shorter[0])
  <2>1. Leads(c.frames[1], path[1 - 1], path[1])
    BY <1>1 DEF IsPath
  <2>2. path[1 - 1] = a /\ shorter[0] = path[1]
    BY <1>1, <1>3 DEF IsPath
  <2>3. QED
    BY <1>1, <2>1, <2>2
<1>6. IsPath(d, a, shorter)
  BY <1>1, <1>4, <1>5 DEF IsPath
<1>7. shorter[m - 1] = path[m]
  BY <1>1, <1>3
<1>8. QED
  BY <1>1, <1>2, <1>6, <1>7

LEMMA ShowsFields ==
    ASSUME NEW c \in Connection, NEW f \in Frames
    PROVE  /\ Shows(c, f) \in Connection
           /\ Shows(c, f).pc = c.pc
           /\ Shows(c, f).frames = c.frames
           /\ Shows(c, f).queued = c.queued
           /\ f.kind = "redraw" => Shows(c, f).shown = f.chunks
           /\ f.kind = "output" => Shows(c, f).shown = c.shown \o f.chunks
           /\ f.kind \in {"hello", "exit"} => Shows(c, f).shown = c.shown
           /\ Shows(c, f).told <=> c.told \/ f.kind = "exit"
<1>1. f.kind \in {"hello", "redraw", "output", "exit"} /\ f.chunks \in Chunks
  BY DEF Frames
<1>2. c.shown \o f.chunks \in Chunks
  BY <1>1 DEF Connection, Chunks
<1>3. CASE f.kind = "redraw"
  BY <1>1, <1>3 DEF Shows, Connection
<1>4. CASE f.kind = "output"
  <2>1. Shows(c, f) = [c EXCEPT !.shown = c.shown \o f.chunks]
    BY <1>4 DEF Shows
  <2>2. QED
    BY <1>2, <1>4, <2>1 DEF Connection
<1>5. CASE f.kind = "exit"
  BY <1>5 DEF Shows, Connection
<1>6. CASE f.kind = "hello"
  BY <1>6 DEF Shows, Connection
<1>7. QED
  BY <1>1, <1>3, <1>4, <1>5, <1>6

LEMMA PrintedJoins ==
    ASSUME NEW a \in 0 .. MaxChunks, NEW b \in 0 .. MaxChunks, NEW chunks \in Chunks,
           b = a + Len(chunks), \A i \in 1 .. Len(chunks) : chunks[i] = a + i
    PROVE  Printed(a) \o chunks = Printed(b)
<1> DEFINE S == 1 .. MaxChunks
<1>1. Printed(a) \in Seq(S) /\ chunks \in Seq(S) /\ Printed(b) \in Seq(S)
  BY PrintedTyped DEF Chunks
<1>2. Len(Printed(a)) = a /\ Len(Printed(b)) = b
  BY PrintedTyped
<1>3. /\ Printed(a) \o chunks \in Seq(S)
      /\ Len(Printed(a) \o chunks) = a + Len(chunks)
      /\ \A i \in 1 .. a + Len(chunks) :
           (Printed(a) \o chunks)[i] = IF i <= a THEN Printed(a)[i] ELSE chunks[i - a]
  BY <1>1, <1>2, ConcatProperties
<1>4. Len(chunks) \in Nat /\ a \in Nat /\ b \in Nat
  BY StreamAssumption DEF Chunks
<1>5. ASSUME NEW i \in 1 .. b PROVE (Printed(a) \o chunks)[i] = Printed(b)[i]
  <2>1. Printed(b)[i] = i
    BY <1>5, PrintedTyped
  <2>2. CASE i <= a
    <3>1. Printed(a)[i] = i
      BY <1>4, <2>2, PrintedTyped
    <3>2. QED
      BY <1>3, <2>1, <2>2, <3>1
  <2>3. CASE ~ (i <= a)
    <3>1. i - a \in 1 .. Len(chunks)
      BY <1>4, <2>3
    <3>2. chunks[i - a] = a + (i - a)
      BY <3>1
    <3>3. a + (i - a) = i
      BY <1>4
    <3>4. QED
      BY <1>3, <2>1, <2>3, <3>2, <3>3
  <2>4. QED
    BY <2>2, <2>3
<1> HIDE DEF S
<1>6. QED
  BY <1>1, <1>2, <1>3, <1>5, SeqEqual

(* Printing the frame on the wire takes the phone to where the path goes on *)
LEMMA PathIsShown ==
    ASSUME NEW c \in Connection, c.sending # <<>>,
           NEW n \in 0 .. MaxChunks, NEW a \in 0 .. n,
           NEW path \in [0 .. Len(c.frames) -> 0 .. n], IsPath(c, a, path)
    PROVE  /\ a <= path[0]
           /\ Shows(c, Head(c.sending)).shown = Printed(path[0])
<1> DEFINE f == Head(c.sending)
           b == path[0]
<1>1. f = c.sending[1] /\ f \in Frames
  BY WireTyped
<1>2. n \in Nat /\ 0 .. n \subseteq 0 .. MaxChunks
  BY StreamAssumption
<1>3. a \in 0 .. MaxChunks /\ b \in 0 .. MaxChunks
  BY <1>2 DEF Connection
<1>4. c.shown = Printed(a) /\ Leads(f, a, b)
  BY <1>1 DEF IsPath
<1>5. f.kind \in {"hello", "redraw", "output", "exit"} /\ f.chunks \in Chunks
  BY <1>1 DEF Frames
<1> HIDE DEF f, b
<1>6. a <= b /\ Shows(c, f).shown = Printed(b)
  <2>1. CASE f.kind = "redraw"
    BY <1>1, <1>4, <2>1, ShowsFields DEF Leads
  <2>2. CASE f.kind = "output"
    <3>1. b = a + Len(f.chunks) /\ \A i \in 1 .. Len(f.chunks) : f.chunks[i] = a + i
      BY <1>4, <2>2 DEF Leads
    <3>2. Printed(a) \o f.chunks = Printed(b)
      BY <1>3, <1>5, <3>1, PrintedJoins
    <3>3. a <= b
      BY <1>3, <1>5, <3>1, StreamAssumption DEF Chunks
    <3>4. Shows(c, f).shown = c.shown \o f.chunks
      BY <1>1, <2>2, ShowsFields
    <3>5. QED
      BY <1>4, <3>2, <3>3, <3>4
  <2>3. CASE f.kind \in {"hello", "exit"}
    <3>1. b = a
      BY <1>4, <2>3 DEF Leads
    <3>2. QED
      BY <1>1, <1>3, <1>4, <2>3, <3>1, ShowsFields, StreamAssumption
  <2>4. QED
    BY <1>5, <2>1, <2>2, <2>3
<1>7. QED
  BY <1>6 DEF f, b

(* The count follows what is queued ... *)
LEMMA CountGrows ==
    ASSUME NEW c \in Connection, NEW f \in Frames, NEW d \in Connection,
           CountIsExact(c), Accepts(c, f),
           d.frames = Append(c.frames, f), d.sending = c.sending,
           d.queued = c.queued + Weight(f)
    PROVE  CountIsExact(d)
<1> DEFINE m == Len(c.frames)
           w == Weight(f)
<1>1. PICK rest \in [0 .. m -> Nat] :
        /\ Weighs(c.frames, rest)
        /\ \A i, j \in 0 .. m : i <= j => rest[j] <= rest[i]
        /\ c.queued = rest[0] + OnTheWire(c)
  BY DEF CountIsExact
<1> DEFINE more == [i \in 0 .. m + 1 |-> IF i = m + 1 THEN 0 ELSE rest[i] + w]
<1>2. /\ m \in Nat /\ Len(d.frames) = m + 1
      /\ \A i \in 1 .. m : d.frames[i] = c.frames[i]
      /\ d.frames[m + 1] = f
  BY AppendFacts
<1>3. w \in Nat
  BY WeightTyped
<1>4. more \in [0 .. m + 1 -> Nat]
  BY <1>2, <1>3
<1>5. /\ \A i \in 0 .. m : more[i] = rest[i] + w
      /\ more[m + 1] = 0
  BY <1>2
<1> HIDE DEF more
<1>6. ASSUME NEW i \in 1 .. m + 1 PROVE more[i - 1] = more[i] + Weight(d.frames[i])
  <2>1. CASE i = m + 1
    <3>1. rest[m] = 0
      BY <1>1 DEF Weighs
    <3>2. QED
      BY <1>2, <1>3, <1>5, <2>1, <3>1
  <2>2. CASE i \in 1 .. m
    <3>1. rest[i - 1] = rest[i] + Weight(c.frames[i])
      BY <1>1, <2>2 DEF Weighs
    <3>2. more[i - 1] = rest[i - 1] + w /\ more[i] = rest[i] + w /\ d.frames[i] = c.frames[i]
      BY <1>2, <1>5, <2>2
    <3>3. rest[i] \in Nat /\ Weight(c.frames[i]) \in Nat
      BY <1>2, <2>2, WeightTyped DEF Connection
    <3>4. QED
      BY <1>3, <3>1, <3>2, <3>3
  <2>3. QED
    BY <1>2, <2>1, <2>2
<1>7. ASSUME NEW i \in 0 .. m + 1, NEW j \in 0 .. m + 1, i <= j PROVE more[j] <= more[i]
  <2>1. CASE j = m + 1
    BY <1>2, <1>4, <1>5, <2>1
  <2>2. CASE j # m + 1
    <3>1. i \in 0 .. m /\ j \in 0 .. m
      BY <1>2, <1>7, <2>2
    <3>2. rest[j] <= rest[i] /\ rest[i] \in Nat /\ rest[j] \in Nat
      BY <1>1, <1>7, <3>1
    <3>3. QED
      BY <1>3, <1>5, <3>1, <3>2
  <2>3. QED
    BY <2>1, <2>2
<1>8. d.queued = more[0] + OnTheWire(d)
  <2>1. OnTheWire(d) = OnTheWire(c) /\ OnTheWire(c) \in Nat
    BY WireTyped DEF OnTheWire
  <2>2. rest[0] \in Nat /\ more[0] = rest[0] + w
    BY <1>2, <1>5
  <2>3. QED
    BY <1>1, <1>3, <2>1, <2>2
<1>9. Len(d.frames) <= SinkFrames /\ d.queued <= SinkBytes
  BY <1>2, <1>3, StreamAssumption DEF CountIsExact, Accepts, Overflows, Connection
<1>10. Weighs(d.frames, more)
  BY <1>2, <1>5, <1>6 DEF Weighs
<1>11. QED
  BY <1>2, <1>4, <1>7, <1>8, <1>9, <1>10 DEF CountIsExact

(* ... is the same for a frame that moves to the wire ... *)
LEMMA CountIsTaken ==
    ASSUME NEW c \in Connection, NEW d \in Connection, CountIsExact(c),
           c.sending = <<>>, c.frames # <<>>,
           d.frames = Tail(c.frames), d.sending = <<Head(c.frames)>>, d.queued = c.queued
    PROVE  CountIsExact(d)
<1> DEFINE m == Len(c.frames)
<1>1. PICK rest \in [0 .. m -> Nat] :
        /\ Weighs(c.frames, rest)
        /\ \A i, j \in 0 .. m : i <= j => rest[j] <= rest[i]
        /\ c.queued = rest[0] + OnTheWire(c)
  BY DEF CountIsExact
<1> DEFINE less == [i \in 0 .. m - 1 |-> rest[i + 1]]
<1>2. /\ m \in Nat \ {0} /\ Len(d.frames) = m - 1
      /\ \A i \in 1 .. m - 1 : d.frames[i] = c.frames[i + 1]
      /\ c.frames[1] \in Frames
      /\ OnTheWire(d) = Weight(c.frames[1]) /\ OnTheWire(c) = 0
  BY TakeFacts DEF OnTheWire
<1>3. less \in [0 .. m - 1 -> Nat] /\ \A i \in 0 .. m - 1 : less[i] = rest[i + 1]
  BY <1>2
<1> HIDE DEF less
<1>4. ASSUME NEW i \in 1 .. m - 1 PROVE less[i - 1] = less[i] + Weight(d.frames[i])
  <2>1. rest[(i + 1) - 1] = rest[i + 1] + Weight(c.frames[i + 1])
    BY <1>1, <1>2 DEF Weighs
  <2>2. (i + 1) - 1 = i /\ less[i - 1] = rest[i] /\ less[i] = rest[i + 1]
    BY <1>2, <1>3
  <2>3. QED
    BY <1>2, <2>1, <2>2
<1>5. less[m - 1] = 0
  BY <1>1, <1>2, <1>3 DEF Weighs
<1>6. Weighs(d.frames, less)
  BY <1>2, <1>4, <1>5 DEF Weighs
<1>7. \A i, j \in 0 .. m - 1 : i <= j => less[j] <= less[i]
  BY <1>1, <1>2, <1>3
<1>8. d.queued = less[0] + OnTheWire(d)
  <2>1. rest[1 - 1] = rest[1] + Weight(c.frames[1])
    BY <1>1, <1>2 DEF Weighs
  <2>2. less[0] = rest[1] /\ rest[0] \in Nat
    BY <1>2, <1>3
  <2>3. QED
    BY <1>1, <1>2, <2>1, <2>2
<1>9. Len(d.frames) <= SinkFrames /\ d.queued <= SinkBytes
  BY <1>2, StreamAssumption DEF CountIsExact
<1>10. QED
  BY <1>2, <1>3, <1>6, <1>7, <1>8, <1>9 DEF CountIsExact

(* ... and gives back the weight of the frame that left the wire *)
LEMMA CountIsGivenBack ==
    ASSUME NEW c \in Connection, CountIsExact(c), c.sending # <<>>
    PROVE  /\ c.queued - Weight(Head(c.sending)) \in Nat
           /\ \A d \in Connection :
                /\ d.frames = c.frames
                /\ d.sending = <<>>
                /\ d.queued = c.queued - Weight(Head(c.sending))
                => CountIsExact(d)
<1>1. PICK rest \in [0 .. Len(c.frames) -> Nat] :
        /\ Weighs(c.frames, rest)
        /\ \A i, j \in 0 .. Len(c.frames) : i <= j => rest[j] <= rest[i]
        /\ c.queued = rest[0] + OnTheWire(c)
  BY DEF CountIsExact
<1>2. rest[0] \in Nat /\ OnTheWire(c) \in Nat /\ OnTheWire(c) = Weight(Head(c.sending))
  <2>1. rest[0] \in Nat
    <3>1. Len(c.frames) \in Nat
      BY DEF Connection
    <3>2. QED
      BY <3>1
  <2>2. QED
    BY <2>1, WireTyped
<1> DEFINE w == Weight(Head(c.sending))
<1>3. c.queued - w = rest[0]
  <2>1. c.queued = rest[0] + w /\ w \in Nat
    BY <1>1, <1>2
  <2> HIDE DEF w
  <2>2. QED
    BY <1>2, <2>1
<1>4. ASSUME NEW d \in Connection, d.frames = c.frames, d.sending = <<>>,
             d.queued = c.queued - Weight(Head(c.sending))
      PROVE  CountIsExact(d)
  <2>1. OnTheWire(d) = 0 /\ d.queued = rest[0]
    BY <1>3, <1>4 DEF OnTheWire
  <2>2. rest[0] <= SinkBytes
    BY <1>1, <1>2, StreamAssumption DEF CountIsExact
  <2>3. rest \in [0 .. Len(d.frames) -> Nat] /\ Weighs(d.frames, rest)
    BY <1>1, <1>4
  <2>4. \A i, j \in 0 .. Len(d.frames) : i <= j => rest[j] <= rest[i]
    BY <1>1, <1>4
  <2>5. Len(d.frames) <= SinkFrames
    BY <1>4 DEF CountIsExact
  <2>6. d.queued = rest[0] + OnTheWire(d)
    BY <1>2, <2>1
  <2>7. d.queued <= SinkBytes
    BY <2>1, <2>2
  <2>8. QED
    BY <2>3, <2>4, <2>5, <2>6, <2>7 DEF CountIsExact
<1>5. QED
  BY <1>2, <1>3, <1>4

LEMMA FramesStay ==
    ASSUME NEW c \in Connection, NEW d \in Connection, FramesInv(c), SameFrames(c, d),
           \/ d.pc = c.pc
           \/ c.pc = "new" /\ d.pc \in {"open", "closed"}
           \/ c.pc = "open" /\ d.pc = "leaving" /\ c.sending = <<>>
           \/ d.pc = "closed" /\ c.sending = <<>> /\ c.frames = <<>>
    PROVE  FramesInv(d) /\ (Told(d) <=> Told(c))
<1>1. ExitIsLast(d) /\ (Told(d) <=> Told(c)) /\ OneOnTheWire(d)
  BY DEF FramesInv, SameFrames, ExitIsLast, Told, HasExit, OneOnTheWire
<1>2. CASE CountIsExact(c)
  <2>1. CountIsExact(d)
    <3>1. d.frames = c.frames /\ d.queued = c.queued /\ OnTheWire(d) = OnTheWire(c)
      BY DEF SameFrames, OnTheWire
    <3>2. QED
      BY <1>2, <3>1 DEF CountIsExact
  <2>2. QED
    BY <1>1, <2>1 DEF FramesInv
<1>3. CASE c.pc = "closed" /\ c.frames = <<>>
  <2>1. d.pc = "closed" /\ d.frames = <<>>
    BY <1>3 DEF SameFrames
  <2>2. QED
    BY <1>1, <2>1 DEF FramesInv
<1>4. QED
  BY <1>2, <1>3 DEF FramesInv

LEMMA FramesGrow ==
    ASSUME NEW c \in Connection, NEW f \in Frames, FramesInv(c), ~ Told(c)
    PROVE  FramesInv(Given(c, f)) /\ (Told(Given(c, f)) => f.kind = "exit")
<1> DEFINE d == Given(c, f)
<1>1. /\ d \in Connection /\ d.pc = c.pc /\ d.sending = c.sending
      /\ d.shown = c.shown /\ d.told = c.told
  BY GivenFields
<1>2. CASE ~ Accepts(c, f)
  <2>1. SameFrames(c, d)
    BY <1>1, <1>2, GivenFields DEF SameFrames
  <2> HIDE DEF d
  <2>2. FramesInv(d) /\ (Told(d) <=> Told(c))
    BY <1>1, <2>1, FramesStay
  <2>3. QED
    BY <2>2 DEF d
<1>3. CASE Accepts(c, f)
  <2>1. d.frames = Append(c.frames, f) /\ d.queued = c.queued + Weight(f)
    BY <1>3, GivenFields
  <2>2. c.pc # "closed" /\ CountIsExact(c)
    BY <1>3 DEF Accepts, FramesInv
  <2> HIDE DEF d
  <2>3. CountIsExact(d)
    BY <1>1, <1>3, <2>1, <2>2, CountGrows
  <2>4. /\ Len(c.frames) \in Nat /\ Len(d.frames) = Len(c.frames) + 1
        /\ \A i \in 1 .. Len(c.frames) : d.frames[i] = c.frames[i]
        /\ d.frames[Len(c.frames) + 1] = f
    BY <2>1, AppendFacts
  <2>5. ASSUME NEW i \in 1 .. Len(d.frames), d.frames[i].kind = "exit"
        PROVE  i = Len(d.frames) /\ f.kind = "exit"
    <3>1. i \notin 1 .. Len(c.frames)
      BY <2>4, <2>5 DEF Told, HasExit
    <3>2. i = Len(c.frames) + 1
      BY <2>4, <3>1
    <3>3. QED
      BY <2>4, <2>5, <3>2
  <2>6. ~ d.told /\ ~ (d.sending # <<>> /\ d.sending[1].kind = "exit")
    BY <1>1 DEF Told, HasExit
  <2>7. ExitIsLast(d) /\ (Told(d) => f.kind = "exit")
    BY <2>5, <2>6 DEF ExitIsLast, Told, HasExit
  <2>8. OneOnTheWire(d)
    BY <1>1 DEF FramesInv, OneOnTheWire
  <2>9. FramesInv(d)
    BY <1>1, <2>2, <2>3, <2>7, <2>8 DEF FramesInv
  <2>10. QED
    BY <2>7, <2>9 DEF d
<1>4. QED
  BY <1>2, <1>3

LEMMA FramesAreTaken ==
    ASSUME NEW c \in Connection, NEW d \in Connection, FramesInv(c),
           c.pc = "open", d.pc = c.pc, c.sending = <<>>, c.frames # <<>>,
           d.frames = Tail(c.frames), d.sending = <<Head(c.frames)>>,
           d.queued = c.queued, d.told = c.told
    PROVE  FramesInv(d) /\ (HasExit(d) <=> HasExit(c)) /\ (Told(d) <=> Told(c))
<1> DEFINE m == Len(c.frames)
<1>1. /\ m \in Nat \ {0} /\ Len(d.frames) = m - 1
      /\ \A i \in 1 .. m - 1 : d.frames[i] = c.frames[i + 1]
      /\ d.sending # <<>> /\ d.sending[1] = c.frames[1] /\ Len(d.sending) = 1
      /\ d.frames \in Seq(Frames)
  BY TakeFacts
<1>2. \A i \in 1 .. m : c.frames[i].kind = "exit" => i = m
  BY DEF FramesInv, ExitIsLast
<1>3. ~ c.told
  BY DEF FramesInv, ExitIsLast
<1>4. HasExit(c) <=> c.frames[m].kind = "exit"
  BY <1>1, <1>2 DEF HasExit
<1>5. ASSUME NEW i \in 1 .. m - 1, d.frames[i].kind = "exit" PROVE i = m - 1
  BY <1>1, <1>2, <1>5
<1>6. ASSUME d.sending[1].kind = "exit" PROVE d.frames = <<>>
  BY <1>1, <1>2, <1>6
<1>7. HasExit(d) <=> c.frames[m].kind = "exit"
  <2>1. CASE m = 1
    <3>1. Len(d.frames) = 0 /\ d.sending[1] = c.frames[m]
      BY <1>1, <2>1
    <3>2. \A i \in 1 .. Len(d.frames) : FALSE
      BY <3>1
    <3>3. QED
      BY <1>1, <3>1, <3>2 DEF HasExit
  <2>2. CASE m > 1
    <3>1. d.frames[m - 1] = c.frames[m] /\ d.sending[1].kind # "exit"
      BY <1>1, <1>2, <2>2
    <3>2. m - 1 \in 1 .. Len(d.frames)
      BY <1>1, <2>2
    <3>3. \A i \in 1 .. Len(d.frames) : d.frames[i].kind = "exit" => i = m - 1
      BY <1>1, <1>5
    <3>4. QED
      BY <3>1, <3>2, <3>3 DEF HasExit
  <2>3. m = 1 \/ m > 1
    <3>1. m \in Nat \ {0}
      BY <1>1
    <3> HIDE DEF m
    <3>2. QED
      BY <3>1
  <2>4. QED
    BY <2>1, <2>2, <2>3
<1>8. ExitIsLast(d)
  BY <1>1, <1>3, <1>5, <1>6 DEF ExitIsLast
<1>9. OneOnTheWire(d)
  BY <1>1 DEF OneOnTheWire
<1>10. CountIsExact(d)
  BY CountIsTaken DEF FramesInv
<1>11. QED
  BY <1>4, <1>7, <1>8, <1>9, <1>10 DEF FramesInv, Told

(* The frame on the wire is gone, printed or not *)
LEMMA WireIsFreed ==
    ASSUME NEW c \in Connection, NEW d \in Connection, FramesInv(c), c.sending # <<>>,
           d.pc \in {"open", "leaving"}, d.frames = c.frames, d.sending = <<>>,
           d.queued = c.queued - Weight(Head(c.sending)),
           d.told => c.told \/ Head(c.sending).kind = "exit"
    PROVE  FramesInv(d) /\ (Told(d) => Told(c)) /\ ~ c.told /\ (HasExit(d) => HasExit(c))
<1>1. Head(c.sending) = c.sending[1]
  BY WireTyped
<1>2. c.pc = "open" /\ ~ c.told /\ CountIsExact(c)
  BY DEF FramesInv, OneOnTheWire, ExitIsLast
<1>3. CountIsExact(d)
  BY <1>2, CountIsGivenBack
<1>4. ExitIsLast(d) /\ OneOnTheWire(d)
  BY <1>1, <1>2 DEF FramesInv, ExitIsLast, OneOnTheWire
<1>5. (Told(d) => Told(c)) /\ (HasExit(d) => HasExit(c))
  BY <1>1, <1>2 DEF Told, HasExit
<1>6. QED
  BY <1>2, <1>3, <1>4, <1>5 DEF FramesInv

-----------------------------------------------------------------------------
(* Types *)

LEMMA SeqFacts ==
    ASSUME NEW S, NEW q \in Seq(S), NEW x \in S
    PROVE  /\ Len(q) \in Nat
           /\ Append(q, x) \in Seq(S)
           /\ Len(Append(q, x)) = Len(q) + 1
           /\ \A i \in 1 .. Len(q) : Append(q, x)[i] = q[i]
           /\ Append(q, x)[Len(q) + 1] = x
  OBVIOUS

LEMMA HeadFacts ==
    ASSUME NEW S, NEW q \in Seq(S), q # <<>>
    PROVE  /\ Head(q) \in S
           /\ Head(q) = q[1]
           /\ Tail(q) \in Seq(S)
           /\ Len(q) \in Nat \ {0}
           /\ Len(Tail(q)) = Len(q) - 1
           /\ \A i \in 1 .. Len(q) - 1 : Tail(q)[i] = q[i + 1]
  OBVIOUS

LEMMA ClosedTyped == [Closed EXCEPT !.pc = "new"] \in Connection
<1>1. <<>> \in Seq(Frames) /\ <<>> \in Chunks
  BY DEF Chunks
<1>2. QED
  BY <1>1 DEF Closed, Connection

LEMMA TypeInit == Init => TypeOK
<1>1. <<>> \in Chunks /\ 0 \in 0 .. MaxChunks
  BY StreamAssumption DEF Chunks
<1>2. ASSUME Init PROVE socket \in [Sockets -> Connection]
  BY <1>2, ClosedTyped DEF Init
<1>3. ASSUME Init PROVE events \in Seq([kind : {"attach", "detach"}, from : Sockets])
  BY <1>3 DEF Init
<1>4. ASSUME Init PROVE owner \in [pc : {"forward"}, batch : Chunks]
  BY <1>1, <1>4 DEF Init
<1>5. ASSUME Init PROVE TypeOK
  BY <1>1, <1>2, <1>3, <1>4, <1>5 DEF Init, TypeOK
<1>6. QED
  BY <1>5

(* Only the served connection is offered a frame *)
LEMMA OfferedFields ==
    ASSUME TypeOK, NEW f \in Frames
    PROVE  /\ Offered(f) \in [Sockets -> Connection]
           /\ \A s \in Sockets :
                Offered(f)[s] = IF sink = s THEN Given(socket[s], f) ELSE socket[s]
<1>1. \A s \in Sockets : socket[s] \in Connection /\ Given(socket[s], f) \in Connection
  BY GivenFields DEF TypeOK
<1>2. CASE sink = Nobody
  BY <1>2, StreamAssumption DEF Offered, TypeOK
<1>3. CASE sink # Nobody
  BY <1>1, <1>3 DEF Offered, TypeOK
<1>4. QED
  BY <1>2, <1>3

LEMMA QueueTyped ==
    ASSUME TypeOK, NEW f \in Frames, Queue(f)
    PROVE  socket' \in [Sockets -> Connection] /\ sink' \in Sockets \cup {Nobody}
  BY OfferedFields DEF Queue, TypeOK

LEMMA SendTyped ==
    ASSUME TypeOK, NEW s \in Sockets, NEW kind \in {"attach", "detach"}, Send(kind, s)
    PROVE  events' \in Seq([kind : {"attach", "detach"}, from : Sockets])
<1> DEFINE E == [kind : {"attach", "detach"}, from : Sockets]
<1>1. [kind |-> kind, from |-> s] \in E /\ events \in Seq(E)
  BY DEF TypeOK
<1> HIDE DEF E
<1>2. Append(events, [kind |-> kind, from |-> s]) \in Seq(E)
  BY <1>1, SeqFacts
<1>3. events' \in Seq(E)
  BY <1>1, <1>2 DEF Send
<1>4. QED
  BY <1>3 DEF E

LEMMA BatchTyped ==
    ASSUME TypeOK, tap # <<>>
    PROVE  /\ Head(tap) \in 1 .. MaxChunks
           /\ Tail(tap) \in Chunks
           /\ Append(owner.batch, Head(tap)) \in Chunks
<1>1. tap \in Seq(1 .. MaxChunks) /\ owner.batch \in Seq(1 .. MaxChunks)
  BY DEF TypeOK, Chunks
<1>2. Head(tap) \in 1 .. MaxChunks /\ Tail(tap) \in Seq(1 .. MaxChunks)
  BY <1>1, HeadFacts
<1>3. Append(owner.batch, Head(tap)) \in Seq(1 .. MaxChunks)
  BY <1>1, <1>2, SeqFacts
<1>4. QED
  BY <1>2, <1>3 DEF Chunks

LEMMA NextEventTyped ==
    ASSUME TypeOK, events # <<>>
    PROVE  /\ Head(events).from \in Sockets
           /\ Tail(events) \in Seq([kind : {"attach", "detach"}, from : Sockets])
<1> DEFINE E == [kind : {"attach", "detach"}, from : Sockets]
<1>1. events \in Seq(E)
  BY DEF TypeOK
<1>2. Head(events) \in E /\ Tail(events) \in Seq(E)
  BY <1>1, HeadFacts
<1>3. QED
  BY <1>2

LEMMA TypeStep == StreamInv /\ [Next]_vars => TypeOK'
<1> SUFFICES ASSUME StreamInv, [Next]_vars PROVE TypeOK'
  OBVIOUS
<1>0. TypeOK /\ ScreenIsRead /\ \A s \in Sockets : FramesInv(socket[s])
  BY DEF StreamInv, ThreadsInv, SocketInv
<1>e. <<>> \in Chunks /\ <<>> \in Seq(Frames)
  BY DEF Chunks
<1> USE <1>0, <1>e, StreamAssumption
<1>1. CASE ChildPrints
  <2>1. written' \in 0 .. MaxChunks
    BY <1>1 DEF ChildPrints, TypeOK
  <2>2. QED
    BY <1>1, <2>1 DEF ChildPrints, TypeOK
<1>b. CASE ChildExits \/ ReadChunk \/ ReadEnd
  <2>1. /\ hungUp' \in {hungUp, TRUE} /\ reader' \in {reader, "locked", "gone"}
        /\ lock' \in {lock, "reader"}
        /\ UNCHANGED <<written, screen, tap, events, owner, sink, socket>>
    BY <1>b DEF ChildExits, ReadChunk, ReadEnd
  <2>2. QED
    BY <2>1 DEF TypeOK
<1>a. CASE TimedOut \/ LockScreen \/ Expire
  <2>1. owner' \in [pc : {"forward", "draining", "killing"}, batch : Chunks]
    BY <1>a DEF TimedOut, LockScreen, Expire, TypeOK
  <2>2. /\ lock' \in {lock, "owner"}
        /\ UNCHANGED <<written, hungUp, reader, screen, tap, events, sink, socket>>
    BY <1>a DEF TimedOut, LockScreen, Expire, pty
  <2>3. QED
    BY <2>1, <2>2 DEF TypeOK
<1>2. CASE ProcessChunk
  BY <1>2 DEF ProcessChunk, TypeOK, ScreenIsRead
<1>3. CASE PublishChunk
  <2>1. Append(tap, screen) \in Chunks
    <3>1. screen \in 1 .. MaxChunks
      BY <1>3 DEF PublishChunk, TypeOK, ScreenIsRead
    <3>2. QED
      BY <3>1 DEF TypeOK, Chunks
  <2>2. QED
    BY <1>3, <2>1 DEF PublishChunk, TypeOK
<1>4. CASE Collect
  <2> DEFINE batch == Append(owner.batch, Head(tap))
  <2>1. batch \in Chunks /\ Tail(tap) \in Chunks
    BY <1>4, BatchTyped DEF Collect
  <2>2. tap' \in Chunks /\ UNCHANGED <<pty, events>>
    BY <1>4, <2>1 DEF Collect
  <2>3. socket' \in [Sockets -> Connection] /\ sink' \in Sockets \cup {Nobody}
    <3>1. CASE Len(batch) >= FrameChunks
      <4>1. Queue(Output(batch))
        BY <1>4, <3>1 DEF Collect
      <4>2. Output(batch) \in Frames
        BY <2>1, FramesTyped
      <4>3. QED
        BY <4>1, <4>2, QueueTyped
    <3>2. CASE ~ (Len(batch) >= FrameChunks)
      BY <1>4, <3>2 DEF Collect, TypeOK
    <3>3. QED
      BY <3>1, <3>2
  <2>4. owner' \in [pc : {"forward"}, batch : Chunks]
    <3>1. owner.pc = "forward" /\ owner' \in {[owner EXCEPT !.batch = <<>>],
                                              [owner EXCEPT !.batch = batch]}
      BY <1>4 DEF Collect
    <3>2. QED
      BY <2>1, <3>1 DEF TypeOK
  <2>5. QED
    BY <2>2, <2>3, <2>4 DEF TypeOK, pty
<1>5. CASE ForwardEnds
  <2>1. socket' \in [Sockets -> Connection] /\ sink' \in Sockets \cup {Nobody}
    <3>1. CASE owner.batch = <<>>
      BY <1>5, <3>1 DEF ForwardEnds, Flush, TypeOK
    <3>2. CASE owner.batch # <<>>
      <4>1. Queue(Output(owner.batch))
        BY <1>5, <3>2 DEF ForwardEnds, Flush
      <4>2. Output(owner.batch) \in Frames
        BY FramesTyped DEF TypeOK
      <4>3. QED
        BY <4>1, <4>2, QueueTyped
    <3>3. QED
      BY <3>1, <3>2
  <2>2. owner' \in [pc : {"ending", "events"}, batch : Chunks]
    BY <1>5 DEF ForwardEnds
  <2>3. UNCHANGED <<pty, tap, events>>
    BY <1>5 DEF ForwardEnds
  <2>4. QED
    BY <2>1, <2>2, <2>3 DEF TypeOK, pty
<1>6. CASE Finish
  <2>1. socket' \in [Sockets -> Connection]
    BY <1>6, FramesTyped, OfferedFields DEF Finish
  <2>2. QED
    BY <1>6, <2>1 DEF Finish, TypeOK, pty
<1>7. CASE Attach
  <2> DEFINE next == Head(events).from
  <2>1. next \in Sockets /\ Tail(events) \in Seq([kind : {"attach", "detach"}, from : Sockets])
    BY <1>7, NextEventTyped DEF Attach
  <2>2. socket' \in [Sockets -> Connection]
    <3>1. \A s \in Sockets : /\ socket[s] \in Connection
                             /\ Given(socket[s], Hello) \in Connection
                             /\ [socket[s] EXCEPT !.verdict = "replaced"] \in Connection
      <4>1. \A s \in Sockets : socket[s] \in Connection
        BY DEF TypeOK
      <4>2. \A c \in Connection : [c EXCEPT !.verdict = "replaced"] \in Connection
        BY DEF Connection
      <4>3. \A c \in Connection : Given(c, Hello) \in Connection
        BY FramesTyped, GivenFields
      <4>4. QED
        BY <4>1, <4>2, <4>3
    <3>2. QED
      BY <1>7, <3>1 DEF Attach
  <2>3. owner' \in [pc : {"attached"}, batch : Chunks]
    BY <1>7 DEF Attach, TypeOK
  <2>4. events' = Tail(events) /\ sink' \in {next, Nobody} /\ UNCHANGED <<pty, tap>>
    BY <1>7 DEF Attach
  <2> HIDE DEF next
  <2>5. QED
    BY <2>1, <2>2, <2>3, <2>4 DEF TypeOK, pty
<1>8. CASE DrainOne
  BY <1>8, BatchTyped DEF DrainOne, TypeOK, pty
<1>9. CASE Paint
  <2>1. socket' \in [Sockets -> Connection] /\ sink' \in Sockets \cup {Nobody}
    <3>1. Redraw(screen) \in Frames
      BY FramesTyped DEF TypeOK
    <3>2. QED
      BY <1>9, <3>1, QueueTyped DEF Paint
  <2>2. owner' \in [pc : {"ending", "forward"}, batch : Chunks]
    BY <1>9 DEF Paint, TypeOK
  <2>3. lock' = "free" /\ UNCHANGED <<written, hungUp, reader, screen, tap, events>>
    BY <1>9 DEF Paint
  <2>4. QED
    BY <2>1, <2>2, <2>3 DEF TypeOK
<1>10. CASE Detach
  <2>1. events' \in Seq([kind : {"attach", "detach"}, from : Sockets])
    BY <1>10, NextEventTyped DEF Detach
  <2>2. owner' \in [pc : {"forward"}, batch : Chunks]
    BY <1>10 DEF Detach, TypeOK
  <2>3. sink' \in {sink, Nobody} /\ UNCHANGED <<pty, tap, socket>>
    BY <1>10 DEF Detach
  <2>4. QED
    BY <2>1, <2>2, <2>3 DEF TypeOK, pty
<1>11. CASE Kill
  <2>1. owner' \in [pc : {"gone"}, batch : Chunks]
    BY <1>11 DEF Kill, TypeOK
  <2>2. /\ hungUp' \in {hungUp, TRUE} /\ sink' = Nobody /\ tap' = <<>> /\ events' = <<>>
        /\ UNCHANGED <<written, reader, lock, screen, socket>>
    BY <1>11 DEF Kill
  <2>3. <<>> \in Seq([kind : {"attach", "detach"}, from : Sockets])
    OBVIOUS
  <2>4. QED
    BY <2>1, <2>2, <2>3 DEF TypeOK
<1>12. ASSUME NEW s \in Sockets, SocketStep(s) \/ SocketEvent(s) PROVE TypeOK'
  <2> DEFINE c == socket[s]
  <2>1. c \in Connection
    BY DEF TypeOK
  <2>2. c.sending # <<>> =>
          /\ Head(c.sending) \in Frames
          /\ c.queued - Weight(Head(c.sending)) \in Nat
    BY <2>1, WireTyped, CountIsGivenBack DEF FramesInv, OneOnTheWire
  <2>3. ASSUME NEW d \in Connection, socket' = [socket EXCEPT ![s] = d],
               events' \in Seq([kind : {"attach", "detach"}, from : Sockets]),
               UNCHANGED <<pty, tap, owner, sink>>
        PROVE  TypeOK'
    BY <2>3 DEF TypeOK, pty
  <2>4. CASE Connect(s)
    <3> DEFINE d == [c EXCEPT !.pc = IF owner.pc = "gone" THEN "closed" ELSE "open"]
    <3>1. d \in Connection
      BY <2>1 DEF Connection
    <3>2. socket' = [socket EXCEPT ![s] = d] /\ Send("attach", s)
          /\ UNCHANGED <<pty, tap, owner, sink>>
      BY <2>4 DEF Connect
    <3> HIDE DEF d
    <3>3. QED
      BY <2>3, <3>1, <3>2, SendTyped
  <2>5. CASE TakeFrame(s)
    <3> DEFINE d == [c EXCEPT !.frames = Tail(c.frames), !.sending = <<Head(c.frames)>>]
    <3>1. Tail(c.frames) \in Seq(Frames) /\ <<Head(c.frames)>> \in Seq(Frames)
      BY <2>1, <2>5, TakeFacts DEF TakeFrame
    <3>2. d \in Connection
      BY <2>1, <3>1 DEF Connection
    <3>3. socket' = [socket EXCEPT ![s] = d] /\ UNCHANGED <<pty, tap, events, owner, sink>>
      BY <2>5 DEF TakeFrame
    <3> HIDE DEF d
    <3>4. QED
      BY <2>3, <3>2, <3>3 DEF TypeOK
  <2>6. CASE Sent(s)
    <3> DEFINE f == Head(c.sending)
               g == Shows(c, f)
               d == [g EXCEPT !.sending = <<>>, !.queued = c.queued - Weight(f)]
    <3>0. f \in Frames /\ c.queued - Weight(f) \in Nat
      BY <2>2, <2>6 DEF Sent
    <3>1. g \in Connection
      BY <2>1, <3>0, ShowsFields
    <3>2. d \in Connection
      <4> DEFINE q == c.queued - Weight(f)
      <4>1. d = [g EXCEPT !.sending = <<>>, !.queued = q] /\ q \in Nat
        BY <3>0
      <4> HIDE DEF g, q, d
      <4>2. QED
        BY <3>1, <4>1 DEF Connection
    <3>3. socket' = [socket EXCEPT ![s] = d] /\ UNCHANGED <<pty, tap, events, owner, sink>>
      BY <2>6 DEF Sent
    <3> HIDE DEF d
    <3>4. QED
      BY <2>3, <3>2, <3>3 DEF TypeOK
  <2>7. CASE SendFails(s)
    <3> DEFINE q == c.queued - Weight(Head(c.sending))
               d == [c EXCEPT !.sending = <<>>, !.queued = q, !.pc = "leaving"]
    <3>1. q \in Nat
      BY <2>2, <2>7 DEF SendFails
    <3>2. d \in Connection
      <4> HIDE DEF q, c
      <4>1. QED
        BY <2>1, <3>1 DEF Connection
    <3>3. socket' = [socket EXCEPT ![s] = d] /\ UNCHANGED <<pty, tap, events, owner, sink>>
      BY <2>7 DEF SendFails
    <3> HIDE DEF d
    <3>4. QED
      BY <2>3, <3>2, <3>3 DEF TypeOK
  <2>8. CASE Leave(s)
    <3> DEFINE d == [c EXCEPT !.pc = "leaving"]
    <3>1. d \in Connection
      BY <2>1 DEF Connection
    <3>2. socket' = [socket EXCEPT ![s] = d] /\ UNCHANGED <<pty, tap, events, owner, sink>>
      BY <2>8 DEF Leave
    <3> HIDE DEF d
    <3>3. QED
      BY <2>3, <3>1, <3>2 DEF TypeOK
  <2>9. CASE SendDetach(s)
    <3> DEFINE d == [c EXCEPT !.pc = "closed", !.frames = <<>>]
    <3>1. d \in Connection
      <4> HIDE DEF c
      <4>1. QED
        BY <2>1 DEF Connection
    <3>2. socket' = [socket EXCEPT ![s] = d] /\ Send("detach", s)
          /\ UNCHANGED <<pty, tap, owner, sink>>
      BY <2>9 DEF SendDetach
    <3> HIDE DEF d
    <3>3. QED
      BY <2>3, <3>1, <3>2, SendTyped
  <2>10. CASE Released(s)
    <3> DEFINE d == [c EXCEPT !.pc = IF c.verdict = "slow" THEN "leaving" ELSE "closed"]
    <3>1. d \in Connection
      BY <2>1 DEF Connection
    <3>2. socket' = [socket EXCEPT ![s] = d] /\ UNCHANGED <<pty, tap, events, owner, sink>>
      BY <2>10 DEF Released
    <3> HIDE DEF d
    <3>3. QED
      BY <2>3, <3>1, <3>2 DEF TypeOK
  <2>11. QED
    BY <1>12, <2>4, <2>5, <2>6, <2>7, <2>8, <2>9, <2>10 DEF SocketStep, SocketEvent
<1>13. CASE UNCHANGED vars
  BY <1>13 DEF vars, pty, TypeOK
<1>14. QED
  BY <1>1, <1>a, <1>b, <1>2, <1>3, <1>4, <1>5, <1>6, <1>7, <1>8, <1>9, <1>10, <1>11, <1>12, <1>13
  DEF Next, ReaderStep, OwnerStep

-----------------------------------------------------------------------------
(* The two threads, their lock and the chunks between them *)

LEMMA Numbers ==
    ASSUME TypeOK
    PROVE  /\ screen \in Nat /\ written \in Nat
           /\ Len(tap) \in Nat /\ Len(owner.batch) \in Nat
           /\ Published \in Int /\ Passed \in Int
           /\ Passed = Published - Len(tap) - Len(owner.batch)
           /\ (tap = <<>>) <=> (Len(tap) = 0)
           /\ (owner.batch = <<>>) <=> (Len(owner.batch) = 0)
<1>1. screen \in Nat /\ written \in Nat
  BY StreamAssumption DEF TypeOK
<1>2. tap \in Seq(1 .. MaxChunks) /\ owner.batch \in Seq(1 .. MaxChunks)
  BY DEF TypeOK, Chunks
<1>3. QED
  BY <1>1, <1>2 DEF Published, Passed

(* Nothing the threads share has moved but the batch and the sink *)
LEMMA ThreadsStay ==
    ASSUME TypeOK, ThreadsInv, UNCHANGED <<written, reader, lock, screen, tap>>,
           owner'.pc = owner.pc \/ {owner.pc, owner'.pc} \cap {"draining", "ending", "gone"} = {},
           owner'.batch = owner.batch,
           owner.pc \notin {"forward", "gone"} \/ owner'.pc = owner.pc,
           owner.pc = "gone" => sink' = sink
    PROVE  ThreadsInv'
<1>1. LockIsHonoured' /\ ScreenIsRead'
  BY DEF ThreadsInv, LockIsHonoured, ScreenIsRead
<1>2. Published' = Published /\ Passed' = Passed
  BY DEF Published, Passed
<1>3. ChunksInOrder'
  BY <1>2 DEF ThreadsInv, ChunksInOrder
<1>4. OwnerInPlace'
  BY DEF ThreadsInv, OwnerInPlace
<1>5. QED
  BY <1>1, <1>3, <1>4 DEF ThreadsInv

LEMMA ThreadsInit == Init => ThreadsInv
<1> SUFFICES ASSUME Init PROVE ThreadsInv
  OBVIOUS
<1>1. /\ reader = "reading" /\ lock = "free" /\ screen = 0 /\ written = 0 /\ tap = <<>>
      /\ owner = [pc |-> "forward", batch |-> <<>>]
  BY DEF Init
<1>2. Published = 0 /\ Passed = 0
  <2>1. Len(tap) = 0 /\ Len(owner.batch) = 0
    BY <1>1
  <2>2. Published = 0
    BY <1>1 DEF Published
  <2>3. Passed = 0 - 0 - 0
    BY <2>1, <2>2 DEF Passed
  <2>4. QED
    BY <2>2, <2>3
<1>3. QED
  BY <1>1, <1>2 DEF ThreadsInv, LockIsHonoured, ScreenIsRead, ChunksInOrder, OwnerInPlace

(* What the owner appends to its batch is the chunk after those it passed *)
LEMMA BatchGrows ==
    ASSUME TypeOK, ThreadsInv, owner.pc # "gone", tap # <<>>
    PROVE  /\ Head(tap) = Passed + Len(owner.batch) + 1
           /\ Len(Append(owner.batch, Head(tap))) = Len(owner.batch) + 1
           /\ \A i \in 1 .. Len(owner.batch) + 1 :
                Append(owner.batch, Head(tap))[i] = Passed + i
           /\ Len(Tail(tap)) = Len(tap) - 1
           /\ \A i \in 1 .. Len(Tail(tap)) : Tail(tap)[i] = Published - Len(Tail(tap)) + i
<1> DEFINE S == 1 .. MaxChunks
           n == Len(owner.batch)
<1>1. tap \in Seq(S) /\ owner.batch \in Seq(S)
  BY DEF TypeOK, Chunks
<1>2. /\ Head(tap) \in S /\ Head(tap) = tap[1]
      /\ Len(tap) \in Nat \ {0} /\ Len(Tail(tap)) = Len(tap) - 1
      /\ \A i \in 1 .. Len(tap) - 1 : Tail(tap)[i] = tap[i + 1]
  BY <1>1, HeadFacts
<1>3. /\ n \in Nat
      /\ Len(Append(owner.batch, Head(tap))) = n + 1
      /\ \A i \in 1 .. n : Append(owner.batch, Head(tap))[i] = owner.batch[i]
      /\ Append(owner.batch, Head(tap))[n + 1] = Head(tap)
  BY <1>1, <1>2, SeqFacts
<1>4. /\ Passed = Published - Len(tap) - n
      /\ \A i \in 1 .. n : owner.batch[i] = Passed + i
      /\ \A i \in 1 .. Len(tap) : tap[i] = Published - Len(tap) + i
  BY DEF ThreadsInv, ChunksInOrder, Passed
<1>5. Published \in Int /\ Passed \in Int
  BY Numbers
<1>6. Head(tap) = Passed + n + 1
  <2>1. tap[1] = Published - Len(tap) + 1
    BY <1>2, <1>4
  <2>2. Len(tap) \in Int /\ n \in Int
    BY <1>2, <1>3
  <2> HIDE DEF n
  <2>3. QED
    BY <1>2, <1>4, <1>5, <2>1, <2>2
<1> HIDE DEF n
<1>7. ASSUME NEW i \in 1 .. n + 1 PROVE Append(owner.batch, Head(tap))[i] = Passed + i
  <2>1. CASE i = n + 1
    BY <1>3, <1>5, <1>6, <2>1
  <2>2. CASE i \in 1 .. n
    BY <1>3, <1>4, <2>2
  <2>3. QED
    BY <1>3, <2>1, <2>2
<1>8. ASSUME NEW i \in 1 .. Len(Tail(tap)) PROVE Tail(tap)[i] = Published - Len(Tail(tap)) + i
  <2>1. i \in 1 .. Len(tap) - 1 /\ i + 1 \in 1 .. Len(tap)
    BY <1>2
  <2>2. Tail(tap)[i] = tap[i + 1] /\ tap[i + 1] = Published - Len(tap) + (i + 1)
    BY <1>2, <1>4, <2>1
  <2>3. QED
    BY <1>2, <1>5, <2>1, <2>2
<1>9. QED
  BY <1>2, <1>3, <1>6, <1>7, <1>8 DEF n

LEMMA ThreadsStep == StreamInv /\ [Next]_vars => ThreadsInv'
<1> SUFFICES ASSUME StreamInv, [Next]_vars PROVE ThreadsInv'
  OBVIOUS
<1>0. TypeOK /\ TypeOK' /\ ThreadsInv
  BY TypeStep DEF StreamInv
<1>n. /\ screen \in Nat /\ written \in Nat
      /\ Len(tap) \in Nat /\ Len(owner.batch) \in Nat
      /\ Published \in Int /\ Passed \in Int
      /\ Passed = Published - Len(tap) - Len(owner.batch)
  BY <1>0, Numbers
<1>1. CASE ChildPrints
  <2>1. written' = written + 1 /\ UNCHANGED <<reader, lock, screen, tap, owner, sink>>
    BY <1>1 DEF ChildPrints
  <2>2. ScreenIsRead'
    BY <1>0, <1>n, <2>1 DEF ThreadsInv, ScreenIsRead
  <2>3. LockIsHonoured' /\ ChunksInOrder' /\ OwnerInPlace'
    BY <1>0, <2>1 DEF ThreadsInv, LockIsHonoured, ChunksInOrder, OwnerInPlace, Passed, Published
  <2>4. QED
    BY <2>2, <2>3 DEF ThreadsInv
<1>2. CASE ChildExits
  BY <1>0, <1>2, ThreadsStay DEF ChildExits
<1>3. CASE ReadChunk
  <2>1. /\ reader = "reading" /\ reader' = "locked" /\ lock = "free" /\ lock' = "reader"
        /\ screen < written /\ UNCHANGED <<written, screen, tap, owner, sink>>
    BY <1>3 DEF ReadChunk
  <2>2. Published' = Published /\ Passed' = Passed
    BY <2>1 DEF Published, Passed
  <2>3. LockIsHonoured' /\ ScreenIsRead' /\ OwnerInPlace'
    BY <1>0, <2>1 DEF ThreadsInv, LockIsHonoured, ScreenIsRead, OwnerInPlace
  <2>4. ChunksInOrder'
    BY <1>0, <2>1, <2>2 DEF ThreadsInv, ChunksInOrder
  <2>5. QED
    BY <2>3, <2>4 DEF ThreadsInv
<1>4. CASE ProcessChunk
  <2>1. /\ reader = "locked" /\ reader' = "processed" /\ screen' = screen + 1
        /\ UNCHANGED <<written, lock, tap, owner, sink>>
    BY <1>4 DEF ProcessChunk
  <2>2. Published' = Published /\ Passed' = Passed
    BY <1>n, <2>1 DEF Published, Passed
  <2>3. LockIsHonoured' /\ ScreenIsRead' /\ OwnerInPlace'
    BY <1>0, <1>n, <2>1 DEF ThreadsInv, LockIsHonoured, ScreenIsRead, OwnerInPlace
  <2>4. ChunksInOrder'
    BY <1>0, <2>1, <2>2 DEF ThreadsInv, ChunksInOrder
  <2>5. QED
    BY <2>3, <2>4 DEF ThreadsInv
<1>5. CASE PublishChunk
  <2>1. /\ reader = "processed" /\ reader' = "reading" /\ lock' = "free"
        /\ UNCHANGED <<written, screen, owner, sink>>
        /\ owner.pc # "gone" => tap' = Append(tap, screen)
        /\ owner.pc = "gone" => tap' = tap
    BY <1>5 DEF PublishChunk
  <2>2. LockIsHonoured' /\ ScreenIsRead'
    BY <1>0, <2>1 DEF ThreadsInv, LockIsHonoured, ScreenIsRead
  <2>3. OwnerInPlace'
    BY <1>0, <2>1 DEF ThreadsInv, OwnerInPlace
  <2>4. CASE owner.pc = "gone"
    BY <2>1, <2>2, <2>3, <2>4 DEF ThreadsInv, ChunksInOrder
  <2>5. CASE owner.pc # "gone"
    <3>1. /\ Len(tap') = Len(tap) + 1 /\ tap'[Len(tap) + 1] = screen
          /\ \A i \in 1 .. Len(tap) : tap'[i] = tap[i]
      <4>1. tap \in Seq(1 .. MaxChunks) /\ screen \in 1 .. MaxChunks
        BY <1>0, <2>1 DEF TypeOK, Chunks, ThreadsInv, ScreenIsRead
      <4>2. QED
        BY <2>1, <2>5, <4>1, SeqFacts
    <3>2. Published = screen - 1 /\ Published' = screen /\ owner'.batch = owner.batch
      BY <2>1 DEF Published
    <3>3. Passed' = Passed
      BY <1>n, <3>1, <3>2 DEF Passed
    <3>4. \A i \in 1 .. Len(tap) : tap[i] = Published - Len(tap) + i
      BY <1>0, <2>5 DEF ThreadsInv, ChunksInOrder
    <3>5. \A i \in 1 .. Len(tap') : tap'[i] = Published' - Len(tap') + i
      BY <1>n, <3>1, <3>2, <3>4
    <3>6. ChunksInOrder'
      BY <1>0, <2>1, <2>5, <3>2, <3>3, <3>5 DEF ThreadsInv, ChunksInOrder
    <3>7. QED
      BY <2>2, <2>3, <3>6 DEF ThreadsInv
  <2>6. QED
    BY <2>4, <2>5
<1>6. CASE ReadEnd
  <2>1. /\ reader = "reading" /\ reader' = "gone"
        /\ UNCHANGED <<written, lock, screen, tap, owner, sink>>
    BY <1>6 DEF ReadEnd
  <2>2. Published' = Published /\ Passed' = Passed
    BY <2>1 DEF Published, Passed
  <2>3. LockIsHonoured' /\ ScreenIsRead' /\ OwnerInPlace'
    BY <1>0, <2>1 DEF ThreadsInv, LockIsHonoured, ScreenIsRead, OwnerInPlace
  <2>4. ChunksInOrder'
    BY <1>0, <2>1, <2>2 DEF ThreadsInv, ChunksInOrder
  <2>5. QED
    BY <2>3, <2>4 DEF ThreadsInv
<1>7. CASE Collect
  <2> DEFINE batch == Append(owner.batch, Head(tap))
  <2>1. /\ owner.pc = "forward" /\ tap # <<>> /\ tap' = Tail(tap)
        /\ UNCHANGED <<written, reader, lock, screen>>
        /\ \/ owner' = [owner EXCEPT !.batch = <<>>]
           \/ owner' = [owner EXCEPT !.batch = batch]
    BY <1>7 DEF Collect, pty
  <2>2. /\ Len(batch) = Len(owner.batch) + 1
        /\ \A i \in 1 .. Len(owner.batch) + 1 : batch[i] = Passed + i
        /\ Len(Tail(tap)) = Len(tap) - 1
        /\ \A i \in 1 .. Len(Tail(tap)) : Tail(tap)[i] = Published - Len(Tail(tap)) + i
    BY <1>0, <2>1, BatchGrows
  <2> HIDE DEF batch
  <2>3. owner'.pc = "forward" /\ owner'.batch \in {<<>>, batch}
    BY <1>0, <2>1 DEF TypeOK
  <2>4. LockIsHonoured' /\ ScreenIsRead' /\ OwnerInPlace'
    BY <1>0, <2>1, <2>3 DEF ThreadsInv, LockIsHonoured, ScreenIsRead, OwnerInPlace
  <2>5. Published' = Published
    BY <2>1 DEF Published
  <2>6. Passed >= 0
    BY <1>0, <2>1 DEF ThreadsInv, ChunksInOrder
  <2>7. CASE owner'.batch = <<>>
    <3>1. Len(owner'.batch) = 0
      BY <2>7
    <3>2. Passed' >= 0
      BY <1>n, <2>1, <2>2, <2>5, <2>6, <3>1 DEF Passed
    <3>3. QED
      BY <2>1, <2>2, <2>4, <2>5, <3>1, <3>2 DEF ThreadsInv, ChunksInOrder
  <2>8. CASE owner'.batch = batch
    <3>1. Passed' = Passed
      BY <1>n, <2>1, <2>2, <2>5, <2>8 DEF Passed
    <3>2. QED
      BY <2>1, <2>2, <2>4, <2>5, <2>6, <2>8, <3>1 DEF ThreadsInv, ChunksInOrder
  <2>9. QED
    BY <2>3, <2>7, <2>8
<1>8. CASE ForwardEnds
  <2>1. /\ owner.pc = "forward" /\ tap = <<>> /\ owner'.batch = <<>>
        /\ owner'.pc = IF reader = "gone" THEN "ending" ELSE "events"
        /\ UNCHANGED <<written, reader, lock, screen, tap>>
    BY <1>8 DEF ForwardEnds, pty
  <2>2. LockIsHonoured' /\ ScreenIsRead' /\ OwnerInPlace'
    BY <1>0, <2>1 DEF ThreadsInv, LockIsHonoured, ScreenIsRead, OwnerInPlace
  <2>3. Len(tap) = 0 /\ Len(tap') = 0 /\ Len(owner'.batch) = 0 /\ Published' = Published
    BY <2>1 DEF Published
  <2>4. Passed' >= 0
    BY <1>0, <1>n, <2>1, <2>3 DEF ThreadsInv, ChunksInOrder, Passed
  <2>5. QED
    BY <2>1, <2>2, <2>3, <2>4 DEF ThreadsInv, ChunksInOrder
<1>9. CASE Finish \/ Kill
  <2>1. /\ owner.pc \in {"ending", "killing"} /\ owner'.pc = "gone" /\ owner'.batch = owner.batch
        /\ sink' = Nobody /\ UNCHANGED <<written, reader, lock, screen>>
    BY <1>0, <1>9 DEF Finish, Kill, pty, TypeOK
  <2>2. QED
    BY <1>0, <2>1 DEF ThreadsInv, LockIsHonoured, ScreenIsRead, OwnerInPlace, ChunksInOrder
<1>10. CASE TimedOut \/ Expire \/ Attach \/ Detach
  <2>1. /\ owner.pc = "events" /\ owner'.pc \in {"forward", "killing", "attached"}
        /\ owner'.batch = owner.batch /\ UNCHANGED <<written, reader, lock, screen, tap>>
    BY <1>0, <1>10 DEF TimedOut, Expire, Attach, Detach, pty, TypeOK
  <2>2. QED
    BY <1>0, <2>1, ThreadsStay
<1>11. CASE LockScreen
  <2>1. /\ owner.pc = "attached" /\ lock = "free" /\ lock' = "owner" /\ owner'.pc = "draining"
        /\ owner'.batch = owner.batch /\ UNCHANGED <<written, reader, screen, tap, sink>>
    BY <1>0, <1>11 DEF LockScreen, TypeOK
  <2>2. LockIsHonoured' /\ ScreenIsRead' /\ OwnerInPlace'
    BY <1>0, <2>1 DEF ThreadsInv, LockIsHonoured, ScreenIsRead, OwnerInPlace
  <2>3. Published' = Published /\ Passed' = Passed
    BY <2>1 DEF Published, Passed
  <2>4. QED
    BY <1>0, <2>1, <2>2, <2>3 DEF ThreadsInv, ChunksInOrder
<1>12. CASE DrainOne
  <2>1. /\ owner.pc = "draining" /\ tap # <<>> /\ tap' = Tail(tap)
        /\ UNCHANGED <<written, reader, lock, screen, owner, sink>>
    BY <1>12 DEF DrainOne, pty
  <2>2. /\ Len(Tail(tap)) = Len(tap) - 1
        /\ \A i \in 1 .. Len(Tail(tap)) : Tail(tap)[i] = Published - Len(Tail(tap)) + i
    BY <1>0, <2>1, BatchGrows
  <2>3. LockIsHonoured' /\ ScreenIsRead' /\ OwnerInPlace'
    BY <1>0, <2>1 DEF ThreadsInv, LockIsHonoured, ScreenIsRead, OwnerInPlace
  <2>4. Published' = Published /\ owner.batch = <<>> /\ Len(owner.batch) = 0
    BY <1>0, <2>1 DEF Published, ThreadsInv, OwnerInPlace
  <2>5. Passed' >= 0
    BY <1>0, <1>n, <2>1, <2>2, <2>4 DEF ThreadsInv, ChunksInOrder, Passed
  <2>6. QED
    BY <2>1, <2>2, <2>3, <2>4, <2>5 DEF ThreadsInv, ChunksInOrder
<1>13. CASE Paint
  <2>1. /\ owner.pc = "draining" /\ tap = <<>> /\ lock' = "free"
        /\ owner'.pc = IF reader = "gone" THEN "ending" ELSE "forward"
        /\ owner'.batch = owner.batch /\ UNCHANGED <<written, reader, screen, tap>>
    BY <1>0, <1>13 DEF Paint, TypeOK
  <2>2. LockIsHonoured' /\ ScreenIsRead' /\ OwnerInPlace'
    BY <1>0, <2>1 DEF ThreadsInv, LockIsHonoured, ScreenIsRead, OwnerInPlace
  <2>3. Published' = Published /\ Passed' = Passed
    BY <2>1 DEF Published, Passed
  <2>4. QED
    BY <1>0, <2>1, <2>2, <2>3 DEF ThreadsInv, ChunksInOrder
<1>14. ASSUME NEW s \in Sockets, SocketStep(s) \/ SocketEvent(s) PROVE ThreadsInv'
  <2>1. UNCHANGED <<pty, tap, owner, sink>>
    BY <1>14 DEF SocketStep, SocketEvent, TakeFrame, Sent, SendDetach, Released, Connect,
                 SendFails, Leave
  <2>2. QED
    BY <1>0, <2>1, ThreadsStay DEF pty
<1>15. CASE UNCHANGED vars
  BY <1>0, <1>15, ThreadsStay DEF vars, pty
<1>16. QED
  BY <1>1, <1>2, <1>3, <1>4, <1>5, <1>6, <1>7, <1>8, <1>9, <1>10, <1>11, <1>12, <1>13,
     <1>14, <1>15
  DEF Next, ReaderStep, OwnerStep

-----------------------------------------------------------------------------
(* One connection while the owner and the child go on                      *)

(* The screen only grows, and not past the reader's end *)
GoesOn == /\ screen <= screen'
          /\ reader = "gone" => reader' = "gone" /\ screen' = screen
          /\ owner.pc = "gone" => owner'.pc = "gone"

(* Who is served next was served already, without another chunk passed *)
KeepsPace(s) ==
    sink' = s /\ owner'.pc \notin {"attached", "draining"} =>
        /\ sink = s
        /\ owner.pc \notin {"attached", "draining"}
        /\ Passed' = Passed

LEMMA ScreenGrows ==
    ASSUME TypeOK, TypeOK', screen <= screen'
    PROVE  /\ screen \in 0 .. MaxChunks /\ screen' \in 0 .. MaxChunks
           /\ screen \in Nat /\ screen' \in Nat
           /\ 0 .. screen \subseteq 0 .. screen'
  BY StreamAssumption DEF TypeOK

(* A path is a path to the later screen as well *)
LEMMA PathStays ==
    ASSUME TypeOK, TypeOK', GoesOn, NEW s \in Sockets, PathOf(s), KeepsPace(s),
           socket'[s].frames = socket[s].frames,
           socket'[s].sending = socket[s].sending,
           socket'[s].shown = socket[s].shown
    PROVE  PathOf(s)'
<1> DEFINE m == Len(socket[s].frames)
<1>1. PICK a \in 0 .. screen, path \in [0 .. m -> 0 .. screen] :
        IsPath(socket[s], a, path) /\ Continues(s, path[m])
  BY DEF PathOf
<1>2. 0 .. screen \subseteq 0 .. screen'
  BY ScreenGrows DEF GoesOn
<1>3. a \in 0 .. screen' /\ path \in [0 .. m -> 0 .. screen']
  BY <1>2
<1>4. IsPath(socket'[s], a, path)
  BY <1>1 DEF IsPath
<1>5. HasExit(socket'[s]) <=> HasExit(socket[s])
  BY DEF HasExit
<1>6. Continues(s, path[m])'
  BY <1>1, <1>5 DEF Continues, KeepsPace, GoesOn
<1>7. QED
  BY <1>3, <1>4, <1>6 DEF PathOf

LEMMA ShownStays ==
    ASSUME TypeOK, TypeOK', GoesOn, NEW s \in Sockets, ShowsTheScreen(s),
           socket'[s].shown = socket[s].shown
    PROVE  ShowsTheScreen(s)'
<1>1. 0 .. screen \subseteq 0 .. screen'
  BY ScreenGrows DEF GoesOn
<1>2. QED
  BY <1>1 DEF ShowsTheScreen

LEMMA SocketStays ==
    ASSUME TypeOK, TypeOK', GoesOn, NEW s \in Sockets, SocketInv(s), KeepsPace(s),
           SameFrames(socket[s], socket'[s]),
           \/ socket'[s].pc = socket[s].pc
           \/ socket[s].pc = "new" /\ socket'[s].pc \in {"open", "closed"}
           \/ /\ socket[s].pc = "open" /\ socket'[s].pc = "leaving"
              /\ socket[s].sending = <<>>
           \/ /\ socket'[s].pc = "closed"
              /\ socket[s].sending = <<>> /\ socket[s].frames = <<>>
    PROVE  SocketInv(s)'
<1>1. socket[s] \in Connection /\ socket'[s] \in Connection
  BY DEF TypeOK
<1>2. FramesInv(socket'[s]) /\ (Told(socket'[s]) <=> Told(socket[s]))
  BY <1>1, FramesStay DEF SocketInv
<1>3. Told(socket'[s]) => owner'.pc = "gone"
  BY <1>2 DEF SocketInv, GoesOn
<1>4. ShowsTheScreen(s)'
  BY ShownStays DEF SocketInv, SameFrames
<1>5. ASSUME socket'[s].pc \in {"new", "open"} PROVE PathOf(s)'
  <2>1. PathOf(s)
    BY <1>5 DEF SocketInv
  <2>2. QED
    BY <2>1, PathStays DEF SameFrames
<1>6. QED
  BY <1>2, <1>3, <1>4, <1>5 DEF SocketInv

(* A connection that is offered a frame which leads on from its path *)
LEMMA SocketGrows ==
    ASSUME TypeOK, TypeOK', UNCHANGED <<screen, reader>>, owner.pc # "gone",
           NEW s \in Sockets, NEW f \in Frames, SocketInv(s),
           socket'[s] = Given(socket[s], f),
           f.kind = "exit" => owner'.pc = "gone",
           ~ Accepts(socket[s], f) => sink' # s,
           \A e \in 0 .. screen :
              Continues(s, e) =>
                 \E b \in 0 .. screen :
                    /\ Leads(f, e, b)
                    /\ sink' = s /\ owner'.pc \notin {"attached", "draining"} => b = Passed'
                    /\ f.kind = "exit" => reader = "gone" /\ b = screen
    PROVE  SocketInv(s)'
<1> DEFINE c == socket[s]
           d == socket'[s]
           m == Len(c.frames)
<1>1. c \in Connection /\ d \in Connection
  BY DEF TypeOK
<1>2. ~ Told(c) /\ FramesInv(c)
  BY DEF SocketInv
<1>3. FramesInv(d) /\ (Told(d) => f.kind = "exit")
  BY <1>1, <1>2, FramesGrow
<1>4. /\ d.pc = c.pc /\ d.sending = c.sending /\ d.shown = c.shown
      /\ Accepts(c, f) => d.frames = Append(c.frames, f)
      /\ ~ Accepts(c, f) => d.frames = c.frames
  BY <1>1, GivenFields
<1>5. Told(d) => owner'.pc = "gone"
  BY <1>3
<1>6. screen \in Nat /\ screen' = screen
  BY StreamAssumption DEF TypeOK
<1>7. ShowsTheScreen(s)'
  BY <1>4, <1>6 DEF SocketInv, ShowsTheScreen
<1>8. ASSUME d.pc \in {"new", "open"} PROVE PathOf(s)'
  <2>1. PICK a \in 0 .. screen, path \in [0 .. m -> 0 .. screen] :
          IsPath(c, a, path) /\ Continues(s, path[m])
    BY <1>4, <1>8 DEF SocketInv, PathOf
  <2>2. m \in Nat /\ path[m] \in 0 .. screen
    BY <1>1, AppendFacts
  <2>3. HasExit(d) => f.kind = "exit"
    BY <1>3 DEF Told
  <2>4. CASE Accepts(c, f)
    <3>1. PICK b \in 0 .. screen :
            /\ Leads(f, path[m], b)
            /\ sink' = s /\ owner'.pc \notin {"attached", "draining"} => b = Passed'
            /\ f.kind = "exit" => reader = "gone" /\ b = screen
      BY <2>1, <2>2
    <3>2. PICK longer \in [0 .. Len(d.frames) -> 0 .. screen] :
            IsPath(d, a, longer) /\ longer[Len(d.frames)] = b
      <4>1. /\ c \in Connection /\ d \in Connection /\ d.frames = Append(c.frames, f)
            /\ d.sending = c.sending /\ d.shown = c.shown /\ screen \in Nat
            /\ path \in [0 .. Len(c.frames) -> 0 .. screen] /\ IsPath(c, a, path)
            /\ b \in 0 .. screen /\ Leads(f, path[Len(c.frames)], b)
        BY <1>1, <1>4, <1>6, <2>1, <2>4, <3>1
      <4> HIDE DEF c, d
      <4>2. QED
        BY <4>1, PathGrows, SMTT(60)
    <3>3. Continues(s, b)'
      BY <1>6, <2>3, <3>1 DEF Continues
    <3>4. QED
      BY <1>6, <3>2, <3>3 DEF PathOf
  <2>5. CASE ~ Accepts(c, f)
    <3>1. IsPath(d, a, path) /\ d.frames = c.frames
      BY <1>4, <2>1, <2>5 DEF IsPath
    <3>2. ~ HasExit(d)
      BY <1>2, <1>4, <3>1 DEF HasExit, Told
    <3>3. Continues(s, path[m])'
      BY <2>5, <3>2 DEF Continues
    <3>4. QED
      BY <1>6, <3>1, <3>3 DEF PathOf
  <2>6. QED
    BY <2>4, <2>5
<1>9. QED
  BY <1>3, <1>5, <1>7, <1>8 DEF SocketInv

(* The reader hands its chunk over: nothing the owner has passed changes *)
LEMMA ReaderKeepsPace ==
    ASSUME TypeOK, ThreadsInv, ReaderStep, owner.pc # "gone"
    PROVE  Passed' = Passed
<1>0. /\ screen \in Nat /\ Len(tap) \in Nat /\ Len(owner.batch) \in Nat
      /\ owner' = owner
  BY Numbers DEF ReaderStep, ReadChunk, ProcessChunk, PublishChunk, ReadEnd
<1>1. CASE ReadChunk \/ ReadEnd
  BY <1>1 DEF ReadChunk, ReadEnd, Passed, Published
<1>2. CASE ProcessChunk
  BY <1>0, <1>2 DEF ProcessChunk, Passed, Published
<1>3. CASE PublishChunk
  <2>1. /\ reader = "processed" /\ reader' = "reading" /\ screen' = screen
        /\ tap' = Append(tap, screen)
    BY <1>3 DEF PublishChunk
  <2>2. Len(tap') = Len(tap) + 1
    <3>1. tap \in Seq(1 .. MaxChunks) /\ screen \in 1 .. MaxChunks
      BY <2>1 DEF TypeOK, Chunks, ThreadsInv, ScreenIsRead
    <3>2. QED
      BY <2>1, <3>1, SeqFacts
  <2>3. Published = screen - 1 /\ Published' = screen
    BY <2>1 DEF Published
  <2>4. QED
    BY <1>0, <2>2, <2>3 DEF Passed
<1>4. QED
  BY <1>1, <1>2, <1>3 DEF ReaderStep

(* Owner and reader steps that queue nothing *)
LEMMA QuietStep ==
    ASSUME StreamInv, TypeOK', GoesOn, NEW s \in Sockets, KeepsPace(s),
           socket'[s] = socket[s]
    PROVE  SocketInv(s)'
  BY SocketStays DEF StreamInv, SameFrames

(* The owner queues a frame that leads on from what it passed *)
LEMMA QueueKeepsSockets ==
    ASSUME StreamInv, TypeOK', NEW f \in Frames, f.kind \in {"redraw", "output"},
           UNCHANGED <<screen, reader>>, owner.pc # "gone", owner'.pc # "gone",
           Queue(f),
           \A s \in Sockets : \A e \in 0 .. screen :
              sink = s /\ Continues(s, e) =>
                 \E b \in 0 .. screen :
                    /\ Leads(f, e, b)
                    /\ owner'.pc \notin {"attached", "draining"} => b = Passed'
    PROVE  \A s \in Sockets : SocketInv(s)'
<1> SUFFICES ASSUME NEW s \in Sockets PROVE SocketInv(s)'
  OBVIOUS
<1>0. TypeOK /\ SocketInv(s) /\ sink \in Sockets \cup {Nobody} /\ screen \in Nat
  BY StreamAssumption DEF StreamInv, TypeOK
<1>1. socket'[s] = IF sink = s THEN Given(socket[s], f) ELSE socket[s]
  BY <1>0, OfferedFields DEF Queue
<1>2. sink' = s => sink = s /\ Accepts(socket[s], f)
  BY StreamAssumption DEF Queue
<1>3. CASE sink = s
  <2>1. socket'[s] = Given(socket[s], f) /\ (~ Accepts(socket[s], f) => sink' # s)
    BY <1>1, <1>2, <1>3
  <2>2. \A e \in 0 .. screen :
           Continues(s, e) =>
              \E b \in 0 .. screen :
                 /\ Leads(f, e, b)
                 /\ sink' = s /\ owner'.pc \notin {"attached", "draining"} => b = Passed'
                 /\ f.kind = "exit" => reader = "gone" /\ b = screen
    BY <1>3
  <2>3. f.kind # "exit"
    OBVIOUS
  <2>4. QED
    BY <1>0, <2>1, <2>2, <2>3, SocketGrows
<1>4. CASE sink # s
  <2>1. socket'[s] = socket[s] /\ KeepsPace(s)
    BY <1>1, <1>2, <1>4 DEF KeepsPace
  <2>2. GoesOn
    BY <1>0 DEF GoesOn
  <2>3. QED
    BY <2>1, <2>2, QuietStep
<1>5. QED
  BY <1>3, <1>4

(* A batch leads a phone on from the chunks the owner has passed *)
LEMMA BatchLeads ==
    ASSUME TypeOK, NEW chunks \in Chunks, Passed >= 0, Passed + Len(chunks) <= screen,
           \A i \in 1 .. Len(chunks) : chunks[i] = Passed + i,
           owner.pc = "forward", Passed' = Passed + Len(chunks)
    PROVE  \A s \in Sockets : \A e \in 0 .. screen :
              sink = s /\ Continues(s, e) =>
                 \E b \in 0 .. screen : Leads(Output(chunks), e, b) /\ b = Passed'
<1> SUFFICES ASSUME NEW s \in Sockets, NEW e \in 0 .. screen, sink = s, Continues(s, e)
             PROVE  \E b \in 0 .. screen : Leads(Output(chunks), e, b) /\ b = Passed'
  OBVIOUS
<1>1. e = Passed
  BY DEF Continues
<1>2. Output(chunks).kind = "output" /\ Output(chunks).chunks = chunks
  BY FramesTyped
<1>3. Leads(Output(chunks), e, Passed + Len(chunks))
  BY <1>1, <1>2 DEF Leads
<1>4. Passed + Len(chunks) \in 0 .. screen
  BY Numbers DEF Chunks
<1>5. QED
  BY <1>3, <1>4

LEMMA BatchIsPassed ==
    ASSUME NEW n \in Int, NEW t \in Nat, NEW k \in Nat, n - t - k >= 0
    PROVE  /\ n - (t - 1) - 0 = (n - t - k) + (k + 1)
           /\ t - 1 \in Nat => (n - t - k) + (k + 1) <= n
  OBVIOUS

LEMMA OwnerStepKeepsSockets ==
    ASSUME StreamInv, TypeOK', ThreadsInv', OwnerStep \/ Expire
    PROVE  \A s \in Sockets : SocketInv(s)'
<1>0. TypeOK /\ ThreadsInv /\ \A s \in Sockets : SocketInv(s)
  BY DEF StreamInv
<1>n. /\ screen \in Nat /\ Len(tap) \in Nat /\ Len(owner.batch) \in Nat
      /\ Published \in Int /\ Passed \in Int
      /\ Passed = Published - Len(tap) - Len(owner.batch)
      /\ Published <= screen
  BY <1>0, Numbers DEF Published
<1>s. Nobody \notin Sockets
  BY StreamAssumption
<1>1. CASE Collect
  <2> DEFINE batch == Append(owner.batch, Head(tap))
  <2>1. /\ owner.pc = "forward" /\ tap # <<>> /\ tap' = Tail(tap)
        /\ UNCHANGED <<reader, screen>>
    BY <1>1 DEF Collect, pty
  <2>2. /\ Len(batch) = Len(owner.batch) + 1
        /\ \A i \in 1 .. Len(owner.batch) + 1 : batch[i] = Passed + i
        /\ Len(Tail(tap)) = Len(tap) - 1
    BY <1>0, <2>1, BatchGrows
  <2>3. batch \in Chunks
    BY <1>0, <2>1, BatchTyped
  <2>4. Published' = Published /\ Passed >= 0 /\ owner'.pc = "forward"
    BY <1>0, <1>1, <2>1 DEF Published, ThreadsInv, ChunksInOrder, Collect, TypeOK
  <2>5. CASE Len(batch) >= FrameChunks
    <3>1. Queue(Output(batch)) /\ owner'.batch = <<>>
      BY <1>0, <1>1, <2>5 DEF Collect, TypeOK
    <3> HIDE DEF batch
    <3>2. Len(tap') \in Nat /\ Len(tap') = Len(tap) - 1 /\ Len(owner'.batch) = 0
      <4>1. Len(tap') \in Nat
        BY DEF TypeOK, Chunks
      <4>2. QED
        BY <2>1, <2>2, <3>1, <4>1
    <3>3. Passed' = Passed + Len(batch) /\ Passed + Len(batch) <= screen
      <4>1. Passed' = Published - (Len(tap) - 1) - 0
        BY <2>4, <3>2 DEF Passed
      <4>2. Passed + Len(batch) = (Published - Len(tap) - Len(owner.batch)) + (Len(owner.batch) + 1)
        BY <1>n, <2>2
      <4>3. Len(tap) - 1 \in Nat
        BY <3>2
      <4>4. Published - Len(tap) - Len(owner.batch) >= 0
        BY <1>n, <2>4
      <4>5. /\ Published - (Len(tap) - 1) - 0
               = (Published - Len(tap) - Len(owner.batch)) + (Len(owner.batch) + 1)
            /\ (Published - Len(tap) - Len(owner.batch)) + (Len(owner.batch) + 1) <= Published
        BY <1>n, <4>3, <4>4, BatchIsPassed
      <4>6. Passed' = Passed + Len(batch)
        BY <4>1, <4>2, <4>5
      <4>7. Passed + Len(batch) <= Published
        BY <4>2, <4>5
      <4>8. Passed + Len(batch) \in Int
        BY <1>n, <2>2
      <4>9. QED
        BY <1>n, <4>6, <4>7, <4>8
    <3>4. /\ Output(batch) \in Frames /\ Output(batch).kind = "output"
      BY <2>3, FramesTyped
    <3>5. \A s \in Sockets : \A e \in 0 .. screen :
             sink = s /\ Continues(s, e) =>
                \E b \in 0 .. screen : Leads(Output(batch), e, b) /\ b = Passed'
      BY <1>0, <2>1, <2>2, <2>3, <2>4, <3>3, BatchLeads
    <3>6. QED
      BY <2>1, <2>4, <3>1, <3>4, <3>5, QueueKeepsSockets
  <2>6. CASE ~ (Len(batch) >= FrameChunks)
    <3>1. owner'.batch = batch /\ UNCHANGED <<sink, socket>>
      BY <1>0, <1>1, <2>6 DEF Collect, TypeOK
    <3> HIDE DEF batch
    <3>2. Passed' = Passed
      BY <1>n, <2>1, <2>2, <2>4, <3>1 DEF Passed
    <3>3. GoesOn /\ \A s \in Sockets : KeepsPace(s)
      BY <1>n, <2>1, <2>4, <3>1, <3>2 DEF GoesOn, KeepsPace
    <3>4. QED
      BY <3>1, <3>3, QuietStep
  <2>7. QED
    BY <2>5, <2>6
<1>2. CASE ForwardEnds
  <2>1. /\ owner.pc = "forward" /\ tap = <<>> /\ owner'.batch = <<>>
        /\ owner'.pc \in {"ending", "events"}
        /\ UNCHANGED <<reader, screen, tap>>
    BY <1>2 DEF ForwardEnds, pty
  <2>2. Len(tap) = 0 /\ Len(tap') = 0 /\ Len(owner'.batch) = 0 /\ Published' = Published
    BY <2>1 DEF Published
  <2>3. Passed >= 0 /\ Passed' = Passed + Len(owner.batch) /\ Passed + Len(owner.batch) <= screen
    BY <1>0, <1>n, <2>1, <2>2 DEF ThreadsInv, ChunksInOrder, Passed
  <2>4. CASE owner.batch = <<>>
    <3>1. UNCHANGED <<sink, socket>> /\ Passed' = Passed
      <4>1. Len(owner.batch) = 0
        BY <2>4
      <4>2. QED
        BY <1>2, <1>n, <2>3, <2>4, <4>1 DEF ForwardEnds, Flush
    <3>2. GoesOn /\ \A s \in Sockets : KeepsPace(s)
      BY <1>n, <2>1, <3>1 DEF GoesOn, KeepsPace
    <3>3. QED
      BY <3>1, <3>2, QuietStep
  <2>5. CASE owner.batch # <<>>
    <3>1. Queue(Output(owner.batch))
      BY <1>2, <2>5 DEF ForwardEnds, Flush
    <3>2. owner.batch \in Chunks /\ \A i \in 1 .. Len(owner.batch) : owner.batch[i] = Passed + i
      BY <1>0, <2>1 DEF TypeOK, ThreadsInv, ChunksInOrder
    <3>3. Output(owner.batch) \in Frames /\ Output(owner.batch).kind = "output"
      BY <3>2, FramesTyped
    <3>4. \A s \in Sockets : \A e \in 0 .. screen :
             sink = s /\ Continues(s, e) =>
                \E b \in 0 .. screen : Leads(Output(owner.batch), e, b) /\ b = Passed'
      BY <1>0, <2>1, <2>3, <3>2, BatchLeads
    <3>5. QED
      BY <2>1, <3>1, <3>3, <3>4, QueueKeepsSockets
  <2>6. QED
    BY <2>4, <2>5
<1>3. CASE Finish
  <2>1. /\ owner.pc = "ending" /\ owner'.pc = "gone" /\ sink' = Nobody
        /\ socket' = Offered(Exit) /\ UNCHANGED <<reader, screen, tap>>
    BY <1>0, <1>3 DEF Finish, pty, TypeOK
  <2>2. reader = "gone" /\ tap = <<>> /\ owner.batch = <<>>
    BY <1>0, <2>1 DEF ThreadsInv, OwnerInPlace
  <2>3. Passed = screen
    <3>1. Len(tap) = 0 /\ Len(owner.batch) = 0 /\ Published = screen
      BY <2>2 DEF Published
    <3>2. QED
      BY <1>n, <3>1
  <2>4. Exit \in Frames /\ Exit.kind = "exit"
    BY FramesTyped
  <2>5. ASSUME NEW s \in Sockets PROVE SocketInv(s)'
    <3>1. socket'[s] = IF sink = s THEN Given(socket[s], Exit) ELSE socket[s]
      BY <1>0, <2>1, <2>4, OfferedFields
    <3>2. sink' # s
      BY <1>s, <2>1
    <3>3. CASE sink = s
      <4>1. ASSUME NEW e \in 0 .. screen, Continues(s, e)
            PROVE  \E b \in 0 .. screen :
                      /\ Leads(Exit, e, b)
                      /\ sink' = s /\ owner'.pc \notin {"attached", "draining"} => b = Passed'
                      /\ Exit.kind = "exit" => reader = "gone" /\ b = screen
        <5>1. e = screen
          BY <2>1, <2>3, <3>3, <4>1 DEF Continues
        <5>2. Leads(Exit, e, e)
          BY <2>4 DEF Leads
        <5>3. QED
          BY <2>2, <3>2, <5>1, <5>2
      <4>2. socket'[s] = Given(socket[s], Exit)
        BY <3>1, <3>3
      <4>3. /\ UNCHANGED <<screen, reader>> /\ owner.pc # "gone" /\ SocketInv(s)
            /\ owner'.pc = "gone"
        BY <1>0, <2>1
      <4>4. PICK f \in Frames : f = Exit
        BY <2>4
      <4>5. /\ socket'[s] = Given(socket[s], f)
            /\ f.kind = "exit" => owner'.pc = "gone"
            /\ ~ Accepts(socket[s], f) => sink' # s
        BY <3>2, <4>2, <4>3, <4>4
      <4>6. \A e \in 0 .. screen :
              Continues(s, e) =>
                 \E b \in 0 .. screen :
                    /\ Leads(f, e, b)
                    /\ sink' = s /\ owner'.pc \notin {"attached", "draining"} => b = Passed'
                    /\ f.kind = "exit" => reader = "gone" /\ b = screen
        BY <4>1, <4>4
      <4>7. QED
        BY <1>0, <4>3, <4>5, <4>6, SocketGrows, SMTT(60)
    <3>4. CASE sink # s
      <4>1. KeepsPace(s)
        BY <3>2 DEF KeepsPace
      <4>2. GoesOn
        <5>1. screen <= screen' /\ screen' = screen /\ reader' = reader
          BY <1>n, <2>1
        <5>2. QED
          BY <2>1, <5>1 DEF GoesOn
      <4>3. QED
        BY <3>1, <3>4, <4>1, <4>2, QuietStep
    <3>5. QED
      BY <3>3, <3>4
  <2>6. QED
    BY <2>5
<1>4. CASE TimedOut \/ Expire \/ Detach
  <2>1. /\ owner.pc = "events" /\ owner'.pc \in {"forward", "killing"}
        /\ owner'.batch = owner.batch /\ sink' \in {sink, Nobody}
        /\ UNCHANGED <<reader, screen, tap, socket>>
    BY <1>0, <1>4 DEF TimedOut, Expire, Detach, pty, TypeOK
  <2>2. Passed' = Passed
    BY <2>1 DEF Passed, Published
  <2>3. GoesOn /\ \A s \in Sockets : KeepsPace(s)
    BY <1>n, <1>s, <2>1, <2>2 DEF GoesOn, KeepsPace
  <2>4. QED
    BY <2>1, <2>3, QuietStep
<1>5. CASE Attach
  <2> DEFINE next == Head(events).from
  <2>1. /\ owner.pc = "events" /\ owner'.pc = "attached" /\ UNCHANGED <<reader, screen, tap>>
        /\ next \in Sockets
        /\ sink' = IF Accepts(socket[next], Hello) THEN next ELSE Nobody
    BY <1>0, <1>5, NextEventTyped DEF Attach, pty, TypeOK
  <2>2. ASSUME NEW s \in Sockets PROVE SocketInv(s)'
    <3>1. socket'[s] = IF s = next THEN Given(socket[s], Hello)
                     ELSE IF s = sink THEN [socket[s] EXCEPT !.verdict = "replaced"]
                     ELSE socket[s]
      BY <1>5 DEF Attach
    <3> HIDE DEF next
    <3>2. CASE s = next
      <4>1. Hello \in Frames /\ Hello.kind = "hello"
        BY FramesTyped
      <4>2. ASSUME NEW e \in 0 .. screen PROVE Leads(Hello, e, e)
        BY <4>1 DEF Leads
      <4>3. ~ Accepts(socket[s], Hello) => sink' # s
        <5>1. CASE ~ Accepts(socket[next], Hello)
          BY <1>s, <2>1, <5>1
        <5>2. QED
          BY <3>2, <5>1
      <4>4. socket'[s] = Given(socket[s], Hello)
        BY <3>1, <3>2
      <4>5. QED
        BY <1>0, <2>1, <4>1, <4>2, <4>3, <4>4, SocketGrows
    <3>3. CASE s # next
      <4>1. GoesOn /\ KeepsPace(s)
        BY <1>n, <2>1 DEF GoesOn, KeepsPace
      <4>2. SameFrames(socket[s], socket'[s]) /\ socket'[s].pc = socket[s].pc
        <5>1. socket[s] \in Connection
          BY <1>0 DEF TypeOK
        <5>2. QED
          BY <3>1, <3>3, <5>1 DEF SameFrames, Connection
      <4>3. QED
        BY <1>0, <4>1, <4>2, SocketStays
    <3>4. QED
      BY <3>2, <3>3
  <2>3. QED
    BY <2>2
<1>6. CASE LockScreen \/ DrainOne
  <2>1. /\ owner.pc # "gone" /\ owner'.pc = "draining" /\ UNCHANGED <<reader, screen, socket>>
    BY <1>0, <1>6 DEF LockScreen, DrainOne, pty, TypeOK
  <2>2. GoesOn /\ \A s \in Sockets : KeepsPace(s)
    BY <1>n, <2>1 DEF GoesOn, KeepsPace
  <2>3. QED
    BY <2>1, <2>2, QuietStep
<1>7. CASE Paint
  <2>1. /\ owner.pc = "draining" /\ tap = <<>> /\ owner'.pc \in {"ending", "forward"}
        /\ owner'.batch = owner.batch /\ UNCHANGED <<reader, screen, tap>>
        /\ Queue(Redraw(screen))
    BY <1>0, <1>7 DEF Paint, TypeOK
  <2>2. reader # "processed" /\ owner.batch = <<>>
    BY <1>0, <2>1 DEF ThreadsInv, LockIsHonoured, OwnerInPlace
  <2>3. Passed' = screen
    <3>1. Len(tap) = 0 /\ Len(owner.batch) = 0 /\ Published' = screen
      BY <2>1, <2>2 DEF Published
    <3>2. QED
      BY <1>n, <2>1, <3>1 DEF Passed
  <2>4. /\ Redraw(screen) \in Frames /\ Redraw(screen).kind = "redraw"
        /\ Redraw(screen).chunks = Printed(screen)
    BY <1>0, FramesTyped DEF TypeOK
  <2>5. \A e \in 0 .. screen : Leads(Redraw(screen), e, screen)
    BY <1>n, <2>4 DEF Leads
  <2>6. screen \in 0 .. screen
    BY <1>n
  <2>7. QED
    BY <2>1, <2>3, <2>4, <2>5, <2>6, QueueKeepsSockets
<1>8. CASE Kill
  <2>1. owner'.pc = "gone" /\ sink' = Nobody /\ UNCHANGED <<reader, screen, socket>>
    BY <1>0, <1>8 DEF Kill, TypeOK
  <2>2. GoesOn
    BY <1>n, <2>1 DEF GoesOn
  <2>3. \A s \in Sockets : KeepsPace(s)
    BY <1>s, <2>1 DEF KeepsPace
  <2>4. QED
    BY <2>1, <2>2, <2>3, QuietStep
<1>9. QED
  BY <1>1, <1>2, <1>3, <1>4, <1>5, <1>6, <1>7, <1>8 DEF OwnerStep

(* While a socket task or a phone acts, the other threads stand still *)
LEMMA OthersStand ==
    ASSUME TypeOK, UNCHANGED <<reader, screen, tap, owner, sink>>
    PROVE  /\ GoesOn
           /\ Passed' = Passed
           /\ \A s \in Sockets : KeepsPace(s)
<1>1. screen \in Nat
  BY Numbers
<1>2. GoesOn
  BY <1>1 DEF GoesOn
<1>3. Passed' = Passed
  BY DEF Passed, Published
<1>4. QED
  BY <1>2, <1>3 DEF KeepsPace

LEMMA ConnectKeepsSocket ==
    ASSUME StreamInv, TypeOK', NEW s \in Sockets, Connect(s) \/ Leave(s) \/ Released(s)
    PROVE  SocketInv(s)'
<1>1. TypeOK /\ SocketInv(s) /\ socket[s] \in Connection
  BY DEF StreamInv, TypeOK
<1>2. GoesOn /\ KeepsPace(s)
  <2>1. UNCHANGED <<reader, screen, tap, owner, sink>>
    BY DEF Connect, Leave, Released, pty
  <2>2. QED
    BY <1>1, <2>1, OthersStand
<1>3. PICK pc : socket'[s] = [socket[s] EXCEPT !.pc = pc]
  BY <1>1 DEF Connect, Leave, Released, TypeOK
<1>4. SameFrames(socket[s], socket'[s]) /\ socket'[s].pc = pc
  BY <1>1, <1>3 DEF SameFrames, Connection
<1>5. \/ socket[s].pc = "new" /\ socket'[s].pc \in {"open", "closed"}
      \/ /\ socket[s].pc = "open" /\ socket'[s].pc = "leaving"
         /\ socket[s].sending = <<>>
      \/ /\ socket'[s].pc = "closed"
         /\ socket[s].sending = <<>> /\ socket[s].frames = <<>>
  BY <1>1 DEF Connect, Leave, Released, TypeOK, Connection
<1>6. QED
  BY <1>1, <1>2, <1>4, <1>5, SocketStays

LEMMA TakeKeepsSocket ==
    ASSUME StreamInv, TypeOK', NEW s \in Sockets, TakeFrame(s)
    PROVE  SocketInv(s)'
<1> DEFINE c == socket[s]
           d == socket'[s]
<1>1. TypeOK /\ SocketInv(s) /\ c \in Connection /\ d \in Connection
  BY DEF StreamInv, TypeOK
<1>2. /\ c.pc = "open" /\ c.sending = <<>> /\ c.frames # <<>>
      /\ UNCHANGED <<reader, screen, tap, owner, sink>>
  BY DEF TakeFrame, pty
<1>3. d = [c EXCEPT !.frames = Tail(c.frames), !.sending = <<Head(c.frames)>>]
  BY <1>1 DEF TakeFrame, TypeOK
<1>4. /\ d.frames = Tail(c.frames) /\ d.sending = <<Head(c.frames)>>
      /\ d.pc = c.pc /\ d.queued = c.queued /\ d.told = c.told /\ d.shown = c.shown
  BY <1>1, <1>3 DEF Connection
<1>5. screen \in Nat /\ Passed' = Passed
  BY <1>1, <1>2, Numbers, OthersStand
<1>6. FramesInv(c) /\ ShowsTheScreen(s) /\ PathOf(s) /\ (Told(c) => owner.pc = "gone")
  BY <1>1, <1>2 DEF SocketInv
<1> HIDE DEF c, d
<1>7. FramesInv(d) /\ (HasExit(d) <=> HasExit(c)) /\ (Told(d) <=> Told(c))
  BY <1>1, <1>2, <1>4, <1>6, FramesAreTaken
<1>8. PICK a \in 0 .. screen, path \in [0 .. Len(c.frames) -> 0 .. screen] :
        IsPath(c, a, path) /\ Continues(s, path[Len(c.frames)])
  BY <1>6 DEF PathOf, c
<1>9. PICK shorter \in [0 .. Len(d.frames) -> 0 .. screen] :
        IsPath(d, a, shorter) /\ shorter[Len(d.frames)] = path[Len(c.frames)]
  <2>1. /\ c \in Connection /\ d \in Connection
        /\ c.sending = <<>> /\ c.frames # <<>>
        /\ d.frames = Tail(c.frames) /\ d.sending = <<Head(c.frames)>> /\ d.shown = c.shown
        /\ screen \in Nat
        /\ path \in [0 .. Len(c.frames) -> 0 .. screen] /\ IsPath(c, a, path)
    BY <1>1, <1>2, <1>4, <1>5, <1>8
  <2>2. QED
    BY <2>1, PathIsTaken, ZenonT(60)
<1>10. PICK e : e = path[Len(c.frames)] /\ Continues(s, e)
  BY <1>8
<1>11. PathOf(s)'
  <2>1. Continues(s, e)'
    BY <1>2, <1>5, <1>7, <1>10 DEF Continues, c, d
  <2>2. shorter[Len(socket'[s].frames)] = e /\ IsPath(socket'[s], a, shorter)
    BY <1>9, <1>10 DEF d
  <2>3. /\ a \in 0 .. screen'
        /\ shorter \in [0 .. Len(socket'[s].frames) -> 0 .. screen']
    BY <1>2, <1>9 DEF d
  <2>4. QED
    BY <2>1, <2>2, <2>3 DEF PathOf
<1>12. ShowsTheScreen(s)' /\ (Told(d) => owner'.pc = "gone")
  BY <1>2, <1>4, <1>6, <1>7 DEF ShowsTheScreen, c, d
<1>13. QED
  BY <1>7, <1>11, <1>12 DEF SocketInv, d

(* The frame on the wire: what the phone shows of it *)
LEMMA SentFields ==
    ASSUME TypeOK, NEW s \in Sockets, Sent(s)
    PROVE  LET c == socket[s]
               d == socket'[s]
               f == Head(c.sending)
           IN  /\ c.sending # <<>> /\ f \in Frames /\ f = c.sending[1]
               /\ d.pc = c.pc /\ d.frames = c.frames /\ d.sending = <<>>
               /\ d.queued = c.queued - Weight(f)
               /\ d.shown = Shows(c, f).shown
               /\ d.told <=> c.told \/ f.kind = "exit"
<1> DEFINE c == socket[s]
           d == socket'[s]
           f == Head(c.sending)
           g == Shows(c, f)
<1>1. c \in Connection /\ c.sending # <<>>
  BY DEF TypeOK, Sent
<1>2. f \in Frames /\ f = c.sending[1]
  BY <1>1, WireTyped
<1>3. d = [g EXCEPT !.sending = <<>>, !.queued = c.queued - Weight(f)]
  BY DEF Sent, TypeOK
<1>4. /\ g \in Connection /\ g.pc = c.pc /\ g.frames = c.frames
      /\ g.told <=> c.told \/ f.kind = "exit"
  BY <1>1, <1>2, ShowsFields
<1> HIDE DEF g
<1>5. /\ d.pc = g.pc /\ d.frames = g.frames /\ d.sending = <<>>
      /\ d.queued = c.queued - Weight(f) /\ d.shown = g.shown /\ d.told = g.told
  BY <1>3, <1>4 DEF Connection
<1>6. QED
  BY <1>1, <1>2, <1>4, <1>5 DEF g

LEMMA SentKeepsSocket ==
    ASSUME StreamInv, TypeOK', NEW s \in Sockets, Sent(s)
    PROVE  SocketInv(s)'
<1> DEFINE c == socket[s]
           d == socket'[s]
<1>1. TypeOK /\ SocketInv(s) /\ c \in Connection /\ d \in Connection
  BY DEF StreamInv, TypeOK
<1>2. /\ c.sending # <<>>
      /\ d.pc = c.pc /\ d.frames = c.frames /\ d.sending = <<>>
      /\ d.queued = c.queued - Weight(Head(c.sending))
      /\ d.shown = Shows(c, Head(c.sending)).shown
      /\ d.told <=> c.told \/ Head(c.sending).kind = "exit"
  BY <1>1, SentFields
<1>3. UNCHANGED <<reader, screen, tap, owner, sink>>
  BY DEF Sent, pty
<1>4. screen \in 0 .. MaxChunks /\ Passed' = Passed
  BY <1>1, <1>3, OthersStand DEF TypeOK
<1>5. FramesInv(c) /\ c.pc = "open" /\ PathOf(s) /\ (Told(c) => owner.pc = "gone")
  BY <1>1, <1>2 DEF SocketInv, FramesInv, OneOnTheWire
<1> HIDE DEF c, d
<1>6. FramesInv(d) /\ (HasExit(d) => HasExit(c)) /\ (Told(d) => Told(c))
  BY <1>1, <1>2, <1>5, WireIsFreed
<1>7. PICK a \in 0 .. screen, path \in [0 .. Len(c.frames) -> 0 .. screen] :
        IsPath(c, a, path) /\ Continues(s, path[Len(c.frames)])
  BY <1>5 DEF PathOf, c
<1>8. d.shown = Printed(path[0])
  BY <1>1, <1>2, <1>4, <1>7, PathIsShown
<1>9. path[0] \in 0 .. screen
  <2>1. Len(c.frames) \in Nat
    BY <1>1 DEF Connection
  <2>2. QED
    BY <2>1, <1>7
<1>10. IsPath(d, path[0], path) /\ path \in [0 .. Len(d.frames) -> 0 .. screen]
  <2>1. \A i \in 1 .. Len(d.frames) : Leads(d.frames[i], path[i - 1], path[i])
    BY <1>2, <1>7 DEF IsPath
  <2>2. QED
    BY <1>2, <1>7, <1>8, <2>1 DEF IsPath
<1>11. PICK e : e = path[Len(c.frames)] /\ Continues(s, e)
  BY <1>7
<1>12. PathOf(s)'
  <2>1. Continues(s, e)'
    BY <1>2, <1>3, <1>4, <1>6, <1>11 DEF Continues, c, d
  <2>2. path[Len(socket'[s].frames)] = e /\ IsPath(socket'[s], path[0], path)
    BY <1>2, <1>10, <1>11 DEF d
  <2>3. /\ path[0] \in 0 .. screen'
        /\ path \in [0 .. Len(socket'[s].frames) -> 0 .. screen']
    BY <1>3, <1>9, <1>10 DEF d
  <2>4. QED
    BY <2>1, <2>2, <2>3 DEF PathOf
<1>13. ShowsTheScreen(s)' /\ (Told(d) => owner'.pc = "gone")
  BY <1>3, <1>5, <1>6, <1>8, <1>9 DEF ShowsTheScreen, d
<1>14. QED
  BY <1>6, <1>12, <1>13 DEF SocketInv, d

LEMMA FailureKeepsSocket ==
    ASSUME StreamInv, TypeOK', NEW s \in Sockets, SendFails(s)
    PROVE  SocketInv(s)'
<1> DEFINE c == socket[s]
           d == socket'[s]
<1>1. TypeOK /\ SocketInv(s) /\ c \in Connection /\ d \in Connection
  BY DEF StreamInv, TypeOK
<1>2. d = [c EXCEPT !.sending = <<>>, !.queued = c.queued - Weight(Head(c.sending)),
                    !.pc = "leaving"]
  BY <1>1 DEF SendFails, TypeOK
<1>3. /\ c.sending # <<>> /\ UNCHANGED <<screen, owner>>
      /\ d.pc = "leaving" /\ d.frames = c.frames /\ d.sending = <<>>
      /\ d.queued = c.queued - Weight(Head(c.sending))
      /\ d.shown = c.shown /\ d.told = c.told
  <2>1. c.sending # <<>> /\ UNCHANGED <<screen, owner>>
    BY DEF SendFails, pty
  <2>2. PICK w : w = c.queued - Weight(Head(c.sending))
    OBVIOUS
  <2>3. d = [c EXCEPT !.sending = <<>>, !.queued = w, !.pc = "leaving"]
    BY <1>2, <2>2
  <2> HIDE DEF c, d
  <2>4. /\ d.pc = "leaving" /\ d.frames = c.frames /\ d.sending = <<>>
        /\ d.queued = w /\ d.shown = c.shown /\ d.told = c.told
    BY <1>1, <2>3 DEF Connection
  <2>5. QED
    BY <2>1, <2>2, <2>4
<1>4. FramesInv(c) /\ ShowsTheScreen(s) /\ (Told(c) => owner.pc = "gone")
  BY <1>1 DEF SocketInv
<1> HIDE DEF c, d
<1>5. FramesInv(d) /\ (Told(d) => Told(c))
  BY <1>1, <1>3, <1>4, WireIsFreed
<1>6. QED
  BY <1>3, <1>4, <1>5 DEF SocketInv, ShowsTheScreen, c, d

LEMMA DetachKeepsSocket ==
    ASSUME StreamInv, TypeOK', NEW s \in Sockets, SendDetach(s)
    PROVE  SocketInv(s)'
<1> DEFINE c == socket[s]
           d == socket'[s]
<1>1. TypeOK /\ SocketInv(s) /\ c \in Connection
  BY DEF StreamInv, TypeOK
<1>2. d = [c EXCEPT !.pc = "closed", !.frames = <<>>]
  BY <1>1 DEF SendDetach, TypeOK
<1>3. /\ c.pc = "leaving" /\ UNCHANGED <<screen, owner>>
      /\ d.pc = "closed" /\ d.frames = <<>> /\ d.sending = c.sending
      /\ d.shown = c.shown /\ d.told = c.told
  BY <1>1, <1>2 DEF SendDetach, Connection, pty
<1>4. FramesInv(c) /\ ShowsTheScreen(s) /\ (Told(c) => owner.pc = "gone")
  BY <1>1 DEF SocketInv
<1>5. c.sending = <<>>
  BY <1>3, <1>4 DEF FramesInv, OneOnTheWire
<1>6. \A i \in 1 .. Len(d.frames) : FALSE
  <2>1. Len(d.frames) = 0
    BY <1>3
  <2> HIDE DEF d
  <2>2. QED
    BY <2>1
<1> HIDE DEF c, d
<1>7. FramesInv(d)
  <2>1. OneOnTheWire(d)
    BY <1>3, <1>4, <1>5 DEF FramesInv, OneOnTheWire
  <2>2. ExitIsLast(d)
    BY <1>3, <1>5, <1>6 DEF ExitIsLast
  <2>3. QED
    BY <1>3, <2>1, <2>2 DEF FramesInv
<1>8. Told(d) => Told(c)
  BY <1>3, <1>5, <1>6 DEF Told, HasExit
<1>9. QED
  BY <1>3, <1>4, <1>7, <1>8 DEF SocketInv, ShowsTheScreen, c, d

LEMMA SocketStepKeepsSockets ==
    ASSUME StreamInv, TypeOK', NEW s \in Sockets, SocketStep(s) \/ SocketEvent(s)
    PROVE  \A t \in Sockets : SocketInv(t)'
<1>1. TypeOK /\ UNCHANGED <<reader, screen, tap, owner, sink>>
  BY DEF StreamInv, SocketStep, SocketEvent, Connect, Leave, Released, TakeFrame, Sent,
         SendFails, SendDetach, pty
<1>2. GoesOn /\ \A t \in Sockets : KeepsPace(t)
  BY <1>1, OthersStand
<1>3. ASSUME NEW t \in Sockets, t # s PROVE socket'[t] = socket[t]
  BY <1>1, <1>3 DEF TypeOK, SocketStep, SocketEvent, Connect, Leave, Released, TakeFrame,
                    Sent, SendFails, SendDetach
<1>4. ASSUME NEW t \in Sockets, t # s PROVE SocketInv(t)'
  BY <1>2, <1>3, <1>4, QuietStep
<1>5. SocketInv(s)'
  <2>1. CASE Connect(s) \/ Leave(s) \/ Released(s)
    BY <2>1, ConnectKeepsSocket
  <2>2. CASE TakeFrame(s)
    BY <2>2, TakeKeepsSocket
  <2>3. CASE Sent(s)
    BY <2>3, SentKeepsSocket
  <2>4. CASE SendFails(s)
    BY <2>4, FailureKeepsSocket
  <2>5. CASE SendDetach(s)
    BY <2>5, DetachKeepsSocket
  <2>6. QED
    BY <2>1, <2>2, <2>3, <2>4, <2>5 DEF SocketStep, SocketEvent
<1>6. QED
  BY <1>4, <1>5

LEMMA ReaderStepKeepsSockets ==
    ASSUME StreamInv, TypeOK', ReaderStep
    PROVE  \A s \in Sockets : SocketInv(s)'
<1>1. TypeOK /\ ThreadsInv /\ screen \in Nat
  BY Numbers DEF StreamInv
<1>2. reader # "gone" /\ UNCHANGED <<owner, sink, socket>>
  BY DEF ReaderStep, ReadChunk, ProcessChunk, PublishChunk, ReadEnd
<1>3. GoesOn
  <2>1. screen' = screen \/ screen' = screen + 1
    BY DEF ReaderStep, ReadChunk, ProcessChunk, PublishChunk, ReadEnd
  <2>2. QED
    BY <1>1, <1>2, <2>1 DEF GoesOn
<1>4. ASSUME NEW s \in Sockets PROVE KeepsPace(s)
  <2>1. CASE owner.pc = "gone"
    <3>1. sink' # s
      BY <1>1, <1>2, <2>1, StreamAssumption DEF ThreadsInv, OwnerInPlace
    <3>2. QED
      BY <3>1 DEF KeepsPace
  <2>2. CASE owner.pc # "gone"
    BY <1>1, <1>2, <2>2, ReaderKeepsPace DEF KeepsPace
  <2>3. QED
    BY <2>1, <2>2
<1>5. QED
  BY <1>2, <1>3, <1>4, QuietStep

LEMMA StreamInit == Init => StreamInv
<1> SUFFICES ASSUME Init PROVE StreamInv
  OBVIOUS
<1>1. TypeOK /\ ThreadsInv
  BY TypeInit, ThreadsInit
<1>2. ASSUME NEW s \in Sockets PROVE SocketInv(s)
  <2> DEFINE c == socket[s]
  <2>1. /\ c.pc = "new" /\ c.frames = <<>> /\ c.sending = <<>> /\ c.queued = 0
        /\ c.shown = <<>> /\ c.told = FALSE /\ Len(c.frames) = 0 /\ Len(c.sending) = 0
        /\ screen = 0 /\ sink = Nobody
    BY DEF Init, Closed
  <2>2. c.shown = Printed(0)
    <3>1. Printed(0) \in Chunks /\ Len(Printed(0)) = 0
      BY PrintedTyped, StreamAssumption
    <3>2. Printed(0) = <<>>
      BY <3>1 DEF Chunks
    <3>3. QED
      BY <2>1, <3>2
  <2> DEFINE none == [i \in 0 .. 0 |-> 0]
  <2>3. /\ none \in [0 .. Len(c.frames) -> 0 .. screen] /\ none[0] = 0
        /\ none \in [0 .. Len(c.frames) -> Nat]
        /\ \A i \in 0 .. Len(c.frames) : i = 0
        /\ \A i \in 1 .. Len(c.frames) : FALSE
    BY <2>1
  <2> HIDE DEF none, c
  <2>4. CountIsExact(c)
    <3>1. Weighs(c.frames, none)
      BY <2>1, <2>3 DEF Weighs
    <3>2. \A i, j \in 0 .. Len(c.frames) : i <= j => none[j] <= none[i]
      BY <2>3
    <3>3. c.queued = none[0] + OnTheWire(c)
      BY <2>1, <2>3 DEF OnTheWire
    <3>4. Len(c.frames) <= SinkFrames /\ c.queued <= SinkBytes
      BY <2>1, StreamAssumption
    <3>5. QED
      BY <2>3, <3>1, <3>2, <3>3, <3>4 DEF CountIsExact
  <2>5. FramesInv(c) /\ ~ Told(c) /\ ~ HasExit(c)
    BY <2>1, <2>3, <2>4 DEF FramesInv, OneOnTheWire, ExitIsLast, Told, HasExit
  <2>6. IsPath(c, 0, none)
    BY <2>1, <2>2, <2>3 DEF IsPath
  <2>7. Continues(s, none[Len(c.frames)])
    BY <2>1, <2>5, StreamAssumption DEF Continues, c
  <2>8. 0 \in 0 .. screen
    BY <2>1
  <2>9. PathOf(s) /\ ShowsTheScreen(s)
    BY <2>2, <2>3, <2>6, <2>7, <2>8 DEF PathOf, ShowsTheScreen, c
  <2>10. QED
    BY <2>5, <2>9 DEF SocketInv, c
<1>3. QED
  BY <1>1, <1>2 DEF StreamInv

LEMMA StreamStep == StreamInv /\ [Next]_vars => StreamInv'
<1> SUFFICES ASSUME StreamInv, [Next]_vars PROVE StreamInv'
  OBVIOUS
<1>1. TypeOK' /\ ThreadsInv' /\ TypeOK
  BY TypeStep, ThreadsStep DEF StreamInv
<1>2. CASE OwnerStep \/ Expire
  BY <1>1, <1>2, OwnerStepKeepsSockets DEF StreamInv
<1>3. CASE ReaderStep
  BY <1>1, <1>3, ReaderStepKeepsSockets DEF StreamInv
<1>4. ASSUME NEW s \in Sockets, SocketStep(s) \/ SocketEvent(s) PROVE StreamInv'
  BY <1>1, <1>4, SocketStepKeepsSockets DEF StreamInv
<1>5. CASE ChildPrints \/ ChildExits \/ UNCHANGED vars
  <2>1. UNCHANGED <<reader, screen, tap, owner, sink, socket>>
    BY <1>5 DEF ChildPrints, ChildExits, vars, pty
  <2>2. GoesOn /\ \A s \in Sockets : KeepsPace(s)
    BY <1>1, <2>1, OthersStand
  <2>3. \A s \in Sockets : SocketInv(s)'
    BY <1>1, <2>1, <2>2, QuietStep
  <2>4. QED
    BY <1>1, <2>3 DEF StreamInv
<1>6. QED
  BY <1>2, <1>3, <1>4, <1>5 DEF Next

-----------------------------------------------------------------------------
(* Types: every variable keeps its type, the tap's chunks and the queued   *)
(* frames included.                                                        *)
THEOREM TypeCorrect == Spec => []TypeOK
<1>1. StreamInv => TypeOK
  BY DEF StreamInv
<1>2. QED
  BY StreamInit, StreamStep, <1>1, PTL DEF Spec

(* The order that makes the tap safe to drain: batch, tap and reader hold  *)
(* the chunks the owner has not passed, in order, and the frames of every  *)
(* connection lead from what its phone shows to what the owner passed.     *)
THEOREM StreamInvariance == Spec => []StreamInv
  BY StreamInit, StreamStep, PTL DEF Spec

(* Safety: "a client that stops reading must not let a chatty child grow   *)
(* this queue without limit": the count two threads keep is exact, so what *)
(* waits for a socket stays within both caps.                              *)
THEOREM QueuesAreBounded == Spec => []QueueIsBounded
<1>1. ASSUME StreamInv, NEW s \in Sockets
      PROVE  /\ Len(socket[s].frames) <= SinkFrames
             /\ \E rest \in [0 .. Len(socket[s].frames) -> 0 .. SinkBytes] :
                  /\ Weighs(socket[s].frames, rest)
                  /\ rest[0] + OnTheWire(socket[s]) <= SinkBytes
  <2> DEFINE c == socket[s]
             m == Len(c.frames)
  <2>1. c \in Connection /\ FramesInv(c) /\ m \in Nat
    BY <1>1 DEF StreamInv, SocketInv, TypeOK, Connection
  <2>2. SinkFrames \in Nat /\ SinkBytes \in Nat
    BY StreamAssumption
  <2>3. CASE CountIsExact(c)
    <3>1. PICK rest \in [0 .. m -> Nat] :
            /\ Weighs(c.frames, rest)
            /\ \A i, j \in 0 .. m : i <= j => rest[j] <= rest[i]
            /\ c.queued = rest[0] + OnTheWire(c)
      BY <2>3 DEF CountIsExact
    <3> HIDE DEF c
    <3>2. 0 \in 0 .. m /\ \A i \in 0 .. m : 0 <= i
      BY <2>1
    <3>3. rest[0] \in Nat /\ OnTheWire(c) \in Nat
      BY <2>1, <3>1, <3>2, WireTyped
    <3>4. rest[0] + OnTheWire(c) <= SinkBytes /\ m <= SinkFrames
      BY <2>3, <3>1 DEF CountIsExact
    <3>5. ASSUME NEW i \in 0 .. m PROVE rest[i] \in 0 .. SinkBytes
      <4>1. rest[i] <= rest[0] /\ rest[i] \in Nat
        BY <3>1, <3>2
      <4>2. QED
        BY <2>2, <3>3, <3>4, <4>1
    <3>6. rest \in [0 .. m -> 0 .. SinkBytes]
      BY <3>1, <3>5
    <3>7. QED
      BY <3>1, <3>4, <3>6 DEF c
  <2>4. CASE c.pc = "closed" /\ c.frames = <<>>
    <3> DEFINE none == [i \in 0 .. 0 |-> 0]
    <3>1. m = 0 /\ c.sending = <<>>
      BY <2>1, <2>4 DEF FramesInv, OneOnTheWire
    <3>2. /\ none \in [0 .. m -> 0 .. SinkBytes] /\ none[0] = 0
          /\ \A i \in 1 .. m : FALSE
      BY <2>2, <3>1
    <3> HIDE DEF none, c
    <3>3. Weighs(c.frames, none) /\ OnTheWire(c) = 0
      BY <3>1, <3>2 DEF Weighs, OnTheWire
    <3>4. none[0] + OnTheWire(c) <= SinkBytes /\ m <= SinkFrames
      BY <2>2, <3>1, <3>2, <3>3
    <3>5. QED
      BY <3>2, <3>3, <3>4 DEF c
  <2>5. QED
    BY <2>1, <2>3, <2>4 DEF FramesInv
<1>2. StreamInv => QueueIsBounded
  BY <1>1 DEF QueueIsBounded
<1>3. QED
  BY StreamInit, StreamStep, <1>2, PTL DEF Spec

-----------------------------------------------------------------------------
(* The refinement *)

MirrorShown == [s \in Sockets |-> socket[s].shown]
MirrorTold == {s \in Sockets : socket[s].told}

LEMMA MirrorStays ==
    ASSUME screen' = screen, reader' = "gone" <=> reader = "gone",
           \A s \in Sockets : /\ socket'[s].shown = socket[s].shown
                              /\ socket'[s].told = socket[s].told
    PROVE  UNCHANGED Mirror!vars
  BY DEF Mirror!vars

(* Offering a frame shows nothing *)
LEMMA OfferShowsNothing ==
    ASSUME TypeOK, NEW f \in Frames, socket' = Offered(f)
    PROVE  \A s \in Sockets : /\ socket'[s].shown = socket[s].shown
                              /\ socket'[s].told = socket[s].told
<1>1. \A s \in Sockets : socket[s] \in Connection
  BY DEF TypeOK
<1>2. QED
  BY <1>1, OfferedFields, GivenFields

LEMMA MirrorInit == Init => Mirror!Init
  BY DEF Init, Closed, Mirror!Init

LEMMA OwnerShowsNothing ==
    ASSUME StreamInv, OwnerStep \/ Expire
    PROVE  UNCHANGED Mirror!vars
<1>1. TypeOK /\ \A s \in Sockets : socket[s] \in Connection
  BY DEF StreamInv, TypeOK
<1>2. UNCHANGED <<screen, reader>>
  BY DEF OwnerStep, Collect, ForwardEnds, Finish, TimedOut, Attach, LockScreen, DrainOne,
         Paint, Detach, Kill, Expire, pty
<1>3. CASE TimedOut \/ LockScreen \/ DrainOne \/ Detach \/ Kill \/ Expire
  <2>1. UNCHANGED socket
    BY <1>3 DEF TimedOut, LockScreen, DrainOne, Detach, Kill, Expire
  <2>2. QED
    BY <1>2, <2>1, MirrorStays
<1>4. CASE Collect
  <2>1. UNCHANGED socket \/ Queue(Output(Append(owner.batch, Head(tap))))
    BY <1>4 DEF Collect
  <2>2. Output(Append(owner.batch, Head(tap))) \in Frames
    BY <1>1, <1>4, BatchTyped, FramesTyped DEF Collect
  <2>3. QED
    BY <1>1, <1>2, <2>1, <2>2, OfferShowsNothing, MirrorStays DEF Queue
<1>5. CASE ForwardEnds
  <2>1. UNCHANGED socket \/ Queue(Output(owner.batch))
    BY <1>5 DEF ForwardEnds, Flush
  <2>2. Output(owner.batch) \in Frames
    BY <1>1, FramesTyped DEF TypeOK
  <2>3. QED
    BY <1>1, <1>2, <2>1, <2>2, OfferShowsNothing, MirrorStays DEF Queue
<1>6. CASE Finish
  <2>1. socket' = Offered(Exit) /\ Exit \in Frames
    BY <1>6, FramesTyped DEF Finish
  <2>2. QED
    BY <1>1, <1>2, <2>1, OfferShowsNothing, MirrorStays
<1>7. CASE Attach
  <2>1. \A s \in Sockets : \/ socket'[s] = Given(socket[s], Hello)
                           \/ socket'[s] = [socket[s] EXCEPT !.verdict = "replaced"]
                           \/ socket'[s] = socket[s]
    BY <1>7 DEF Attach
  <2>2. Hello \in Frames
    BY FramesTyped
  <2>3. ASSUME NEW s \in Sockets
        PROVE  socket'[s].shown = socket[s].shown /\ socket'[s].told = socket[s].told
    <3>1. /\ Given(socket[s], Hello).shown = socket[s].shown
          /\ Given(socket[s], Hello).told = socket[s].told
      BY <1>1, <2>2, GivenFields
    <3>2. /\ [socket[s] EXCEPT !.verdict = "replaced"].shown = socket[s].shown
          /\ [socket[s] EXCEPT !.verdict = "replaced"].told = socket[s].told
      BY <1>1 DEF Connection
    <3>3. QED
      BY <2>1, <3>1, <3>2
  <2>4. QED
    BY <1>2, <2>3, MirrorStays
<1>8. CASE Paint
  <2>1. Queue(Redraw(screen)) /\ Redraw(screen) \in Frames
    BY <1>1, <1>8, FramesTyped DEF Paint, TypeOK
  <2>2. QED
    BY <1>1, <1>2, <2>1, OfferShowsNothing, MirrorStays DEF Queue
<1>9. QED
  BY <1>3, <1>4, <1>5, <1>6, <1>7, <1>8 DEF OwnerStep

LEMMA ReaderPrints ==
    ASSUME StreamInv, ReaderStep
    PROVE  [Mirror!Next]_(Mirror!vars)
<1>1. screen \in Nat
  BY Numbers DEF StreamInv
<1>2. CASE ReadChunk \/ PublishChunk
  <2>1. UNCHANGED <<screen, socket>> /\ reader # "gone" /\ reader' # "gone"
    BY <1>2 DEF ReadChunk, PublishChunk
  <2>2. QED
    BY <2>1, MirrorStays
<1>3. CASE ProcessChunk
  <2>1. reader # "gone" /\ reader' # "gone" /\ screen' = screen + 1 /\ UNCHANGED socket
    BY <1>3 DEF ProcessChunk
  <2>2. Mirror!Output
    BY <2>1 DEF Mirror!Output
  <2>3. QED
    BY <2>2 DEF Mirror!Next
<1>4. CASE ReadEnd
  <2>1. reader' = "gone" /\ UNCHANGED <<screen, socket>>
    BY <1>4 DEF ReadEnd
  <2>2. Mirror!End
    BY <2>1 DEF Mirror!End
  <2>3. QED
    BY <2>2 DEF Mirror!Next
<1>5. QED
  BY <1>2, <1>3, <1>4 DEF ReaderStep

(* A frame that was sent moves the phone to a later screen, or tells it of *)
(* the end when everything is shown                                        *)
LEMMA SentIsShown ==
    ASSUME StreamInv, NEW s \in Sockets, Sent(s)
    PROVE  Mirror!Next
<1> DEFINE c == socket[s]
           d == socket'[s]
           f == Head(c.sending)
<1>1. TypeOK /\ SocketInv(s) /\ c \in Connection
  BY DEF StreamInv, TypeOK
<1>2. /\ c.sending # <<>> /\ f \in Frames /\ f = c.sending[1]
      /\ d.shown = Shows(c, f).shown
      /\ d.told <=> c.told \/ f.kind = "exit"
  BY <1>1, SentFields
<1>3. /\ UNCHANGED <<reader, screen>>
      /\ \A t \in Sockets : t # s => socket'[t] = socket[t]
  BY <1>1 DEF Sent, pty, TypeOK
<1>4. c.pc = "open" /\ PathOf(s) /\ ~ c.told
  BY <1>1, <1>2 DEF SocketInv, FramesInv, OneOnTheWire, ExitIsLast
<1>5. PICK a \in 0 .. screen, path \in [0 .. Len(c.frames) -> 0 .. screen] :
        IsPath(c, a, path) /\ Continues(s, path[Len(c.frames)])
  BY <1>4 DEF PathOf
<1>6. screen \in 0 .. MaxChunks /\ screen \in Nat
  BY <1>1, Numbers DEF TypeOK
<1>7. a <= path[0] /\ Shows(c, f).shown = Printed(path[0])
  BY <1>1, <1>2, <1>5, <1>6, PathIsShown
<1>8. path[0] \in 0 .. screen /\ Len(c.frames) \in Nat
  <2>1. Len(c.frames) \in Nat
    BY <1>1 DEF Connection
  <2>2. QED
    BY <1>5, <2>1
<1>9. c.shown = Printed(a) /\ Len(c.shown) = a
  <2>1. a \in 0 .. MaxChunks
    BY <1>5, <1>6, StreamAssumption
  <2>2. QED
    BY <1>5, <2>1, PrintedTyped DEF IsPath
<1>10. CASE f.kind # "exit"
  <2>1. MirrorTold' = MirrorTold
    BY <1>2, <1>3, <1>10 DEF MirrorTold
  <2>2. MirrorShown' = [MirrorShown EXCEPT ![s] = Printed(path[0])]
    BY <1>2, <1>3, <1>7 DEF MirrorShown
  <2>3. s \notin MirrorTold /\ MirrorShown[s] = c.shown
    BY <1>4 DEF MirrorTold, MirrorShown
  <2>4. path[0] \in Len(MirrorShown[s]) .. screen
    BY <1>6, <1>7, <1>8, <1>9, <2>3
  <2>5. Mirror!Printed(path[0]) = Printed(path[0])
    BY DEF Mirror!Printed, Printed
  <2>6. Mirror!Show(s)
    BY <1>3, <2>1, <2>2, <2>3, <2>4, <2>5 DEF Mirror!Show, MirrorTold, MirrorShown
  <2>7. QED
    BY <2>6 DEF Mirror!Next
<1>11. CASE f.kind = "exit"
  <2>1. c.frames = <<>> /\ HasExit(c)
    BY <1>1, <1>2, <1>11 DEF SocketInv, FramesInv, ExitIsLast, HasExit
  <2>2. Len(c.frames) = 0
    BY <2>1
  <2>3. reader = "gone" /\ path[0] = screen
    BY <1>5, <2>1, <2>2 DEF Continues
  <2>4. path[0] = a
    BY <1>2, <1>5, <1>11 DEF IsPath, Leads
  <2>5. Shows(c, f).shown = c.shown
    BY <1>7, <1>9, <2>4
  <2>6. MirrorShown' = MirrorShown
    BY <1>2, <1>3, <2>5 DEF MirrorShown
  <2>7. MirrorTold' = MirrorTold \cup {s}
    BY <1>2, <1>3, <1>11 DEF MirrorTold
  <2>8. MirrorShown[s] = Mirror!Printed(screen)
    BY <1>9, <2>3, <2>4 DEF MirrorShown, Printed, Mirror!Printed
  <2>9. Mirror!Tell(s)
    BY <1>3, <2>3, <2>6, <2>7, <2>8 DEF Mirror!Tell, MirrorTold, MirrorShown
  <2>10. QED
    BY <2>9 DEF Mirror!Next
<1>12. QED
  BY <1>10, <1>11

LEMMA MirrorStep == StreamInv /\ [Next]_vars => [Mirror!Next]_(Mirror!vars)
<1> SUFFICES ASSUME StreamInv, [Next]_vars PROVE [Mirror!Next]_(Mirror!vars)
  OBVIOUS
<1>1. TypeOK /\ \A s \in Sockets : socket[s] \in Connection
  BY DEF StreamInv, TypeOK
<1>2. CASE OwnerStep \/ Expire
  BY <1>2, OwnerShowsNothing
<1>3. CASE ReaderStep
  BY <1>3, ReaderPrints
<1>4. CASE ChildPrints \/ ChildExits \/ UNCHANGED vars
  <2>1. UNCHANGED <<screen, reader, socket>>
    BY <1>4 DEF ChildPrints, ChildExits, vars, pty
  <2>2. QED
    BY <2>1, MirrorStays
<1>5. ASSUME NEW s \in Sockets, Connect(s) \/ TakeFrame(s) \/ SendFails(s) \/ Leave(s)
                                  \/ SendDetach(s) \/ Released(s)
      PROVE  UNCHANGED Mirror!vars
  <2>1. UNCHANGED <<screen, reader>>
    BY <1>5 DEF Connect, TakeFrame, SendFails, Leave, SendDetach, Released, pty
  <2>2. \A t \in Sockets : t # s => socket'[t] = socket[t]
    BY <1>1, <1>5 DEF Connect, TakeFrame, SendFails, Leave, SendDetach, Released, TypeOK
  <2>3. socket \in [Sockets -> Connection] /\ socket[s] \in Connection
    BY <1>1 DEF TypeOK
  <2>4. socket'[s].shown = socket[s].shown /\ socket'[s].told = socket[s].told
    <3>1. CASE Connect(s) \/ Leave(s) \/ Released(s)
      <4>1. PICK pc : socket'[s] = [socket[s] EXCEPT !.pc = pc]
        BY <2>3, <3>1 DEF Connect, Leave, Released
      <4>2. QED
        BY <2>3, <4>1 DEF Connection
    <3>2. CASE TakeFrame(s)
      BY <2>3, <3>2 DEF TakeFrame, Connection
    <3>3. CASE SendFails(s)
      BY <2>3, <3>3 DEF SendFails, Connection
    <3>4. CASE SendDetach(s)
      BY <2>3, <3>4 DEF SendDetach, Connection
    <3>5. QED
      BY <1>5, <3>1, <3>2, <3>3, <3>4
  <2>5. QED
    BY <2>1, <2>2, <2>4, MirrorStays
<1>6. ASSUME NEW s \in Sockets, SocketStep(s) \/ SocketEvent(s)
      PROVE  [Mirror!Next]_(Mirror!vars)
  BY <1>5, <1>6, SentIsShown DEF SocketStep, SocketEvent
<1>7. QED
  BY <1>2, <1>3, <1>4, <1>6 DEF Next

(* Refinement: "a chunk is either already rendered into the snapshot and   *)
(* then drained, or still on the tap and streamed after it - never both",  *)
(* through takeovers, batches and the child's end.                         *)
THEOREM PhonesMirrorTheScreen == Spec => ImplementsScreenMirror
  BY StreamInit, StreamStep, MirrorInit, MirrorStep, PTL
  DEF Spec, ImplementsScreenMirror, Mirror!Spec
=============================================================================
