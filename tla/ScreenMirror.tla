---------------------------- MODULE ScreenMirror ----------------------------
(***************************************************************************)
(* What a phone attached to a terminal is promised: whatever it shows is   *)
(* the terminal's screen at some moment, without a chunk of output printed *)
(* twice or missing, it only moves forward, and the end is announced when  *)
(* everything is shown.                                                    *)
(***************************************************************************)
EXTENDS Naturals, Sequences

CONSTANT Sockets

VARIABLES screen,  \* how many chunks of output the terminal has printed
          over,    \* the child's output has ended
          shown,   \* per socket: the chunks its phone has printed
          told     \* the sockets that were told about the end

vars == <<screen, over, shown, told>>

Printed(n) == [i \in 1 .. n |-> i]

Init ==
    /\ screen = 0
    /\ over = FALSE
    /\ shown = [s \in Sockets |-> <<>>]
    /\ told = {}

Output ==
    /\ ~ over
    /\ screen' = screen + 1
    /\ UNCHANGED <<over, shown, told>>

End ==
    /\ over' = TRUE
    /\ UNCHANGED <<screen, shown, told>>

Show(s) ==
    /\ s \notin told
    /\ \E n \in Len(shown[s]) .. screen : shown' = [shown EXCEPT ![s] = Printed(n)]
    /\ UNCHANGED <<screen, over, told>>

Tell(s) ==
    /\ over
    /\ shown[s] = Printed(screen)
    /\ told' = told \cup {s}
    /\ UNCHANGED <<screen, over, shown>>

Next == Output \/ End \/ \E s \in Sockets : Show(s) \/ Tell(s)

Spec == Init /\ [][Next]_vars
=============================================================================
