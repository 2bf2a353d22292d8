--------------------------- MODULE SharedListing ---------------------------
(***************************************************************************)
(* What the shared listing cache promises to every viewer of one           *)
(* (backend, scope): a copy of the provider's listing that only ever moves *)
(* forward, and that is offered as fresh only while it already contains    *)
(* every mutation the scope was invalidated for.                           *)
(*                                                                         *)
(* A listing is abstracted to the version of the provider's data it shows. *)
(***************************************************************************)
EXTENDS Integers

VARIABLES truth,    \* version of the provider's own data
          fenced,   \* newest version some completed invalidation covered
          copy,     \* version of the stored copy, 0 before the first
          fresh     \* the copy may be served without asking the provider

vars == <<truth, fenced, copy, fresh>>

TypeOK == /\ truth \in Nat
          /\ fenced \in Nat
          /\ copy \in Nat
          /\ fresh \in BOOLEAN

Init == /\ truth = 1
        /\ fenced = 0
        /\ copy = 0
        /\ fresh = FALSE

(* The provider's data changes, through a viewer or on its own. *)
Change == /\ truth' = truth + 1
          /\ UNCHANGED <<fenced, copy, fresh>>

(* A finished mutation withdraws whatever the cache holds. *)
Withdraw == /\ fenced' = truth
            /\ fresh' = FALSE
            /\ UNCHANGED <<truth, copy>>

(* A refresh that nothing withdrew replaces the copy. *)
Publish == /\ \E version \in copy .. truth :
                 /\ version >= fenced
                 /\ copy' = version
           /\ fresh' = TRUE
           /\ UNCHANGED <<truth, fenced>>

Next == Change \/ Withdraw \/ Publish

Spec == Init /\ [][Next]_vars

(* A copy offered as fresh holds every mutation that was withdrawn for. *)
FreshHoldsMutations == fresh => copy >= fenced
=============================================================================
