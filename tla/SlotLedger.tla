------------------------------ MODULE SlotLedger ------------------------------
(***************************************************************************)
(* What the booking service promises its customers, with no tables in it:  *)
(* a slot is held by at most one customer, a free slot is taken by one     *)
(* customer at a time, and only the customer who holds a slot gives it     *)
(* back.  BookingStore is shown to implement this specification.           *)
(***************************************************************************)
CONSTANTS Users, Slots

VARIABLE held          \* the pairs <<customer, slot>> that are holds now

Init == held = {}

Free(s) == \A u \in Users : <<u, s>> \notin held

(* A customer takes a free slot. *)
Take(u, s) ==
    /\ Free(s)
    /\ held' = held \cup {<<u, s>>}

(* A customer gives back some of the slots that customer holds, at once. *)
Release(u, S) ==
    /\ {u} \X S \subseteq held
    /\ held' = held \ ({u} \X S)

Next ==
    \E u \in Users :
        \/ \E s \in Slots : Take(u, s)
        \/ \E S \in SUBSET Slots : Release(u, S)

Spec == Init /\ [][Next]_held

(* A slot is never held by two customers. *)
Exclusive ==
    \A u, v \in Users, s \in Slots :
        <<u, s>> \in held /\ <<v, s>> \in held => u = v
===============================================================================
