----------------------------- MODULE MCBookingBot -----------------------------
(* Instances of BookingBot for TLC. *)
EXTENDS BookingBot, TLC

Symmetry == Permutations(Users) \cup Permutations(Slots) \cup Permutations(Tasks)
===============================================================================
