---------------------------- MODULE MCBookingStore ----------------------------
(* Instances of BookingStore for TLC. *)
EXTENDS BookingStore, TLC

Symmetry == Permutations(Users) \cup Permutations(Slots)
===============================================================================
