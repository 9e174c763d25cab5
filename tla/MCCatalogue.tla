------------------------------ MODULE MCCatalogue ------------------------------
(* Instances of Catalogue for TLC. *)
EXTENDS Catalogue, TLC

CONSTANTS s1, s3, v1, o1, o2, u1, t1

(* Two slots of one service, with a day off between their days. *)
MCServiceOf == s1 :> v1 @@ s3 :> v1
MCDayOf     == s1 :> 1 @@ s3 :> 3
(* The alert, the menus of the offer and the menu of the own bookings. *)
MCMixes ==
    {[kinds |-> {"services"},        tasks |-> Tasks, users |-> {u1}],
     [kinds |-> {"service", "date"}, tasks |-> {t1},  users |-> {u1}],
     [kinds |-> {"my"},              tasks |-> {t1},  users |-> Users]}
MCOwners    == <<o1, o2>>
===============================================================================
