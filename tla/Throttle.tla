-------------------------------- MODULE Throttle --------------------------------
(***************************************************************************)
(* ThrottlingMiddleware of src/core/throttling.py, in front of every       *)
(* message handler.  The time of a user's last message is kept twice: in a *)
(* dictionary of the process, read and written without an await, and in a  *)
(* Redis key that expires.  The dictionary alone never drops a message     *)
(* when there is a Redis: it only decides whether Redis is asked.          *)
(*                                                                         *)
(* Every message is a task of its own, so messages of one user interleave  *)
(* at the two Redis calls.  time.time() is the wall clock, which may be    *)
(* set back; the key expires by Redis's own count of seconds.              *)
(***************************************************************************)
EXTENDS Integers

CONSTANTS
    Users,
    Messages,       \* bound: messages ever sent
    Limit,          \* rate_limit, in ticks
    Idle,           \* max_idle, in ticks
    MaxTime,        \* bound: the clock stops here
    MaxFaults       \* bound: failing Redis calls, crashes and settings of the clock

(* Limit <= Idle holds for the defaults of src/core/config.py, 0.5 and 60. *)
ASSUME ThrottleAssumption ==
    /\ Limit \in Nat \ {0}
    /\ Idle \in Nat
    /\ Limit <= Idle
    /\ MaxTime \in Nat
    /\ MaxFaults \in Nat

VARIABLES
    redis_on,       \* was the middleware given a redis_url
    now,            \* time.time()
    local,          \* _local_cache: time of the last message let through, 0 for none
    stamp, ttl,     \* the Redis key: its value, and the ticks it still lives
    msg,            \* the messages so far
    quiet,          \* ticks since a message of the user reached its handler, up to Idle
    disturbed,      \* users with overlapping or stuck messages, or who met a fault
    faults

clockVars == <<now, ttl, quiet>>
vars == <<redis_on, clockVars, local, stamp, msg, disturbed, faults>>

(* "get" and "set" await Redis; "through" has reached the handler, "cut"   *)
(* was let through and "lost" was not decided when the process died.       *)
Pcs     == {"get", "set", "through", "dropped", "cut", "lost"}
Message == [user : Users, at : Nat, pc : Pcs]

(* The clock starts far enough from 0 for 0 to be long ago. *)
ThrottleInit ==
    /\ redis_on \in BOOLEAN
    /\ now = Limit
    /\ local = [u \in Users |-> 0]
    /\ stamp = [u \in Users |-> 0]
    /\ ttl = [u \in Users |-> 0]
    /\ msg = << >>
    /\ quiet = [u \in Users |-> Idle]
    /\ disturbed = {}
    /\ faults = 0
-------------------------------------------------------------------------------
RecentAtLimit(at, last) == at - last <= Limit
Recent(at, last) == at - last < Limit

At(m, pc)   == m \in DOMAIN msg /\ msg[m].pc = pc
Goto(m, pc) == msg' = [msg EXCEPT ![m].pc = pc]
Fault       == faults < MaxFaults /\ faults' = faults + 1
InFlight(u) == \E m \in DOMAIN msg : msg[m].user = u /\ msg[m].pc \in {"get", "set"}

(* What follows a decision to let a message through: its time goes into    *)
(* the dictionary, and then, if there is one, into Redis.                  *)
RememberedForgotten(u, at) == local
Remembered(u, at) == [local EXCEPT ![u] = at]

(* A message arrives: up to the first await there is only the dictionary.  *)
Arrive(m, u) ==
    /\ m \notin DOMAIN msg
    /\ LET recent == Recent(now, local[u])
           pc == CASE recent /\ redis_on    -> "get"
                   [] recent /\ ~redis_on   -> "dropped"
                   [] ~recent /\ redis_on   -> "set"
                   [] ~recent /\ ~redis_on  -> "through"
       IN  /\ msg' = [n \in DOMAIN msg \cup {m} |->
                          IF n = m THEN [user |-> u, at |-> now, pc |-> pc] ELSE msg[n]]
           /\ local' = IF recent THEN local ELSE Remembered(u, now)
           /\ quiet' = IF pc = "through" THEN [quiet EXCEPT ![u] = 0] ELSE quiet
    /\ disturbed' = IF InFlight(u) THEN disturbed \cup {u} ELSE disturbed
    /\ UNCHANGED <<redis_on, now, stamp, ttl, faults>>

(* The key is read: the message is dropped, or let through. *)
GetStamp(m) ==
    /\ At(m, "get")
    /\ LET u == msg[m].user
       IN  IF ttl[u] > 0 /\ Recent(msg[m].at, stamp[u])
           THEN Goto(m, "dropped") /\ UNCHANGED local
           ELSE Goto(m, "set") /\ local' = Remembered(u, msg[m].at)
    /\ UNCHANGED <<redis_on, clockVars, stamp, disturbed, faults>>

(* "except Exception: pass": without Redis the message is let through. *)
GetFails(m) ==
    /\ At(m, "get")
    /\ Fault
    /\ Goto(m, "set")
    /\ local' = Remembered(msg[m].user, msg[m].at)
    /\ disturbed' = disturbed \cup {msg[m].user}
    /\ UNCHANGED <<redis_on, clockVars, stamp>>

(* ex=int(self._max_idle). *)
KeyLifeRoundedUp == Idle + 1
KeyLife == Idle

SetStamp(m) ==
    /\ At(m, "set")
    /\ stamp' = [stamp EXCEPT ![msg[m].user] = msg[m].at]
    /\ ttl' = [ttl EXCEPT ![msg[m].user] = KeyLife]
    /\ quiet' = [quiet EXCEPT ![msg[m].user] = 0]
    /\ Goto(m, "through")
    /\ UNCHANGED <<redis_on, now, local, disturbed, faults>>

SetFails(m) ==
    /\ At(m, "set")
    /\ Fault
    /\ quiet' = [quiet EXCEPT ![msg[m].user] = 0]
    /\ disturbed' = disturbed \cup {msg[m].user}
    /\ Goto(m, "through")
    /\ UNCHANGED <<redis_on, now, ttl, local, stamp>>
-------------------------------------------------------------------------------
(* A tick of all clocks: ex=int(self._max_idle) runs down in Redis.  A     *)
(* Redis call that is still not back when the key expires is a disturbance.*)
TtlNever(left) == left
TtlAfterTick(left) == IF left > 0 THEN left - 1 ELSE 0

Tick ==
    /\ now < MaxTime
    /\ now' = now + 1
    /\ ttl' = [u \in Users |-> TtlAfterTick(ttl[u])]
    /\ quiet' = [u \in Users |-> IF quiet[u] < Idle THEN quiet[u] + 1 ELSE Idle]
    /\ disturbed' = disturbed \cup {u \in Users : InFlight(u) /\ ttl[u] = 1}
    /\ UNCHANGED <<redis_on, local, stamp, msg, faults>>

(* The wall clock of the host is set back. *)
SetBack ==
    /\ Fault
    /\ now' \in Limit..(now - 1)
    /\ disturbed' = Users
    /\ UNCHANGED <<redis_on, ttl, quiet, local, stamp, msg>>

(* The process dies and starts again with an empty dictionary. *)
Crash ==
    /\ Fault
    /\ local' = [u \in Users |-> 0]
    /\ msg' = [m \in DOMAIN msg |->
                  [msg[m] EXCEPT !.pc = CASE @ = "get" -> "lost" [] @ = "set" -> "cut" [] OTHER -> @]]
    /\ disturbed' = Users
    /\ UNCHANGED <<redis_on, clockVars, stamp>>

ThrottleNext ==
    \/ \E m \in Messages, u \in Users : Arrive(m, u)
    \/ \E m \in Messages :
          GetStamp(m) \/ GetFails(m) \/ SetStamp(m) \/ SetFails(m)
    \/ Tick \/ SetBack \/ Crash

ThrottleSpec == ThrottleInit /\ [][ThrottleNext]_vars
-------------------------------------------------------------------------------
LetThrough(m) == msg[m].pc \in {"set", "through", "cut"}

(* The dictionary, the key and the messages hold values of their types. *)
ThrottleTypeOK ==
    /\ redis_on \in BOOLEAN
    /\ now \in Nat
    /\ local \in [Users -> Nat]
    /\ stamp \in [Users -> Nat]
    /\ ttl \in [Users -> 0..Idle]
    /\ DOMAIN msg \subseteq Messages
    /\ msg \in [DOMAIN msg -> Message]
    /\ quiet \in [Users -> 0..Idle]
    /\ disturbed \subseteq Users
    /\ faults \in 0..MaxFaults

(* A message is dropped only for another message of the same user that was *)
(* let through less than Limit before it: what was dropped itself does not *)
(* extend the pause, and neither a slow Redis nor a stale key does.        *)
NoFalseDrop ==
    \A m \in DOMAIN msg :
        msg[m].pc = "dropped" =>
            \E n \in DOMAIN msg :
                /\ LetThrough(n)
                /\ msg[n].user = msg[m].user
                /\ msg[m].at - msg[n].at < Limit

(* Messages of a user that do not overlap, and meet no fault, reach the    *)
(* handler at least Limit apart: the two levels lose no message's time     *)
(* between them.                                                           *)
CalmIsSpaced ==
    \A m, n \in DOMAIN msg :
        /\ m # n
        /\ msg[m].user = msg[n].user
        /\ msg[m].user \notin disturbed
        /\ LetThrough(m)
        /\ LetThrough(n)
        => msg[m].at - msg[n].at >= Limit \/ msg[n].at - msg[m].at >= Limit

(* Whatever the wall clock does, nobody is shut out by Redis for longer    *)
(* than Idle after a message of theirs reached its handler.                *)
ShutOutEnds ==
    [][\A m \in DOMAIN msg :
          redis_on /\ msg[m].pc # "dropped" /\ msg'[m].pc = "dropped"
              => quiet[msg[m].user] < Idle]_vars
===============================================================================
