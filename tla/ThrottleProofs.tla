----------------------------- MODULE ThrottleProofs -----------------------------
(***************************************************************************)
(* Theorems about Throttle, for every number of users and messages, every  *)
(* rate limit and every number of faults, the clock set back included.     *)
(***************************************************************************)
EXTENDS Throttle, TLAPS

Typed ==
    /\ now \in Nat /\ now >= Limit
    /\ local \in [Users -> Nat]
    /\ stamp \in [Users -> Nat]
    /\ ttl \in [Users -> 0..Idle]
    /\ quiet \in [Users -> 0..Idle]

MsgTyped ==
    /\ msg \in [DOMAIN msg -> Message]
    /\ \A m \in DOMAIN msg : msg[m].at >= Limit

(* The times of the messages of a user that were let through.              *)
Times(u) == {at \in Nat : \E n \in DOMAIN msg :
                 LetThrough(n) /\ msg[n].user = u /\ msg[n].at = at}

(* A time that can drop a message is that of a message let through.        *)
Sourced ==
    \A u \in Users :
        /\ local[u] # 0 => local[u] \in Times(u)
        /\ ttl[u] > 0 => stamp[u] \in Times(u)

(* The key lives no longer than the user has been quiet for.               *)
KeyIsFresh == \A u \in Users : ttl[u] > 0 => quiet[u] + ttl[u] <= Idle

HInv == Typed /\ MsgTyped /\ Sourced /\ KeyIsFresh /\ NoFalseDrop
-------------------------------------------------------------------------------
LEMMA HInit == ThrottleInit => HInv
<1> SUFFICES ASSUME ThrottleInit PROVE HInv
    OBVIOUS
<1>1. Typed
  <2>1. Limit \in Nat /\ Idle \in Nat /\ 0 \in 0..Idle /\ Idle \in 0..Idle
      BY ThrottleAssumption
  <2> QED
      BY <2>1 DEF ThrottleInit, Typed
<1>2. MsgTyped /\ NoFalseDrop
    BY DEF ThrottleInit, MsgTyped, NoFalseDrop
<1>3. Sourced /\ KeyIsFresh
    BY DEF ThrottleInit, Sourced, KeyIsFresh
<1> QED
    BY <1>1, <1>2, <1>3 DEF HInv

(* Messages are never forgotten, and one let through stays so.             *)
Grows ==
    /\ DOMAIN msg \subseteq DOMAIN msg'
    /\ \A n \in DOMAIN msg :
          /\ msg'[n].user = msg[n].user
          /\ msg'[n].at = msg[n].at
          /\ LetThrough(n) => LetThrough(n)'

LEMMA TimesKept ==
    ASSUME Grows
    PROVE  \A u : Times(u) \subseteq Times(u)'
    BY DEF Grows, Times, LetThrough

(* A step is right when the times it keeps were right, or are those of     *)
(* messages it lets through, and what it drops has a source.               *)
LocalKept == \A u \in Users : local'[u] \in {local[u], 0} \cup Times(u)'
StampKept == \A u \in Users : ttl'[u] > 0 => \/ ttl[u] > 0 /\ stamp'[u] = stamp[u]
                                             \/ stamp'[u] \in Times(u)'
DropsRight ==
    \A m \in DOMAIN msg' :
        msg'[m].pc = "dropped" =>
            \/ m \in DOMAIN msg /\ msg[m].pc = "dropped"
            \/ \E at \in Times(msg'[m].user) : msg'[m].at - at < Limit

LEMMA StepKeeps ==
    ASSUME HInv, Typed', MsgTyped', KeyIsFresh', Grows, LocalKept, StampKept, DropsRight
    PROVE  HInv'
<1>0. \A u : Times(u) \subseteq Times(u)'
    BY TimesKept
<1>1. Sourced'
  <2>1. \A u \in Users : local'[u] # 0 => local'[u] \in Times(u)'
      BY <1>0 DEF HInv, Sourced, LocalKept
  <2>2. \A u \in Users : ttl'[u] > 0 => stamp'[u] \in Times(u)'
      BY <1>0 DEF HInv, Sourced, StampKept
  <2> QED
      BY <2>1, <2>2 DEF Sourced
<1>2. NoFalseDrop'
  <2> SUFFICES ASSUME NEW m \in DOMAIN msg', msg'[m].pc = "dropped"
               PROVE  \E n \in DOMAIN msg' :
                         /\ LetThrough(n)'
                         /\ msg'[n].user = msg'[m].user
                         /\ msg'[m].at - msg'[n].at < Limit
      BY DEF NoFalseDrop
  <2>1. CASE m \in DOMAIN msg /\ msg[m].pc = "dropped"
    <3>1. PICK n \in DOMAIN msg : /\ LetThrough(n)
                                  /\ msg[n].user = msg[m].user
                                  /\ msg[m].at - msg[n].at < Limit
        BY <2>1 DEF HInv, NoFalseDrop
    <3> QED
        BY <2>1, <3>1 DEF Grows
  <2>2. CASE \E at \in Times(msg'[m].user) : msg'[m].at - at < Limit
    <3>1. PICK at \in Times(msg'[m].user) : msg'[m].at - at < Limit
        BY <2>2
    <3>2. PICK n \in DOMAIN msg : LetThrough(n) /\ msg[n].user = msg'[m].user /\ msg[n].at = at
        BY <3>1 DEF Times
    <3> QED
        BY <3>1, <3>2 DEF Grows
  <2> QED
      BY <2>1, <2>2 DEF DropsRight
<1> QED
    BY <1>1, <1>2 DEF HInv
-------------------------------------------------------------------------------
(* What a step does to the messages.                                       *)
LEMMA GotoKeeps ==
    ASSUME HInv, NEW m, NEW pc, NEW next \in Pcs, At(m, pc), Goto(m, next),
           pc \in {"get", "set"}, pc = "set" => next = "through"
    PROVE  /\ m \in DOMAIN msg /\ msg[m] \in Message /\ msg[m].at >= Limit
           /\ DOMAIN msg' = DOMAIN msg
           /\ msg'[m].user = msg[m].user /\ msg'[m].at = msg[m].at /\ msg'[m].pc = next
           /\ \A n \in DOMAIN msg : n # m => msg'[n] = msg[n]
           /\ MsgTyped'
           /\ Grows
<1>1. m \in DOMAIN msg /\ msg[m].pc = pc /\ msg' = [msg EXCEPT ![m].pc = next]
    BY DEF At, Goto
<1>2. msg \in [DOMAIN msg -> Message] /\ \A n \in DOMAIN msg : msg[n].at >= Limit
    BY DEF HInv, MsgTyped
<1>3. msg[m] \in Message /\ msg[m].at >= Limit
    BY <1>1, <1>2
<1>4. DOMAIN msg' = DOMAIN msg /\ \A n \in DOMAIN msg : n # m => msg'[n] = msg[n]
    BY <1>1, <1>2
<1>5. msg'[m] = [msg[m] EXCEPT !.pc = next]
    BY <1>1, <1>2
<1>6. /\ msg'[m].user = msg[m].user /\ msg'[m].at = msg[m].at /\ msg'[m].pc = next
      /\ msg'[m] \in Message
    BY <1>3, <1>5 DEF Message
<1>7. MsgTyped'
  <2>1. msg' \in [DOMAIN msg' -> Message]
      BY <1>1, <1>2, <1>4, <1>6
  <2> QED
      BY <2>1, <1>2, <1>3, <1>4, <1>6 DEF MsgTyped
<1>8. Grows
    BY <1>1, <1>4, <1>6 DEF Grows, LetThrough
<1> QED
    BY <1>1, <1>3, <1>4, <1>6, <1>7, <1>8

LEMMA SameMessages ==
    ASSUME HInv, msg' = msg
    PROVE  MsgTyped' /\ Grows /\ DropsRight
<1>1. MsgTyped'
    BY DEF HInv, MsgTyped
<1> QED
    BY <1>1 DEF Grows, LetThrough, DropsRight

(* The dictionary is not written.                                          *)
LEMMA SameLocal == ASSUME local' = local PROVE LocalKept
    BY DEF LocalKept

(* Writing the time of a message that is let through to the dictionary.    *)
LEMMA RememberKeeps ==
    ASSUME HInv, NEW u \in Users, NEW at \in Times(u)', local' = Remembered(u, at)
    PROVE  LocalKept /\ local' \in [Users -> Nat]
<1>1. local \in [Users -> Nat] /\ at \in Nat
    BY DEF HInv, Typed, Times
<1>2. local' = [local EXCEPT ![u] = at]
    BY DEF Remembered
<1>3. local'[u] = at /\ \A v \in Users : v # u => local'[v] = local[v]
    BY <1>1, <1>2
<1>4. LocalKept
    BY <1>3 DEF LocalKept
<1> QED
    BY <1>1, <1>2, <1>4
-------------------------------------------------------------------------------
LEMMA ArriveKeeps ==
    ASSUME HInv, NEW m \in Messages, NEW u \in Users, Arrive(m, u)
    PROVE  HInv'
<1> DEFINE recent == Recent(now, local[u])
           pc == CASE recent /\ redis_on    -> "get"
                   [] recent /\ ~redis_on   -> "dropped"
                   [] ~recent /\ redis_on   -> "set"
                   [] ~recent /\ ~redis_on  -> "through"
           new == [user |-> u, at |-> now, pc |-> pc]
<1>1. /\ m \notin DOMAIN msg
      /\ msg' = [n \in DOMAIN msg \cup {m} |-> IF n = m THEN new ELSE msg[n]]
      /\ local' = IF recent THEN local ELSE Remembered(u, now)
      /\ quiet' = IF pc = "through" THEN [quiet EXCEPT ![u] = 0] ELSE quiet
      /\ UNCHANGED <<redis_on, now, stamp, ttl, faults>>
    BY Zenon DEF Arrive
<1>2. /\ Typed /\ MsgTyped /\ now \in Nat /\ now >= Limit
      /\ Idle \in Nat /\ Limit \in Nat \ {0} /\ 0 \in 0..Idle
    BY ThrottleAssumption DEF HInv, Typed
<1>3. pc \in Pcs /\ (pc = "dropped" => recent) /\ (~recent => pc \in {"set", "through"})
    BY DEF Pcs
<1> HIDE DEF pc, recent
<1>4. new \in Message /\ new.user = u /\ new.at = now /\ new.pc = pc
    BY <1>2, <1>3 DEF Message
<1> HIDE DEF new
<1>5. /\ DOMAIN msg' = DOMAIN msg \cup {m} /\ msg'[m] = new
      /\ \A n \in DOMAIN msg : msg'[n] = msg[n]
    BY <1>1
<1>6. MsgTyped'
  <2>1. msg' \in [DOMAIN msg' -> Message]
      BY <1>1, <1>2, <1>4, <1>5 DEF MsgTyped
  <2> QED
      BY <2>1, <1>2, <1>4, <1>5 DEF MsgTyped
<1>7. Grows
    BY <1>5 DEF Grows, LetThrough
<1>8. LocalKept /\ local' \in [Users -> Nat]
  <2>1. CASE recent
      BY <2>1, <1>1, <1>2 DEF LocalKept, Typed
  <2>2. CASE ~recent
    <3>1. now \in Times(u)'
        BY <2>2, <1>2, <1>3, <1>4, <1>5 DEF Times, LetThrough
    <3> QED
        BY <3>1, <2>2, <1>1, RememberKeeps
  <2> QED
      BY <2>1, <2>2
<1>9. StampKept
    BY <1>1 DEF StampKept
<1>10. Typed' /\ KeyIsFresh'
  <2>1. quiet' \in [Users -> 0..Idle] /\ \A v \in Users : quiet'[v] \in {quiet[v], 0}
      BY <1>1, <1>2 DEF Typed
  <2>2. Typed'
      BY <2>1, <1>1, <1>2, <1>8 DEF Typed
  <2>3. \A v \in Users : ttl[v] \in Nat /\ quiet[v] \in Nat /\ ttl[v] <= Idle
      BY <1>2 DEF Typed
  <2>4. \A v \in Users : ttl[v] > 0 => quiet'[v] + ttl[v] <= Idle
    <3> SUFFICES ASSUME NEW v \in Users, ttl[v] > 0 PROVE quiet'[v] + ttl[v] <= Idle
        OBVIOUS
    <3>1. quiet[v] + ttl[v] <= Idle
        BY DEF HInv, KeyIsFresh
    <3>2. 0 + ttl[v] <= Idle
        BY <2>3
    <3> QED
        BY <2>1, <3>1, <3>2, Zenon
  <2> QED
      BY <2>2, <2>4, <1>1 DEF KeyIsFresh
<1>11. DropsRight
  <2>1. pc = "dropped" => local[u] \in Times(u) /\ now - local[u] < Limit
    <3> SUFFICES ASSUME pc = "dropped" PROVE local[u] \in Times(u) /\ now - local[u] < Limit
        OBVIOUS
    <3>1. now - local[u] < Limit /\ local[u] \in Nat
        BY <1>2, <1>3 DEF recent, Recent, Typed
    <3>2. local[u] # 0
        BY <3>1, <1>2
    <3> QED
        BY <3>1, <3>2 DEF HInv, Sourced
  <2> QED
      BY <2>1, <1>4, <1>5 DEF DropsRight
<1> QED
    BY <1>6, <1>7, <1>8, <1>9, <1>10, <1>11, StepKeeps

(* What GetStamp and GetFails have in common: only the message and, when   *)
(* it is let through, the dictionary are written.                          *)
LEMMA LetThroughKeeps ==
    ASSUME HInv, NEW m, At(m, "get"), Goto(m, "set"),
           local' = Remembered(msg[m].user, msg[m].at),
           UNCHANGED <<redis_on, clockVars, stamp>>
    PROVE  HInv'
<1>1. /\ m \in DOMAIN msg /\ msg[m] \in Message /\ msg[m].at >= Limit
      /\ DOMAIN msg' = DOMAIN msg
      /\ msg'[m].user = msg[m].user /\ msg'[m].at = msg[m].at /\ msg'[m].pc = "set"
      /\ \A n \in DOMAIN msg : n # m => msg'[n] = msg[n]
      /\ MsgTyped' /\ Grows
  <2>1. "set" \in Pcs
      BY DEF Pcs
  <2> QED
      BY <2>1, GotoKeeps
<1>2. PICK u \in Users, at \in Nat : msg[m].user = u /\ msg[m].at = at
    BY <1>1 DEF Message
<1>3. at \in Times(u)'
    BY <1>1, <1>2 DEF Times, LetThrough
<1>4. LocalKept /\ local' \in [Users -> Nat]
    BY <1>2, <1>3, RememberKeeps
<1>5. Typed' /\ KeyIsFresh' /\ StampKept
    BY <1>4 DEF clockVars, HInv, Typed, KeyIsFresh, StampKept
<1>6. DropsRight
    BY <1>1 DEF DropsRight
<1> QED
    BY <1>1, <1>4, <1>5, <1>6, StepKeeps

LEMMA GetStampKeeps ==
    ASSUME HInv, NEW m, GetStamp(m)
    PROVE  HInv'
<1>1. At(m, "get") /\ UNCHANGED <<redis_on, clockVars, stamp>>
    BY DEF GetStamp
<1>2. CASE Goto(m, "set") /\ local' = Remembered(msg[m].user, msg[m].at)
    BY <1>1, <1>2, LetThroughKeeps
<1>3. CASE /\ ttl[msg[m].user] > 0 /\ Recent(msg[m].at, stamp[msg[m].user])
           /\ Goto(m, "dropped") /\ local' = local
  <2>1. /\ m \in DOMAIN msg /\ msg[m] \in Message
        /\ DOMAIN msg' = DOMAIN msg
        /\ msg'[m].user = msg[m].user /\ msg'[m].at = msg[m].at
        /\ \A n \in DOMAIN msg : n # m => msg'[n] = msg[n]
        /\ MsgTyped' /\ Grows
    <3>1. "dropped" \in Pcs
        BY DEF Pcs
    <3> QED
        BY <3>1, <1>1, <1>3, GotoKeeps
  <2>2. stamp[msg[m].user] \in Times(msg[m].user) /\ msg[m].at - stamp[msg[m].user] < Limit
    <3>1. msg[m].user \in Users
        BY <2>1 DEF Message
    <3> QED
        BY <3>1, <1>3 DEF HInv, Sourced, Recent
  <2>3. DropsRight
      BY <2>1, <2>2 DEF DropsRight
  <2>4. Typed' /\ KeyIsFresh' /\ StampKept /\ LocalKept
      BY <1>1, <1>3 DEF clockVars, HInv, Typed, KeyIsFresh, StampKept, LocalKept
  <2> QED
      BY <2>1, <2>3, <2>4, StepKeeps
<1> QED
    BY <1>2, <1>3 DEF GetStamp

(* After the second Redis call the message is handled: the user is no      *)
(* longer quiet, and the key, if it was written, has its whole life.       *)
LEMMA HandledKeeps ==
    ASSUME HInv, NEW m, At(m, "set"), Goto(m, "through"),
           quiet' = [quiet EXCEPT ![msg[m].user] = 0],
           \/ /\ stamp' = [stamp EXCEPT ![msg[m].user] = msg[m].at]
              /\ ttl' = [ttl EXCEPT ![msg[m].user] = KeyLife]
           \/ UNCHANGED <<stamp, ttl>>,
           UNCHANGED <<now, local>>
    PROVE  HInv'
<1>1. m \in DOMAIN msg /\ msg[m] \in Message
    BY DEF HInv, MsgTyped, At
<1>2. PICK u \in Users, at \in Nat : msg[m].user = u /\ msg[m].at = at
    BY <1>1 DEF Message
<1>3. /\ m \in DOMAIN msg /\ msg[m] \in Message
      /\ DOMAIN msg' = DOMAIN msg
      /\ msg'[m].user = u /\ msg'[m].at = at /\ msg'[m].pc = "through"
      /\ \A n \in DOMAIN msg : n # m => msg'[n] = msg[n]
      /\ MsgTyped' /\ Grows
  <2>1. "through" \in Pcs
      BY DEF Pcs
  <2> QED
      BY <1>2, <2>1, GotoKeeps
<1>4. at \in Times(u)'
    BY <1>3 DEF Times, LetThrough
<1>5. /\ quiet' = [quiet EXCEPT ![u] = 0]
      /\ \/ stamp' = [stamp EXCEPT ![u] = at] /\ ttl' = [ttl EXCEPT ![u] = Idle]
         \/ stamp' = stamp /\ ttl' = ttl
    BY <1>2, Zenon DEF KeyLife
<1>6. Typed /\ Idle \in Nat /\ 0 \in 0..Idle /\ Idle \in 0..Idle
    BY ThrottleAssumption DEF HInv
<1>7. /\ quiet'[u] = 0 /\ \A v \in Users : v # u => quiet'[v] = quiet[v]
      /\ \A v \in Users : v # u => stamp'[v] = stamp[v] /\ ttl'[v] = ttl[v]
      /\ stamp'[u] = at \/ (stamp'[u] = stamp[u] /\ ttl'[u] = ttl[u])
      /\ ttl'[u] \in 0..Idle
    BY <1>2, <1>5, <1>6 DEF Typed
<1>8. Typed'
  <2>1. quiet' \in [Users -> 0..Idle]
      BY <1>5, <1>6 DEF Typed
  <2>2. stamp' \in [Users -> Nat] /\ ttl' \in [Users -> 0..Idle]
      BY <1>2, <1>5, <1>6 DEF Typed
  <2> QED
      BY <2>1, <2>2, <1>6 DEF Typed
<1>9. KeyIsFresh'
  <2> SUFFICES ASSUME NEW v \in Users, ttl'[v] > 0 PROVE quiet'[v] + ttl'[v] <= Idle
      BY DEF KeyIsFresh
  <2>1. CASE v = u
    <3>1. \A l \in 0..Idle : 0 + l <= Idle
        BY <1>6
    <3>2. 0 + ttl'[u] <= Idle
        BY <3>1, <1>7, Zenon
    <3> QED
        BY <2>1, <3>2, <1>7, Zenon
  <2>2. CASE v # u
    <3>1. ttl'[v] = ttl[v] /\ quiet'[v] = quiet[v]
        BY <2>2, <1>7
    <3>2. quiet[v] + ttl[v] <= Idle
        BY <3>1 DEF HInv, KeyIsFresh
    <3> QED
        BY <3>1, <3>2, Zenon
  <2> QED
      BY <2>1, <2>2
<1>10. StampKept
  <2> SUFFICES ASSUME NEW v \in Users, ttl'[v] > 0
               PROVE  \/ ttl[v] > 0 /\ stamp'[v] = stamp[v]
                      \/ stamp'[v] \in Times(v)'
      BY DEF StampKept
  <2>1. CASE stamp'[v] = stamp[v] /\ ttl'[v] = ttl[v]
      BY <2>1
  <2>2. CASE v = u /\ stamp'[u] = at
      BY <2>2, <1>4 DEF Times
  <2> QED
      BY <2>1, <2>2, <1>7
<1>11. DropsRight
    BY <1>3 DEF DropsRight
<1>12. LocalKept
    BY SameLocal
<1> QED
    BY <1>3, <1>8, <1>9, <1>10, <1>11, <1>12, StepKeeps
-------------------------------------------------------------------------------
LEMMA TickKeeps == ASSUME HInv, Tick PROVE HInv'
<1>1. /\ Typed /\ Idle \in Nat /\ now' = now + 1 /\ local' = local /\ stamp' = stamp /\ msg' = msg
      /\ ttl' = [u \in Users |-> TtlAfterTick(ttl[u])]
      /\ quiet' = [u \in Users |-> IF quiet[u] < Idle THEN quiet[u] + 1 ELSE Idle]
    BY ThrottleAssumption DEF HInv, Tick
<1>2. \A u \in Users :
          /\ ttl[u] \in 0..Idle /\ quiet[u] \in 0..Idle
          /\ ttl'[u] = (IF ttl[u] > 0 THEN ttl[u] - 1 ELSE 0)
          /\ quiet'[u] = (IF quiet[u] < Idle THEN quiet[u] + 1 ELSE Idle)
    BY <1>1 DEF Typed, TtlAfterTick
<1>3. \A u \in Users : ttl'[u] \in 0..Idle /\ quiet'[u] \in 0..Idle
    BY <1>1, <1>2
<1>4. Typed'
  <2>1. now' \in Nat /\ now' >= Limit
      BY <1>1, ThrottleAssumption DEF Typed
  <2> QED
      BY <2>1, <1>1, <1>3 DEF Typed
<1>5. KeyIsFresh'
  <2> SUFFICES ASSUME NEW u \in Users, ttl'[u] > 0 PROVE quiet'[u] + ttl'[u] <= Idle
      BY DEF KeyIsFresh
  <2> DEFINE q == quiet[u]
             l == ttl[u]
  <2>1. l \in 0..Idle /\ q \in 0..Idle /\ l > 0 /\ q + l <= Idle
      BY <1>2 DEF HInv, KeyIsFresh
  <2>2. q < Idle /\ (q + 1) + (l - 1) <= Idle
      BY <2>1, <1>1
  <2>3. quiet'[u] = q + 1 /\ ttl'[u] = l - 1
      BY <2>1, <2>2, <1>2
  <2> QED
      BY <2>2, <2>3, Zenon
<1>6. StampKept
    BY <1>1, <1>2 DEF StampKept
<1> QED
    BY <1>1, <1>4, <1>5, <1>6, SameMessages, SameLocal, StepKeeps

LEMMA SetBackKeeps == ASSUME HInv, SetBack PROVE HInv'
<1>1. now' \in Nat /\ now' >= Limit
    BY ThrottleAssumption DEF HInv, Typed, SetBack
<1>2. UNCHANGED <<local, stamp, ttl, quiet, msg>>
    BY DEF SetBack
<1>3. Typed' /\ KeyIsFresh' /\ StampKept
    BY <1>1, <1>2 DEF HInv, Typed, KeyIsFresh, StampKept
<1> QED
    BY <1>2, <1>3, SameMessages, SameLocal, StepKeeps

LEMMA CrashKeeps == ASSUME HInv, Crash PROVE HInv'
<1>1. /\ local' = [u \in Users |-> 0]
      /\ UNCHANGED <<now, ttl, quiet, stamp>>
      /\ msg' = [m \in DOMAIN msg |->
                  [msg[m] EXCEPT !.pc = CASE msg[m].pc = "get" -> "lost"
                                          [] msg[m].pc = "set" -> "cut"
                                          [] OTHER -> msg[m].pc]]
    BY DEF Crash, clockVars
<1>2. DOMAIN msg' = DOMAIN msg
    BY <1>1
<1>3. \A m \in DOMAIN msg :
          /\ msg'[m] \in Message /\ msg'[m].at >= Limit
          /\ msg'[m].user = msg[m].user /\ msg'[m].at = msg[m].at
          /\ msg'[m].pc = (CASE msg[m].pc = "get" -> "lost"
                             [] msg[m].pc = "set" -> "cut"
                             [] OTHER -> msg[m].pc)
  <2> SUFFICES ASSUME NEW m \in DOMAIN msg
               PROVE  /\ msg'[m] \in Message /\ msg'[m].at >= Limit
                      /\ msg'[m].user = msg[m].user /\ msg'[m].at = msg[m].at
                      /\ msg'[m].pc = (CASE msg[m].pc = "get" -> "lost"
                                         [] msg[m].pc = "set" -> "cut"
                                         [] OTHER -> msg[m].pc)
      OBVIOUS
  <2> DEFINE pc == CASE msg[m].pc = "get" -> "lost" [] msg[m].pc = "set" -> "cut"
                     [] OTHER -> msg[m].pc
  <2>1. msg[m] \in Message /\ msg[m].at >= Limit
      BY DEF HInv, MsgTyped
  <2>2. pc \in Pcs
      BY <2>1 DEF Message, Pcs
  <2>3. msg'[m] = [msg[m] EXCEPT !.pc = pc]
      BY <1>1
  <2> HIDE DEF pc
  <2>4. /\ msg'[m] \in Message /\ msg'[m].user = msg[m].user
        /\ msg'[m].at = msg[m].at /\ msg'[m].pc = pc
      BY <2>1, <2>2, <2>3 DEF Message
  <2> QED
      BY <2>1, <2>4 DEF pc
<1>4. MsgTyped'
  <2>1. msg' \in [DOMAIN msg' -> Message]
      BY <1>1, <1>2, <1>3
  <2> QED
      BY <2>1, <1>2, <1>3 DEF MsgTyped
<1>5. Grows
    BY <1>2, <1>3 DEF Grows, LetThrough
<1>6. DropsRight
    BY <1>2, <1>3 DEF DropsRight
<1>7. Typed' /\ KeyIsFresh' /\ StampKept /\ LocalKept
    BY <1>1 DEF HInv, Typed, KeyIsFresh, StampKept, LocalKept
<1> QED
    BY <1>4, <1>5, <1>6, <1>7, StepKeeps

LEMMA HNext == ASSUME HInv, [ThrottleNext]_vars PROVE HInv'
<1>1. CASE \E m \in Messages, u \in Users : Arrive(m, u)
    BY <1>1, ArriveKeeps
<1>2. ASSUME NEW m \in Messages, GetStamp(m) PROVE HInv'
    BY <1>2, GetStampKeeps
<1>3. ASSUME NEW m \in Messages, GetFails(m) PROVE HInv'
    BY <1>3, LetThroughKeeps DEF GetFails
<1>4. ASSUME NEW m \in Messages, SetStamp(m) PROVE HInv'
    BY <1>4, HandledKeeps DEF SetStamp
<1>5. ASSUME NEW m \in Messages, SetFails(m) PROVE HInv'
    BY <1>5, HandledKeeps DEF SetFails
<1>6. CASE Tick
    BY <1>6, TickKeeps
<1>7. CASE SetBack
    BY <1>7, SetBackKeeps
<1>8. CASE Crash
    BY <1>8, CrashKeeps
<1>9. CASE UNCHANGED vars
  <2>1. UNCHANGED <<now, local, stamp, ttl, quiet, msg>>
      BY <1>9 DEF vars, clockVars
  <2>2. Typed' /\ KeyIsFresh' /\ StampKept
      BY <2>1 DEF HInv, Typed, KeyIsFresh, StampKept
  <2> QED
      BY <2>1, <2>2, SameMessages, SameLocal, StepKeeps
<1> QED
    BY <1>1, <1>2, <1>3, <1>4, <1>5, <1>6, <1>7, <1>8, <1>9 DEF ThrottleNext

THEOREM ThrottleHInv == ThrottleSpec => []HInv
    BY HInit, HNext, PTL DEF ThrottleSpec

(* Whatever two Redis calls of two messages interleave, fail or are cut    *)
(* off by a restart, and whatever the clock does, a message is dropped     *)
(* only for one of the same user that was let through.                     *)
THEOREM ThrottleNoFalseDrop == ThrottleSpec => []NoFalseDrop
<1>1. HInv => NoFalseDrop
    BY DEF HInv
<1> QED
    BY <1>1, ThrottleHInv, PTL

(* Redis shuts a user out only while its key lives, and the key lives no   *)
(* longer than the user has been quiet for: no clock set back locks anyone *)
(* out for good.                                                           *)
THEOREM ThrottleShutOutEnds == ThrottleSpec => ShutOutEnds
<1> DEFINE Dropped ==
        \A m \in DOMAIN msg :
            redis_on /\ msg[m].pc # "dropped" /\ msg'[m].pc = "dropped"
                => quiet[msg[m].user] < Idle
<1>1. ASSUME HInv, [ThrottleNext]_vars PROVE [Dropped]_vars
  <2> SUFFICES ASSUME NEW m \in DOMAIN msg, ThrottleNext, redis_on,
                      msg[m].pc # "dropped", msg'[m].pc = "dropped"
               PROVE  quiet[msg[m].user] < Idle
      BY <1>1
  <2>1. ASSUME NEW n, NEW pc, NEW next, At(n, pc), Goto(n, next), next # "dropped"
        PROVE  FALSE
    <3>1. msg'[m] = (IF m = n THEN [msg[n] EXCEPT !.pc = next] ELSE msg[m])
        BY <1>1, <2>1 DEF At, Goto, HInv, MsgTyped
    <3>2. msg[n] \in Message
        BY <1>1, <2>1 DEF At, HInv, MsgTyped
    <3> QED
        BY <2>1, <3>1, <3>2 DEF Message
  <2>2. PICK n : GetStamp(n) /\ Goto(n, "dropped")
    <3>1. CASE \E k \in Messages, u \in Users : Arrive(k, u)
        BY <3>1 DEF Arrive
    <3>2. CASE \E k \in Messages : GetStamp(k)
        BY <3>2, <2>1 DEF GetStamp
    <3>3. CASE \E k \in Messages : GetFails(k) \/ SetStamp(k) \/ SetFails(k)
        BY <3>3, <2>1 DEF GetFails, SetStamp, SetFails
    <3>4. CASE Tick \/ SetBack
        BY <3>4 DEF Tick, SetBack
    <3>5. CASE Crash
      <4>1. msg[m] \in Message
          BY <1>1 DEF HInv, MsgTyped
      <4>2. msg'[m] = [msg[m] EXCEPT !.pc = CASE msg[m].pc = "get" -> "lost"
                                              [] msg[m].pc = "set" -> "cut"
                                              [] OTHER -> msg[m].pc]
          BY <3>5 DEF Crash
      <4> QED
          BY <4>1, <4>2 DEF Message
    <3> QED
        BY <3>1, <3>2, <3>3, <3>4, <3>5 DEF ThrottleNext
  <2>3. n = m /\ ttl[msg[n].user] > 0 /\ msg[n].user \in Users
    <3>1. msg \in [DOMAIN msg -> Message] /\ msg' = [msg EXCEPT ![n].pc = "dropped"] /\ n \in DOMAIN msg
        BY <1>1, <2>2 DEF GetStamp, At, Goto, HInv, MsgTyped
    <3>2. n = m
        BY <3>1
    <3>3. ttl[msg[n].user] > 0
      <4>1. ~Goto(n, "set")
          BY <2>1, <2>2 DEF GetStamp
      <4> QED
          BY <4>1, <2>2 DEF GetStamp
    <3> QED
        BY <3>1, <3>2, <3>3 DEF Message
  <2>4. \A u \in Users : ttl[u] > 0 => quiet[u] < Idle
      BY <1>1, ThrottleAssumption DEF HInv, Typed, KeyIsFresh
  <2> QED
      BY <2>3, <2>4
<1> QED
    BY <1>1, ThrottleHInv, PTL DEF ThrottleSpec, ShutOutEnds
-------------------------------------------------------------------------------
(* What HInv leaves out of the types. *)
RestTyped ==
    /\ redis_on \in BOOLEAN
    /\ DOMAIN msg \subseteq Messages
    /\ disturbed \subseteq Users
    /\ faults \in 0..MaxFaults

LEMMA RestInit == ThrottleInit => RestTyped
    BY ThrottleAssumption DEF ThrottleInit, RestTyped

LEMMA RestNext == HInv /\ RestTyped /\ [ThrottleNext]_vars => RestTyped'
<1> SUFFICES ASSUME HInv, RestTyped, [ThrottleNext]_vars PROVE RestTyped'
    OBVIOUS
<1>1. redis_on' = redis_on
    BY DEF ThrottleNext, Arrive, GetStamp, GetFails, SetStamp, SetFails, Tick, SetBack, Crash,
           vars
<1>2. faults' \in 0..MaxFaults
  <2>1. faults' = faults \/ Fault
      BY DEF ThrottleNext, Arrive, GetStamp, GetFails, SetStamp, SetFails, Tick, SetBack, Crash,
             vars
  <2> QED
      BY <2>1, ThrottleAssumption DEF RestTyped, Fault
<1>3. DOMAIN msg' \subseteq Messages
  <2>1. ASSUME NEW m, NEW pc, Goto(m, pc) PROVE DOMAIN msg' = DOMAIN msg
      BY <2>1 DEF Goto, HInv, MsgTyped
  <2>2. CASE \E m \in Messages, u \in Users : Arrive(m, u)
      BY <2>2 DEF Arrive, RestTyped
  <2>3. CASE \E m \in Messages : GetStamp(m) \/ GetFails(m) \/ SetStamp(m) \/ SetFails(m)
      BY <2>1, <2>3 DEF GetStamp, GetFails, SetStamp, SetFails, RestTyped
  <2>4. CASE Tick \/ SetBack \/ Crash \/ UNCHANGED vars
      BY <2>4 DEF Tick, SetBack, Crash, vars, RestTyped
  <2> QED
      BY <2>2, <2>3, <2>4 DEF ThrottleNext
<1>4. disturbed' \subseteq Users
  <2>1. ASSUME NEW m, At(m, "get") \/ At(m, "set") PROVE msg[m].user \in Users
      BY <2>1 DEF At, HInv, MsgTyped, Message
  <2>2. CASE \E m \in Messages, u \in Users : Arrive(m, u)
      BY <2>2 DEF Arrive, RestTyped
  <2>3. CASE \E m \in Messages : GetStamp(m) \/ GetFails(m) \/ SetStamp(m) \/ SetFails(m)
      BY <2>1, <2>3 DEF GetStamp, GetFails, SetStamp, SetFails, RestTyped
  <2>4. CASE Tick \/ SetBack \/ Crash \/ UNCHANGED vars
      BY <2>4 DEF Tick, SetBack, Crash, vars, RestTyped
  <2> QED
      BY <2>2, <2>3, <2>4 DEF ThrottleNext
<1> QED
    BY <1>1, <1>2, <1>3, <1>4 DEF RestTyped

(* The dictionary, the key and the messages hold values of their types.    *)
THEOREM ThrottleTypeCorrect == ThrottleSpec => []ThrottleTypeOK
<1>1. HInv /\ RestTyped => ThrottleTypeOK
    BY DEF HInv, Typed, MsgTyped, RestTyped, ThrottleTypeOK
<1> QED
    BY <1>1, RestInit, RestNext, ThrottleHInv, PTL DEF ThrottleSpec
-------------------------------------------------------------------------------
Own(u)     == {m \in DOMAIN msg : msg[m].user = u}
Waiting(m) == msg[m].pc \in {"get", "set"}

(* A user whose messages never overlapped nor met a fault.  The dictionary *)
(* holds the time of the last message let through; so does the key, once   *)
(* it is set, and it lives until that time is Limit ago.                   *)
Calm(u) ==
    /\ local[u] <= now
    /\ stamp[u] + Limit <= now + ttl[u]
    /\ redis_on /\ (\A m \in Own(u) : msg[m].pc # "set") => stamp[u] = local[u]
    /\ \A m \in Own(u) :
          /\ msg[m].at <= now
          /\ LetThrough(m) => msg[m].at <= local[u]
          /\ msg[m].pc = "get" => redis_on /\ ttl[u] > 0 /\ msg[m].at - local[u] < Limit
          /\ msg[m].pc = "set" => redis_on /\ msg[m].at = local[u]
          /\ Waiting(m) => \A n \in Own(u) : Waiting(n) => n = m

Spaced(u) ==
    \A m, n \in Own(u) :
        m # n /\ LetThrough(m) /\ LetThrough(n)
            => msg[m].at - msg[n].at >= Limit \/ msg[n].at - msg[m].at >= Limit

CalmInv == \A u \in Users \ disturbed : Calm(u) /\ Spaced(u)

LEMMA CalmInit == ThrottleInit => CalmInv
<1> SUFFICES ASSUME ThrottleInit, NEW u \in Users PROVE Calm(u) /\ Spaced(u)
    BY DEF CalmInv
<1>1. Own(u) = {} /\ local[u] = 0 /\ stamp[u] = 0 /\ ttl[u] = 0 /\ now = Limit /\ Limit \in Nat
    BY ThrottleAssumption DEF ThrottleInit, Own
<1> QED
    BY <1>1 DEF Calm, Spaced

(* A step about another user's message. *)
Untouched(u) ==
    /\ redis_on' = redis_on /\ now' = now
    /\ local'[u] = local[u] /\ stamp'[u] = stamp[u] /\ ttl'[u] = ttl[u]
    /\ Own(u)' = Own(u)
    /\ \A m \in Own(u) : msg'[m] = msg[m]

LEMMA StillCalm ==
    ASSUME NEW u, Calm(u), Spaced(u), Untouched(u)
    PROVE  Calm(u)' /\ Spaced(u)'
<1>1. Calm(u)'
    BY DEF Calm, Untouched, LetThrough, Waiting
<1>2. Spaced(u)'
    BY DEF Spaced, Untouched, LetThrough
<1> QED
    BY <1>1, <1>2

(* The dictionary lets a message of a calm user through only when the last *)
(* one is Limit ago; if not, the key is there and will drop it.            *)
LEMMA ArriveCalm ==
    ASSUME HInv, CalmInv, NEW m \in Messages, NEW u \in Users, Arrive(m, u)
    PROVE  CalmInv'
<1> DEFINE recent == Recent(now, local[u])
           pc == CASE recent /\ redis_on    -> "get"
                   [] recent /\ ~redis_on   -> "dropped"
                   [] ~recent /\ redis_on   -> "set"
                   [] ~recent /\ ~redis_on  -> "through"
           new == [user |-> u, at |-> now, pc |-> pc]
<1>1. /\ m \notin DOMAIN msg
      /\ msg' = [n \in DOMAIN msg \cup {m} |-> IF n = m THEN new ELSE msg[n]]
      /\ local' = IF recent THEN local ELSE [local EXCEPT ![u] = now]
      /\ disturbed' = IF InFlight(u) THEN disturbed \cup {u} ELSE disturbed
      /\ UNCHANGED <<redis_on, now, stamp, ttl>>
    BY Zenon DEF Arrive, Remembered
<1>2. Typed /\ Limit \in Nat
    BY ThrottleAssumption DEF HInv
<1>3. /\ (pc \in {"get", "dropped"} => recent) /\ (pc \in {"set", "through"} => ~recent)
      /\ (pc \in {"get", "set"} => redis_on) /\ (redis_on /\ ~recent => pc = "set")
      /\ pc \in {"get", "set", "dropped", "through"}
    OBVIOUS
<1> HIDE DEF pc
<1>4. /\ DOMAIN msg' = DOMAIN msg \cup {m}
      /\ msg'[m].user = u /\ msg'[m].at = now /\ msg'[m].pc = pc
      /\ \A n \in DOMAIN msg : msg'[n] = msg[n] /\ n # m
    BY <1>1
<1>5. ASSUME NEW v \in Users \ disturbed', v # u PROVE Calm(v)' /\ Spaced(v)'
  <2>1. Own(v)' = Own(v)
      BY <1>4, <1>5 DEF Own
  <2>2. Untouched(v)
      BY <1>1, <1>2, <1>4, <1>5, <2>1 DEF Untouched, Own, Typed
  <2>3. v \notin disturbed
      BY <1>1, <1>5
  <2> QED
      BY <2>2, <2>3, StillCalm DEF CalmInv
<1>6. ASSUME u \notin disturbed' PROVE Calm(u)' /\ Spaced(u)'
  <2>1. /\ Calm(u) /\ Spaced(u)
        /\ \A n \in Own(u) : ~Waiting(n)
      BY <1>1, <1>6 DEF CalmInv, InFlight, Own, Waiting
  <2>2. /\ Own(u)' = Own(u) \cup {m}
        /\ \A n \in Own(u) : msg'[n] = msg[n] /\ n # m
      BY <1>4 DEF Own
  <2>3. /\ local[u] \in Nat /\ stamp[u] \in Nat /\ ttl[u] \in Nat /\ now \in Nat
        /\ local'[u] = IF recent THEN local[u] ELSE now
      BY <1>1, <1>2 DEF Typed
  <2>4. \A n \in Own(u) : msg[n].at \in Nat
      BY DEF Own, HInv, MsgTyped, Message
  <2>5. redis_on => stamp[u] = local[u]
      BY <2>1 DEF Calm, Waiting
  <2>6. recent => now - local[u] < Limit
      BY DEF Recent
  <2>7. ~recent => now - local[u] >= Limit
      BY <1>2, <2>3 DEF Recent
  <2>8. recent /\ redis_on => ttl[u] > 0
      BY <1>2, <2>1, <2>3, <2>5, <2>6 DEF Calm
  <2> HIDE DEF recent
  <2>9. Calm(u)'
    <3>1. local'[u] <= now' /\ stamp'[u] + Limit <= now' + ttl'[u]
        BY <1>1, <2>1, <2>3 DEF Calm
    <3>2. redis_on' /\ (\A n \in Own(u)' : msg'[n].pc # "set") => stamp'[u] = local'[u]
        BY <1>1, <1>3, <1>4, <2>2, <2>3, <2>5
    <3>3. ASSUME NEW n \in Own(u)'
          PROVE  /\ msg'[n].at <= now'
                 /\ LetThrough(n)' => msg'[n].at <= local'[u]
                 /\ msg'[n].pc = "get" => redis_on' /\ ttl'[u] > 0 /\ msg'[n].at - local'[u] < Limit
                 /\ msg'[n].pc = "set" => redis_on' /\ msg'[n].at = local'[u]
                 /\ Waiting(n)' => \A k \in Own(u)' : Waiting(k)' => k = n
      <4>1. CASE n = m
        <5>1. msg'[n].at = now /\ msg'[n].pc = pc /\ now' = now /\ redis_on' = redis_on /\ ttl' = ttl
            BY <4>1, <1>1, <1>4
        <5>2. LetThrough(n)' => local'[u] = now
            BY <1>3, <2>3, <5>1 DEF LetThrough
        <5>3. \A k \in Own(u)' : Waiting(k)' => k = n
            BY <4>1, <2>1, <2>2 DEF Waiting
        <5>4. pc = "get" => local'[u] = local[u] /\ now - local[u] < Limit
            BY <1>3, <2>3, <2>6
        <5>5. pc = "set" => local'[u] = now
            BY <1>3, <2>3
        <5> QED
            BY <1>3, <2>3, <2>8, <5>1, <5>2, <5>3, <5>4, <5>5
      <4>2. CASE n # m
        <5>1. n \in Own(u) /\ msg'[n] = msg[n] /\ ~Waiting(n)
            BY <4>2, <2>1, <2>2
        <5>2. local[u] <= local'[u]
            BY <2>1, <2>3 DEF Calm
        <5>3. LetThrough(n) => msg[n].at <= local[u]
            BY <5>1, <2>1 DEF Calm
        <5>4. LetThrough(n) => msg[n].at <= local'[u]
            BY <1>1, <2>3, <2>4, <5>1, <5>2, <5>3
        <5> QED
            BY <1>1, <2>1, <5>1, <5>4 DEF Calm, LetThrough, Waiting
      <4> QED
          BY <4>1, <4>2
    <3> QED
        BY <3>1, <3>2, <3>3 DEF Calm
  <2>10. Spaced(u)'
    <3>1. ASSUME NEW n \in Own(u), LetThrough(n), LetThrough(m)' PROVE msg'[m].at - msg[n].at >= Limit
      <4>1. msg[n].at <= local[u] /\ now - local[u] >= Limit
          BY <1>3, <1>4, <2>1, <2>7, <3>1 DEF Calm, LetThrough
      <4> QED
          BY <4>1, <1>2, <1>4, <2>3, <2>4
    <3> QED
        BY <2>1, <2>2, <3>1 DEF Spaced, LetThrough
  <2> QED
      BY <2>9, <2>10
<1> QED
    BY <1>5, <1>6 DEF CalmInv

(* Steps of a message in flight, for the other users.                      *)
LEMMA OthersCalm ==
    ASSUME HInv, CalmInv, NEW m, NEW pc, NEW next \in Pcs, At(m, pc), Goto(m, next),
           pc \in {"get", "set"}, pc = "set" => next = "through",
           NEW u, u = msg[m].user,
           UNCHANGED <<redis_on, now>>, disturbed \subseteq disturbed',
           \A v \in Users : v # u =>
               local'[v] = local[v] /\ stamp'[v] = stamp[v] /\ ttl'[v] = ttl[v],
           NEW v \in Users \ disturbed', v # u
    PROVE  Calm(v)' /\ Spaced(v)'
<1>1. /\ DOMAIN msg' = DOMAIN msg /\ msg'[m].user = msg[m].user
      /\ \A n \in DOMAIN msg : n # m => msg'[n] = msg[n]
    BY GotoKeeps
<1>2. Own(v)' = Own(v) /\ m \notin Own(v)
    BY <1>1 DEF Own
<1>3. Untouched(v)
    BY <1>1, <1>2 DEF Untouched, Own
<1> QED
    BY <1>3, StillCalm DEF CalmInv

(* Redis is read for a calm user only while the key holds the time the     *)
(* dictionary went by: the message is dropped.                             *)
LEMMA GetStampCalm ==
    ASSUME HInv, CalmInv, NEW m, GetStamp(m)
    PROVE  CalmInv'
<1>0. PICK u \in Users : u = msg[m].user
    BY DEF GetStamp, SetStamp, At, HInv, MsgTyped, Message
<1>1. /\ At(m, "get") /\ m \in DOMAIN msg /\ msg[m].pc = "get" /\ m \in Own(u)
      /\ UNCHANGED <<redis_on, now, ttl, stamp, disturbed>>
      /\ msg[m] \in Message /\ msg[m].at \in Nat
    BY <1>0 DEF GetStamp, At, clockVars, Own, HInv, MsgTyped, Message
<1>2. PICK next \in {"dropped", "set"} : Goto(m, next)
    BY DEF GetStamp
<1>3. \A v \in Users : v # u => local'[v] = local[v]
    BY <1>0 DEF GetStamp, Remembered, HInv, Typed
<1>4. ASSUME NEW v \in Users \ disturbed', v # u PROVE Calm(v)' /\ Spaced(v)'
    BY <1>0, <1>1, <1>2, <1>3, <1>4, OthersCalm DEF Pcs
<1>5. ASSUME u \notin disturbed' PROVE Calm(u)' /\ Spaced(u)'
  <2>1. Calm(u) /\ Spaced(u)
      BY <1>1, <1>5 DEF CalmInv
  <2>2. \A n \in Own(u) : msg[n].pc = "set" => n = m
      BY <1>1, <2>1 DEF Calm, Waiting
  <2>3. /\ redis_on /\ ttl[u] > 0 /\ stamp[u] = local[u] /\ msg[m].at - local[u] < Limit
      BY <1>1, <2>1, <2>2 DEF Calm
  <2>4. Goto(m, "dropped") /\ local' = local
      BY <1>0, <2>3 DEF GetStamp, Recent
  <2>5. /\ DOMAIN msg' = DOMAIN msg /\ msg'[m].user = u /\ msg'[m].at = msg[m].at
        /\ msg'[m].pc = "dropped"
        /\ \A n \in DOMAIN msg : n # m => msg'[n] = msg[n]
      BY <1>0, <1>1, <2>4, GotoKeeps DEF Pcs
  <2>6. Own(u)' = Own(u)
      BY <1>0, <2>5 DEF Own
  <2>7. \A n \in Own(u) : /\ msg'[n].at = msg[n].at /\ (LetThrough(n)' <=> LetThrough(n))
                          /\ msg'[n].pc # "get" /\ msg'[n].pc # "set" /\ ~Waiting(n)'
    <3>1. \A n \in Own(u) : Waiting(n) => n = m
        BY <1>1, <2>1 DEF Calm, Waiting
    <3> QED
        BY <1>1, <2>5, <3>1 DEF LetThrough, Waiting, Own
  <2>8. Calm(u)'
      BY <1>1, <2>1, <2>3, <2>4, <2>6, <2>7 DEF Calm
  <2>9. Spaced(u)'
      BY <2>1, <2>6, <2>7 DEF Spaced
  <2> QED
      BY <2>8, <2>9
<1> QED
    BY <1>4, <1>5 DEF CalmInv

(* The key takes over the time of the dictionary, for at least Limit.      *)
LEMMA SetStampCalm ==
    ASSUME HInv, CalmInv, NEW m, SetStamp(m)
    PROVE  CalmInv'
<1>0. PICK u \in Users : u = msg[m].user
    BY DEF GetStamp, SetStamp, At, HInv, MsgTyped, Message
<1>1. /\ At(m, "set") /\ m \in DOMAIN msg /\ msg[m].pc = "set" /\ m \in Own(u)
      /\ UNCHANGED <<redis_on, now, local, disturbed>>
      /\ msg[m] \in Message /\ msg[m].at \in Nat
    BY <1>0 DEF SetStamp, At, Own, HInv, MsgTyped, Message
<1>2. /\ Goto(m, "through")
      /\ stamp' = [stamp EXCEPT ![u] = msg[m].at] /\ ttl' = [ttl EXCEPT ![u] = Idle]
    BY <1>0 DEF SetStamp, KeyLife
<1>3. /\ Typed /\ Limit \in Nat /\ Idle \in Nat /\ Limit <= Idle
    BY ThrottleAssumption DEF HInv
<1>4. /\ \A v \in Users : v # u => stamp'[v] = stamp[v] /\ ttl'[v] = ttl[v]
      /\ stamp'[u] = msg[m].at /\ ttl'[u] = Idle /\ local[u] \in Nat /\ now \in Nat
    BY <1>1, <1>2, <1>3 DEF Typed
<1>5. ASSUME NEW v \in Users \ disturbed', v # u PROVE Calm(v)' /\ Spaced(v)'
    BY <1>0, <1>1, <1>2, <1>4, <1>5, OthersCalm DEF Pcs
<1>6. ASSUME u \notin disturbed' PROVE Calm(u)' /\ Spaced(u)'
  <2>1. Calm(u) /\ Spaced(u)
      BY <1>1, <1>6 DEF CalmInv
  <2>2. \A n \in Own(u) : Waiting(n) => n = m
      BY <1>1, <2>1 DEF Calm, Waiting
  <2>3. msg[m].at = local[u] /\ msg[m].at <= now
      BY <1>1, <2>1 DEF Calm
  <2>4. /\ DOMAIN msg' = DOMAIN msg /\ msg'[m].user = u /\ msg'[m].at = msg[m].at
        /\ msg'[m].pc = "through"
        /\ \A n \in DOMAIN msg : n # m => msg'[n] = msg[n]
      BY <1>0, <1>1, <1>2, GotoKeeps DEF Pcs
  <2>5. Own(u)' = Own(u)
      BY <1>0, <2>4 DEF Own
  <2>6. \A n \in Own(u) : (LetThrough(n)' <=> LetThrough(n)) /\ ~Waiting(n)' /\ msg'[n].at = msg[n].at
      BY <1>1, <2>2, <2>4 DEF LetThrough, Waiting, Own
  <2>7. stamp'[u] + Limit <= now' + ttl'[u]
      BY <1>1, <1>3, <1>4, <2>3
  <2>8. Calm(u)'
    <3>1. \A n \in Own(u)' : /\ msg'[n].at <= now'
                             /\ LetThrough(n)' => msg'[n].at <= local'[u]
                             /\ msg'[n].pc # "get" /\ msg'[n].pc # "set"
        BY <1>1, <2>1, <2>5, <2>6 DEF Calm, Waiting
    <3>2. local'[u] <= now' /\ stamp'[u] = local'[u]
        BY <1>1, <1>4, <2>1, <2>3 DEF Calm
    <3> QED
        BY <2>6, <2>5, <2>7, <3>1, <3>2 DEF Calm
  <2>9. Spaced(u)'
      BY <2>1, <2>5, <2>6 DEF Spaced
  <2> QED
      BY <2>8, <2>9
<1> QED
    BY <1>5, <1>6 DEF CalmInv

(* The user of a Redis call that fails is calm no more.                    *)
LEMMA FailsCalm ==
    ASSUME HInv, CalmInv, NEW m, GetFails(m) \/ SetFails(m)
    PROVE  CalmInv'
<1> DEFINE u == msg[m].user
<1>1. PICK pc \in {"get", "set"}, next \in {"set", "through"} :
          At(m, pc) /\ Goto(m, next) /\ (pc = "set" => next = "through")
    BY DEF GetFails, SetFails
<1>2. /\ UNCHANGED <<redis_on, now, stamp, ttl>> /\ disturbed' = disturbed \cup {u}
      /\ local' = local \/ local' = Remembered(u, msg[m].at)
    BY DEF GetFails, SetFails, clockVars
<1>3. \A v \in Users : v # u => local'[v] = local[v]
    BY <1>2 DEF Remembered, HInv, Typed
<1>4. ASSUME NEW v \in Users \ disturbed' PROVE Calm(v)' /\ Spaced(v)'
    BY <1>1, <1>2, <1>3, <1>4, OthersCalm DEF Pcs
<1> QED
    BY <1>4 DEF CalmInv

(* The clocks go on: the key loses what the message's age gains.           *)
LEMMA TickCalm == ASSUME HInv, CalmInv, Tick PROVE CalmInv'
<1>1. /\ UNCHANGED <<redis_on, local, stamp, msg>> /\ now' = now + 1
      /\ ttl' = [u \in Users |-> TtlAfterTick(ttl[u])]
      /\ disturbed' = disturbed \cup {u \in Users : InFlight(u) /\ ttl[u] = 1}
    BY DEF Tick
<1> SUFFICES ASSUME NEW u \in Users \ disturbed' PROVE Calm(u)' /\ Spaced(u)'
    BY DEF CalmInv
<1>2. Calm(u) /\ Spaced(u) /\ ~(InFlight(u) /\ ttl[u] = 1)
    BY <1>1 DEF CalmInv
<1>3. /\ local[u] \in Nat /\ stamp[u] \in Nat /\ ttl[u] \in Nat /\ now \in Nat /\ Limit \in Nat
      /\ ttl'[u] = IF ttl[u] > 0 THEN ttl[u] - 1 ELSE 0
    BY <1>1, ThrottleAssumption DEF HInv, Typed, TtlAfterTick
<1>4. Own(u)' = Own(u) /\ \A m \in Own(u) : msg[m].at \in Nat
    BY <1>1 DEF Own, HInv, MsgTyped, Message
<1>5. local'[u] <= now' /\ stamp'[u] + Limit <= now' + ttl'[u]
    BY <1>1, <1>2, <1>3 DEF Calm
<1>6. ASSUME NEW m \in Own(u), msg[m].pc = "get" PROVE ttl'[u] > 0
  <2>1. InFlight(u)
      BY <1>6 DEF InFlight, Own
  <2>2. ttl[u] > 0 /\ ttl[u] # 1
      BY <1>2, <1>6, <2>1 DEF Calm
  <2> QED
      BY <1>3, <2>2
<1>7. \A m \in Own(u) : msg'[m].at <= now'
    BY <1>1, <1>2, <1>3, <1>4 DEF Calm
<1>8. Calm(u)'
    BY <1>1, <1>2, <1>4, <1>5, <1>6, <1>7 DEF Calm, LetThrough, Waiting
<1>9. Spaced(u)'
    BY <1>1, <1>2, <1>4 DEF Spaced, LetThrough
<1> QED
    BY <1>8, <1>9

LEMMA CalmNext == ASSUME HInv, CalmInv, [ThrottleNext]_vars PROVE CalmInv'
<1>1. CASE \E m \in Messages, u \in Users : Arrive(m, u)
    BY <1>1, ArriveCalm
<1>2. CASE \E m \in Messages : GetStamp(m)
    BY <1>2, GetStampCalm
<1>3. CASE \E m \in Messages : SetStamp(m)
    BY <1>3, SetStampCalm
<1>4. CASE \E m \in Messages : GetFails(m) \/ SetFails(m)
    BY <1>4, FailsCalm
<1>5. CASE Tick
    BY <1>5, TickCalm
<1>6. CASE SetBack \/ Crash
    BY <1>6 DEF SetBack, Crash, CalmInv
<1>7. CASE UNCHANGED vars
  <2>1. \A u : Untouched(u)
      BY <1>7 DEF vars, clockVars, Untouched, Own
  <2>2. disturbed' = disturbed
      BY <1>7 DEF vars
  <2> QED
      BY <2>1, <2>2, StillCalm DEF CalmInv
<1> QED
    BY <1>1, <1>2, <1>3, <1>4, <1>5, <1>6, <1>7 DEF ThrottleNext

(* ThrottlingMiddleware.__call__: messages of a user whose messages do not *)
(* overlap and meet no fault reach the handler at least Limit apart, with  *)
(* and without a Redis.                                                    *)
THEOREM ThrottleCalmIsSpaced == ThrottleSpec => []CalmIsSpaced
<1>1. HInv /\ CalmInv => CalmIsSpaced
  <2> SUFFICES ASSUME HInv, CalmInv, NEW m \in DOMAIN msg, NEW n \in DOMAIN msg, m # n,
                      msg[m].user = msg[n].user, msg[m].user \notin disturbed,
                      LetThrough(m), LetThrough(n)
               PROVE  msg[m].at - msg[n].at >= Limit \/ msg[n].at - msg[m].at >= Limit
      BY DEF CalmIsSpaced
  <2>1. msg[m].user \in Users \ disturbed
      BY DEF HInv, MsgTyped, Message
  <2> QED
      BY <2>1 DEF CalmInv, Spaced, Own
<1> QED
    BY <1>1, CalmInit, CalmNext, ThrottleHInv, PTL DEF ThrottleSpec
===============================================================================
