-------------------------- MODULE OffloadDaemonProofs --------------------------
(***************************************************************************)
(* Proofs about OffloadDaemon for every set of session keys, rules and     *)
(* match criteria, and any number of requests under way.                   *)
(***************************************************************************)
EXTENDS OffloadDaemon, FiniteSetTheorems, TLAPS

-----------------------------------------------------------------------------
(* Types *)

InsertCall == [pc : {"insert"}, key : Keys, rule : Rules,
               fwd : Handles, rev : Handles \cup {NoHandle}]
ReverseCall == [pc : {"insert_reverse"}, key : Keys, rule : Rules, fwd : Handles, rev : Handles]
FlushCall == [pc : {"flush"}, criterion : Criteria, todo : SUBSET Keys,
              found : SUBSET Keys, handles : SUBSET Handles]
QueryCall == [pc : {"query"}, handle : Handles]

\* What a handler is doing tells what it knows.
LEMMA CallTypes ==
    ASSUME NEW r \in Requests
    PROVE  /\ r.pc = "insert" => r \in InsertCall
           /\ r.pc = "insert_reverse" => r \in ReverseCall
           /\ r.pc = "flush" => r \in FlushCall
           /\ r.pc = "query" => r \in QueryCall
           /\ r.pc \in {"idle", "insert", "insert_reverse", "flush", "query"}
  BY DEF Requests, Idle, InsertCall, ReverseCall, FlushCall, QueryCall

LEMMA CallsTyped ==
    ASSUME NEW r
    PROVE  r = Idle \/ r \in InsertCall \/ r \in ReverseCall \/ r \in FlushCall \/ r \in QueryCall
               => r \in Requests
  BY DEF Requests, Idle, InsertCall, ReverseCall, FlushCall, QueryCall

LEMMA HandleFacts ==
    /\ Handles \subseteq Nat /\ NoHandle \notin Handles
    /\ MaxHandle \in Nat /\ \A h \in Nat : h \in Handles <=> 1 <= h /\ h <= MaxHandle
  BY BoundAssumption DEF Handles, NoHandle

LEMMA FoundTyped ==
    ASSUME TypeOK, NEW k
    PROVE  Found(k) \subseteq Handles
  BY DEF Found, HandlesOf, TypeOK, SessionEntry

LEMMA ContinueTyped ==
    ASSUME NEW f \in FlushCall
    PROVE  Continue(f) \in Requests
  BY CallsTyped DEF Continue

LEMMA InitTypeOK == Init => TypeOK
  <1> SUFFICES ASSUME Init PROVE TypeOK
    OBVIOUS
  <1>1. Idle \in Requests
    BY CallsTyped
  <1>2. call \in [Clients -> Requests]
    BY <1>1 DEF Init
  <1>3. next_handle \in 1..(MaxHandle + 1)
    BY BoundAssumption DEF Init
  <1>4. ager \in [pc : {"sleep", "poll", "retain"}, todo : SUBSET Keys,
                  seen : SUBSET Watched, evict : SUBSET Keys, handles : SUBSET Handles]
    BY DEF Init, Sleeping
  <1> QED
    BY <1>2, <1>3, <1>4 DEF Init, TypeOK

\* The handles a request spends: the next one, and for a bidirectional one the next two.
LEMMA NewHandles ==
    ASSUME NEW n \in Nat \ {0}, NEW b \in BOOLEAN
    PROVE  LET rev == IF b THEN n + 1 ELSE NoHandle
               new == {n, rev} \ {NoHandle}
           IN  /\ new = IF b THEN {n, n + 1} ELSE {n}
               /\ Cardinality(new) = IF b THEN 2 ELSE 1
  <1>1. CASE b
    <2>1. n \notin {n + 1}
      OBVIOUS
    <2>2. IsFiniteSet({n + 1}) /\ Cardinality({n + 1}) = 1
      BY FS_Singleton
    <2>3. Cardinality({n + 1} \cup {n}) = 2
      BY <2>1, <2>2, FS_AddElement
    <2>4. {n + 1} \cup {n} = {n, n + 1} /\ {n, n + 1} \ {NoHandle} = {n, n + 1}
      BY DEF NoHandle
    <2> QED
      BY <1>1, <2>3, <2>4
  <1>2. CASE ~b
    <2>1. {n, NoHandle} \ {NoHandle} = {n}
      BY DEF NoHandle
    <2> QED
      BY <1>2, <2>1, FS_Singleton
  <1> QED
    BY <1>1, <1>2

Programmed(c, k, b, r, rev, new) ==
    /\ next_handle \in Handles /\ next_handle \notin DOMAIN hw
    /\ rev = (IF b THEN next_handle + 1 ELSE NoHandle)
    /\ new = (IF b THEN {next_handle, next_handle + 1} ELSE {next_handle})
    /\ new \subseteq Handles
    /\ hw' = [h \in DOMAIN hw \cup new |-> IF h \in new THEN 0 ELSE hw[h]]
    /\ next_handle' = next_handle + (IF b THEN 2 ELSE 1)
    /\ call' = [call EXCEPT ![c] = [pc |-> "insert", key |-> k, rule |-> r,
                                   fwd |-> next_handle, rev |-> rev]]
    /\ call[c] = Idle /\ UNCHANGED <<table, ager, tracker, replaced>>

\* The effect of the hardware part of ProgramSession, with the handles spelled out.
LEMMA ProgramEffect ==
    ASSUME TypeOK, NEW c \in Clients, NEW k \in Keys, NEW b \in BOOLEAN, NEW r \in Rules,
           program_session(c, k, b, r)
    PROVE  \E rev, new : Programmed(c, k, b, r, rev, new)
  <1> DEFINE rev == IF b THEN next_handle + 1 ELSE NoHandle
             new == {next_handle, rev} \ {NoHandle}
  <1>1. next_handle \in Nat \ {0} /\ next_handle \notin DOMAIN hw
    BY BoundAssumption DEF TypeOK
  <1>2. /\ new = IF b THEN {next_handle, next_handle + 1} ELSE {next_handle}
        /\ Cardinality(new) = IF b THEN 2 ELSE 1
    BY <1>1, NewHandles
  <1>3. /\ new \subseteq Handles
        /\ hw' = [h \in DOMAIN hw \cup new |-> IF h \in new THEN 0 ELSE hw[h]]
        /\ next_handle' = next_handle + Cardinality(new)
        /\ call' = [call EXCEPT ![c] = [pc |-> "insert", key |-> k, rule |-> r,
                                       fwd |-> next_handle, rev |-> rev]]
        /\ call[c] = Idle /\ UNCHANGED <<table, ager, tracker, replaced>>
    BY DEF program_session
  <1>4. next_handle \in Handles
    BY <1>2, <1>3
  <1>5. rev = IF b THEN next_handle + 1 ELSE NoHandle
    OBVIOUS
  <1> HIDE DEF rev, new
  <1>6. next_handle' = next_handle + (IF b THEN 2 ELSE 1)
    BY <1>2, <1>3
  <1> QED
    BY <1>1, <1>2, <1>3, <1>4, <1>5, <1>6 DEF Programmed

LEMMA ProgramTypeOK ==
    ASSUME TypeOK, NEW c \in Clients, NEW k \in Keys, NEW b \in BOOLEAN, NEW r \in Rules,
           program_session(c, k, b, r)
    PROVE  TypeOK'
  <1>1. PICK rev, new : Programmed(c, k, b, r, rev, new)
    BY ProgramEffect
  <1>2. rev \in Handles \cup {NoHandle}
    BY <1>1 DEF Programmed
  <1>3. [pc |-> "insert", key |-> k, rule |-> r, fwd |-> next_handle, rev |-> rev] \in Requests
    BY <1>1, <1>2, CallsTyped DEF Programmed, InsertCall
  <1>4. call' \in [Clients -> Requests]
    BY <1>1, <1>3 DEF Programmed, TypeOK
  <1>5. next_handle' \in 1..(MaxHandle + 1)
    BY <1>1, HandleFacts DEF Programmed
  <1>6. DOMAIN hw' \subseteq 1..(next_handle' - 1)
    <2>1. new \subseteq 1..(next_handle' - 1)
      BY <1>1, HandleFacts DEF Programmed
    <2>2. DOMAIN hw \subseteq 1..(next_handle' - 1)
      BY <1>1, HandleFacts DEF Programmed, TypeOK
    <2> QED
      BY <1>1, <2>1, <2>2 DEF Programmed
  <1>7. \A h \in DOMAIN hw' : hw'[h] \in 0..MaxPackets
    BY <1>1, BoundAssumption DEF Programmed, TypeOK
  <1> QED
    BY <1>1, <1>4, <1>5, <1>6, <1>7 DEF Programmed, TypeOK

\* Refused requests leave the hardware as it was: the rollback undoes the forward entry.
LEMMA RefusedKeepsHw ==
    ASSUME TypeOK, NEW c \in Clients, ProgramRefused(c)
    PROVE  /\ DOMAIN hw' = DOMAIN hw /\ \A h \in DOMAIN hw : hw'[h] = hw[h]
           /\ next_handle' \in Nat /\ next_handle' > next_handle
           /\ next_handle' <= MaxHandle + 1
           /\ UNCHANGED <<table, call, ager, tracker, replaced>>
  <1>1. next_handle \in Nat /\ next_handle \notin DOMAIN hw
    BY BoundAssumption DEF TypeOK
  <1>2. CASE next_handle <= MaxHandle /\ next_handle' = next_handle + 1 /\ hw' = hw
    BY <1>1, <1>2, BoundAssumption DEF ProgramRefused
  <1>3. CASE next_handle + 1 <= MaxHandle /\ next_handle' = next_handle + 2 /\ hw' = RolledBack
    <2>1. DOMAIN hw' = DOMAIN hw /\ \A h \in DOMAIN hw : hw'[h] = hw[h]
      BY <1>1, <1>3 DEF RolledBack, Put, Drop
    <2> QED
      BY <1>1, <1>3, <2>1, BoundAssumption DEF ProgramRefused
  <1> QED
    BY <1>2, <1>3 DEF ProgramRefused

LEMMA RefusedTypeOK ==
    ASSUME TypeOK, NEW c \in Clients, ProgramRefused(c)
    PROVE  TypeOK'
  <1>1. /\ DOMAIN hw' = DOMAIN hw /\ \A h \in DOMAIN hw : hw'[h] = hw[h]
        /\ next_handle' \in Nat /\ next_handle' > next_handle /\ next_handle' <= MaxHandle + 1
        /\ UNCHANGED <<table, call, ager, tracker, replaced>>
    BY RefusedKeepsHw
  <1>2. next_handle' \in 1..(MaxHandle + 1) /\ DOMAIN hw' \subseteq 1..(next_handle' - 1)
    BY <1>1, BoundAssumption DEF TypeOK
  <1> QED
    BY <1>1, <1>2 DEF TypeOK

LEMMA ReplacesTyped ==
    ASSUME TypeOK, NEW k, Replaces(k)
    PROVE  replaced' \subseteq Handles
  BY FoundTyped DEF Replaces, TypeOK

LEMMA InsertTypeOK ==
    ASSUME TypeOK, NEW c \in Clients, InsertForward(c) \/ InsertReverse(c)
    PROVE  TypeOK'
  <1>1. CASE InsertForward(c)
    <2>1. call[c] \in InsertCall
      BY <1>1, CallTypes DEF InsertForward, TypeOK
    <2> DEFINE e == [handle |-> call[c].fwd, rev |-> call[c].rev, rule |-> call[c].rule]
    <2>2. e \in SessionEntry /\ call[c].key \in Keys
      BY <2>1 DEF InsertCall, SessionEntry
    <2>3. /\ table' = Put(table, call[c].key, e)
          /\ UNCHANGED <<hw, next_handle, ager, tracker>>
          /\ Replaces(call[c].key)
      BY <1>1 DEF InsertForward
    <2> HIDE DEF e
    <2>4. DOMAIN table' \subseteq Keys /\ \A k \in DOMAIN table' : table'[k] \in SessionEntry
      BY <2>2, <2>3 DEF Put, TypeOK
    <2>5. call[c].rev # NoHandle => [call[c] EXCEPT !.pc = "insert_reverse"] \in Requests
      BY <2>1, CallsTyped DEF InsertCall, ReverseCall
    <2>6. call' \in [Clients -> Requests]
      BY <1>1, <2>5, CallsTyped DEF InsertForward, TypeOK
    <2> QED
      BY <2>3, <2>4, <2>6, ReplacesTyped DEF TypeOK
  <1>2. CASE InsertReverse(c)
    <2>1. call[c] \in ReverseCall
      BY <1>2, CallTypes DEF InsertReverse, TypeOK
    <2> DEFINE e == [handle |-> call[c].rev, rev |-> call[c].fwd, rule |-> call[c].rule]
    <2>2. e \in SessionEntry /\ Reverse[call[c].key] \in Keys
      BY <2>1, KeyAssumption DEF ReverseCall, SessionEntry
    <2>3. /\ table' = Put(table, Reverse[call[c].key], e)
          /\ UNCHANGED <<hw, next_handle, ager, tracker>>
          /\ Replaces(Reverse[call[c].key])
      BY <1>2 DEF InsertReverse
    <2> HIDE DEF e
    <2>4. DOMAIN table' \subseteq Keys /\ \A k \in DOMAIN table' : table'[k] \in SessionEntry
      BY <2>2, <2>3 DEF Put, TypeOK
    <2>5. call' \in [Clients -> Requests]
      BY <1>2, CallsTyped DEF InsertReverse, TypeOK
    <2> QED
      BY <2>3, <2>4, <2>5, ReplacesTyped DEF TypeOK
  <1> QED
    BY <1>1, <1>2

LEMMA FlushTypeOK ==
    ASSUME TypeOK, NEW c \in Clients
    PROVE  /\ \A f \in Criteria : flush_sessions(c, f) => TypeOK'
           /\ \A k \in Keys : FlushScan(c, k) \/ FlushDrop(c, k) => TypeOK'
           /\ \A h \in Handles : FlushRemove(c, h) => TypeOK'
  <1>1. ASSUME NEW f \in Criteria, flush_sessions(c, f) PROVE TypeOK'
    <2> DEFINE r == [pc |-> "flush", criterion |-> f, todo |-> Keys, found |-> {}, handles |-> {}]
    <2>1. r \in FlushCall
      BY DEF FlushCall
    <2>2. r \in Requests
      BY <2>1, CallsTyped
    <2>3. call' = [call EXCEPT ![c] = r] /\ UNCHANGED <<hw, next_handle, table, ager, tracker, replaced>>
      BY <1>1 DEF flush_sessions
    <2> HIDE DEF r
    <2> QED
      BY <2>2, <2>3 DEF TypeOK
  <1>2. ASSUME NEW k \in Keys, FlushScan(c, k) PROVE TypeOK'
    <2>1. call[c] \in FlushCall
      BY <1>2, CallTypes DEF FlushScan, TypeOK
    <2>2. PICK F : /\ F = Scanned(call[c], k)
                   /\ call' = [call EXCEPT ![c] = Continue(F)]
                   /\ UNCHANGED <<hw, next_handle, table, ager, tracker, replaced>>
      BY <1>2 DEF FlushScan
    <2>3. F \in FlushCall
      BY <2>1, <2>2 DEF FlushCall, Scanned
    <2>4. Continue(F) \in Requests
      BY <2>3, ContinueTyped
    <2> QED
      BY <2>2, <2>4 DEF TypeOK
  <1>3. ASSUME NEW k \in Keys, FlushDrop(c, k) PROVE TypeOK'
    <2>1. call[c] \in FlushCall
      BY <1>3, CallTypes DEF FlushDrop, TypeOK
    <2>2. PICK F : /\ F = Dropped(call[c], k)
                   /\ call' = [call EXCEPT ![c] = Continue(F)]
                   /\ table' = Drop(table, {k}) /\ UNCHANGED <<hw, next_handle, ager, tracker, replaced>>
      BY <1>3 DEF FlushDrop
    <2>3. F \in FlushCall
      BY <2>1, <2>2, FoundTyped DEF FlushCall, Dropped
    <2>4. Continue(F) \in Requests
      BY <2>3, ContinueTyped
    <2>5. DOMAIN table' \subseteq Keys /\ \A x \in DOMAIN table' : table'[x] \in SessionEntry
      BY <2>2 DEF Drop, TypeOK
    <2> QED
      BY <2>2, <2>4, <2>5 DEF TypeOK
  <1>4. ASSUME NEW h \in Handles, FlushRemove(c, h) PROVE TypeOK'
    <2>1. call[c] \in FlushCall
      BY <1>4, CallTypes DEF FlushRemove, TypeOK
    <2>2. PICK F : /\ F = Removed(call[c], h)
                   /\ call' = [call EXCEPT ![c] = Continue(F)]
                   /\ hw' = Drop(hw, {h}) /\ UNCHANGED <<next_handle, table, ager, tracker, replaced>>
      BY <1>4 DEF FlushRemove
    <2>3. F \in FlushCall
      BY <2>1, <2>2 DEF FlushCall, Removed
    <2>4. Continue(F) \in Requests
      BY <2>3, ContinueTyped
    <2>5. DOMAIN hw' \subseteq 1..(next_handle - 1) /\ \A x \in DOMAIN hw' : hw'[x] \in 0..MaxPackets
      BY <2>2 DEF Drop, TypeOK
    <2> QED
      BY <2>2, <2>4, <2>5 DEF TypeOK
  <1> QED
    BY <1>1, <1>2, <1>3, <1>4

LEMMA QueryTypeOK ==
    ASSUME TypeOK, NEW c \in Clients
    PROVE  /\ \A k \in Keys : query_session(c, k) => TypeOK'
           /\ QueryCounters(c) => TypeOK'
  <1>1. ASSUME NEW k \in Keys, query_session(c, k) PROVE TypeOK'
    <2>1. [pc |-> "query", handle |-> table[k].handle] \in QueryCall
      BY <1>1 DEF query_session, TypeOK, SessionEntry, QueryCall
    <2>2. [pc |-> "query", handle |-> table[k].handle] \in Requests
      BY <2>1, CallsTyped
    <2> QED
      BY <1>1, <2>2 DEF query_session, TypeOK
  <1>2. ASSUME QueryCounters(c) PROVE TypeOK'
    <2>1. call' \in [Clients -> Requests]
      BY <1>2, CallsTyped DEF QueryCounters, TypeOK
    <2>2. DOMAIN hw' = DOMAIN hw /\ \A h \in DOMAIN hw' : hw'[h] \in 0..MaxPackets
      BY <1>2, BoundAssumption DEF QueryCounters, TypeOK
    <2> QED
      BY <1>2, <2>1, <2>2 DEF QueryCounters, TypeOK
  <1> QED
    BY <1>1, <1>2

Ager == [pc : {"sleep", "poll", "retain"}, todo : SUBSET Keys,
         seen : SUBSET Watched, evict : SUBSET Keys, handles : SUBSET Handles]

LEMMA AgerTypeOK ==
    ASSUME TypeOK, AgerStep
    PROVE  TypeOK'
  <1>1. ager \in Ager
    BY DEF TypeOK, Ager
  <1>2. CASE AgerTick
    <2>1. ager' \in Ager
      BY <1>1, <1>2 DEF AgerTick, Ager
    <2>2. DOMAIN tracker' \subseteq Keys /\ \A k \in DOMAIN tracker' :
              tracker'[k] \in [packets : 0..MaxPackets, age : 0..IdlePolls]
      BY <1>2, BoundAssumption DEF AgerTick, TypeOK
    <2> QED
      BY <1>2, <2>1, <2>2 DEF AgerTick, TypeOK, Ager
  <1>3. ASSUME NEW k \in Keys, AgerScan(k) PROVE TypeOK'
    <2>1. k \in DOMAIN table => [key |-> k, handle |-> table[k].handle] \in Watched
      BY DEF TypeOK, Watched, SessionEntry
    <2>2. ager' \in Ager
      BY <1>1, <1>3, <2>1 DEF AgerScan, Ager
    <2> QED
      BY <1>3, <2>2 DEF AgerScan, TypeOK, Ager
  <1>4. ASSUME NEW k \in Keys, AgerRetain(k) PROVE TypeOK'
    <2>1. ager' \in Ager
      BY <1>1, <1>4 DEF AgerRetain, Ager
    <2> QED
      BY <1>4, <2>1 DEF AgerRetain, TypeOK, Ager, Drop
  <1>5. ASSUME NEW s \in ager.seen, AgerJudge(s) PROVE TypeOK'
    <2>1. s \in Watched /\ s.key \in Keys /\ s.handle \in Handles
      BY <1>1 DEF Ager, Watched
    <2>3. ager' \in Ager
      BY <1>1, <1>5, <2>1 DEF AgerJudge, Ager
    <2>4. s.handle \in DOMAIN hw => [packets |-> hw[s.handle], age |-> 0]
              \in [packets : 0..MaxPackets, age : 0..IdlePolls]
      BY <2>1, BoundAssumption DEF TypeOK
    <2>5. DOMAIN tracker' \subseteq Keys /\ \A k \in DOMAIN tracker' :
              tracker'[k] \in [packets : 0..MaxPackets, age : 0..IdlePolls]
      BY <1>5, <2>1, <2>4 DEF AgerJudge, TypeOK, Put
    <2> QED
      BY <1>5, <2>3, <2>5 DEF AgerJudge, TypeOK, Ager
  <1>6. ASSUME NEW s \in ager.evict, AgerEvict(s) PROVE TypeOK'
    <2>1. ager' \in Ager
      BY <1>1, <1>6, FoundTyped DEF AgerEvict, Ager
    <2>2. DOMAIN table' \subseteq Keys /\ \A k \in DOMAIN table' : table'[k] \in SessionEntry
      BY <1>6 DEF AgerEvict, TypeOK, Drop
    <2>3. DOMAIN tracker' \subseteq Keys /\ \A k \in DOMAIN tracker' :
              tracker'[k] \in [packets : 0..MaxPackets, age : 0..IdlePolls]
      BY <1>6 DEF AgerEvict, TypeOK, Drop
    <2> QED
      BY <1>6, <2>1, <2>2, <2>3 DEF AgerEvict, TypeOK, Ager
  <1>7. ASSUME NEW h \in ager.handles, AgerRemove(h) PROVE TypeOK'
    <2>1. ager' \in Ager
      BY <1>1, <1>7 DEF AgerRemove, Ager
    <2>2. DOMAIN hw' \subseteq 1..(next_handle - 1) /\ \A x \in DOMAIN hw' : hw'[x] \in 0..MaxPackets
      BY <1>7 DEF AgerRemove, TypeOK, Drop
    <2> QED
      BY <1>7, <2>1, <2>2 DEF AgerRemove, TypeOK, Ager
  <1>8. CASE AgerEvicted
    <2>1. ager' \in Ager
      BY <1>1, <1>8 DEF AgerEvicted, Ager
    <2> QED
      BY <1>8, <2>1 DEF AgerEvicted, TypeOK, Ager
  <1> QED
    BY <1>2, <1>3, <1>4, <1>5, <1>6, <1>7, <1>8 DEF AgerStep

LEMMA NextTypeOK == TypeOK /\ [Next]_vars => TypeOK'
  <1> SUFFICES ASSUME TypeOK, [Next]_vars PROVE TypeOK'
    OBVIOUS
  <1>1. ASSUME NEW c \in Clients, CallStep(c) PROVE TypeOK'
    BY <1>1, InsertTypeOK, QueryTypeOK, FlushTypeOK DEF CallStep
  <1>2. ASSUME NEW c \in Clients, NEW k \in Keys, NEW b \in BOOLEAN, NEW r \in Rules,
               program_session(c, k, b, r)
        PROVE  TypeOK'
    BY <1>2, ProgramTypeOK
  <1>3. ASSUME NEW c \in Clients, ProgramRefused(c) \/ \E k \in Keys : query_session(c, k)
        PROVE  TypeOK'
    BY <1>3, RefusedTypeOK, QueryTypeOK
  <1>4. ASSUME NEW c \in Clients, NEW f \in Criteria, flush_sessions(c, f) PROVE TypeOK'
    BY <1>4, FlushTypeOK
  <1>5. CASE UNCHANGED vars
    BY <1>5 DEF vars, TypeOK
  <1> QED
    BY <1>1, <1>2, <1>3, <1>4, <1>5, AgerTypeOK DEF Next

\* The tables of the daemon, what its handlers know and what the aging loop has noted
\* keep their types; no handle is used before it is given out.
THEOREM OffloadTypeCorrect == Spec => []TypeOK
  BY InitTypeOK, NextTypeOK, PTL DEF Spec

-----------------------------------------------------------------------------
(* What handlers hold, and the inductive invariants *)

\* Every handle a handler will put into the table or remove.
Holds(c) ==
    IF call[c].pc \in {"insert", "insert_reverse"} THEN {call[c].fwd, call[c].rev} \ {NoHandle}
    ELSE IF call[c].pc = "flush" THEN call[c].handles ELSE {}

\* The handles in use were given out.
GivenOut ==
    /\ \A k \in DOMAIN table : \A h \in HandlesOf(table[k]) : h < next_handle
    /\ \A c \in Clients : \A h \in Holds(c) : h < next_handle
    /\ \A h \in ager.handles : h < next_handle

\* A session of one direction is the only one to know its handle: in the table, or in
\* the handler that is about to insert it.
SoloTable ==
    \A k \in DOMAIN table : table[k].rev = NoHandle =>
        /\ table[k].handle \in DOMAIN hw
        /\ table[k].handle \notin ager.handles
        /\ \A c \in Clients : table[k].handle \notin Holds(c)
        /\ \A x \in DOMAIN table : x # k => table[k].handle \notin HandlesOf(table[x])

SoloCall ==
    \A c \in Clients : call[c].pc = "insert" /\ call[c].rev = NoHandle =>
        /\ call[c].fwd \in DOMAIN hw
        /\ call[c].fwd \notin ager.handles
        /\ \A d \in Clients : d # c => call[c].fwd \notin Holds(d)
        /\ \A k \in DOMAIN table : call[c].fwd \notin HandlesOf(table[k])

Solo == GivenOut /\ SoloTable /\ SoloCall

\* A flush keeps its handles in mind until they are removed.
LEMMA ContinueHolds ==
    ASSUME NEW f \in FlushCall
    PROVE  /\ Continue(f).pc \in {"flush", "idle"}
           /\ Continue(f).pc = "flush" => Continue(f).handles = f.handles
           /\ Continue(f).pc = "idle" => f.handles = {}
  BY DEF Continue, FlushCall, Idle

\* A step of one handler leaves the others alone.
LEMMA OthersSame ==
    ASSUME TypeOK, NEW c \in Clients, NEW r, call' = [call EXCEPT ![c] = r]
    PROVE  /\ call'[c] = r
           /\ \A d \in Clients : d # c =>
                 /\ call'[d] = call[d]
                 /\ Holds(d)' = Holds(d) /\ HeldBy(d)' = HeldBy(d)
  <1>1. call'[c] = r /\ \A d \in Clients : d # c => call'[d] = call[d]
    BY DEF TypeOK
  <1> QED
    BY <1>1 DEF Holds, HeldBy

\* A handler that is idle, queries or flushes holds what it collected.
LEMMA FlushHolds ==
    ASSUME NEW c \in Clients, call[c].pc \in {"idle", "query", "flush"}
    PROVE  /\ HeldBy(c) = Holds(c)
           /\ call[c].pc = "flush" => Holds(c) = call[c].handles
           /\ call[c].pc # "flush" => Holds(c) = {}
  BY DEF Holds, HeldBy

LEMMA FlushHoldsNext ==
    ASSUME NEW c \in Clients, call'[c].pc \in {"idle", "query", "flush"}
    PROVE  /\ HeldBy(c)' = Holds(c)'
           /\ call'[c].pc = "flush" => Holds(c)' = call'[c].handles
           /\ call'[c].pc # "flush" => Holds(c)' = {}
  BY DEF Holds, HeldBy

\* What the steps of queries and flushes do to handles: new ones come from the table.
Collects(c, taken, freed) ==
    /\ call[c].pc \in {"idle", "query", "flush"} /\ call'[c].pc \in {"idle", "query", "flush"}
    /\ Holds(c)' = (Holds(c) \cup UNION {HandlesOf(table[k]) : k \in taken}) \ freed
    /\ freed \subseteq Holds(c)
    /\ taken \subseteq DOMAIN table
    /\ DOMAIN table' = DOMAIN table \ taken /\ \A k \in DOMAIN table' : table'[k] = table[k]
    /\ DOMAIN hw' = DOMAIN hw \ freed
    /\ \A d \in Clients : d # c =>
          /\ call'[d] = call[d]
          /\ Holds(d)' = Holds(d) /\ HeldBy(d)' = HeldBy(d)
    /\ UNCHANGED <<next_handle, ager, replaced>>

LEMMA FlushCollects ==
    ASSUME TypeOK, NEW c \in Clients,
           \/ \E f \in Criteria : flush_sessions(c, f)
           \/ \E k \in Keys : query_session(c, k) \/ FlushScan(c, k) \/ FlushDrop(c, k)
           \/ \E h \in Handles : FlushRemove(c, h)
           \/ QueryCounters(c)
    PROVE  \E taken, freed : Collects(c, taken, freed)
  <1>1. ASSUME NEW f \in Criteria, flush_sessions(c, f) PROVE Collects(c, {}, {})
    <2>1. call' = [call EXCEPT ![c] = [pc |-> "flush", criterion |-> f, todo |-> Keys,
                                       found |-> {}, handles |-> {}]]
      BY <1>1 DEF flush_sessions
    <2>2. call[c].pc = "idle" /\ call'[c].pc = "flush" /\ call'[c].handles = {}
      BY <1>1, <2>1 DEF flush_sessions, TypeOK, Idle
    <2>3. Holds(c) = {} /\ Holds(c)' = {}
      BY <2>2, FlushHolds, FlushHoldsNext
    <2>4. UNCHANGED <<hw, next_handle, table, ager, replaced>>
      BY <1>1 DEF flush_sessions
    <2> QED
      BY <2>1, <2>2, <2>3, <2>4, OthersSame DEF Collects
  <1>2. ASSUME NEW k \in Keys, query_session(c, k) PROVE Collects(c, {}, {})
    <2>1. call' = [call EXCEPT ![c] = [pc |-> "query", handle |-> table[k].handle]]
      BY <1>2 DEF query_session
    <2>2. call[c].pc = "idle" /\ call'[c].pc = "query"
      BY <1>2, <2>1 DEF query_session, TypeOK, Idle
    <2> QED
      BY <1>2, <2>1, <2>2, OthersSame, FlushHolds, FlushHoldsNext DEF query_session, Collects
  <1>3. ASSUME QueryCounters(c) PROVE Collects(c, {}, {})
    <2>1. call' = [call EXCEPT ![c] = Idle] /\ DOMAIN hw' = DOMAIN hw
      BY <1>3 DEF QueryCounters
    <2>2. call[c].pc = "query" /\ call'[c].pc = "idle"
      BY <1>3, <2>1 DEF QueryCounters, TypeOK, Idle
    <2> QED
      BY <1>3, <2>1, <2>2, OthersSame, FlushHolds, FlushHoldsNext DEF QueryCounters, Collects
  <1>4. ASSUME NEW k \in Keys, FlushScan(c, k) PROVE Collects(c, {}, {})
    <2>1. call[c].pc = "flush" /\ call[c] \in FlushCall
      BY <1>4, CallTypes DEF FlushScan, TypeOK
    <2>2. Scanned(call[c], k) \in FlushCall /\ Scanned(call[c], k).handles = call[c].handles
      BY <1>4, <2>1 DEF FlushCall, Scanned
    <2>3. call' = [call EXCEPT ![c] = Continue(Scanned(call[c], k))]
      BY <1>4 DEF FlushScan
    <2>4. call'[c] = Continue(Scanned(call[c], k))
      BY <2>3, OthersSame
    <2> DEFINE after == Continue(Scanned(call[c], k))
    <2>a. /\ after.pc \in {"flush", "idle"}
          /\ after.pc = "flush" => after.handles = call[c].handles
          /\ after.pc = "idle" => call[c].handles = {}
      BY <2>2, ContinueHolds
    <2> HIDE DEF after
    <2>b. call'[c] = after
      BY <2>4 DEF after
    <2>c. Holds(c) = call[c].handles
      BY <2>1, FlushHolds
    <2>d. /\ call'[c].pc = "flush" => Holds(c)' = call'[c].handles
          /\ call'[c].pc # "flush" => Holds(c)' = {}
      BY <2>a, <2>b, FlushHoldsNext
    <2>5. Holds(c)' = Holds(c) /\ call'[c].pc \in {"flush", "idle"}
      BY <2>a, <2>b, <2>c, <2>d
    <2> QED
      BY <1>4, <2>1, <2>3, <2>5, OthersSame DEF FlushScan, Collects
  <1>5. ASSUME NEW k \in Keys, FlushDrop(c, k)
        PROVE  Collects(c, {k} \cap DOMAIN table, {})
    <2>1. call[c].pc = "flush" /\ call[c] \in FlushCall
      BY <1>5, CallTypes DEF FlushDrop, TypeOK
    <2>2. /\ Dropped(call[c], k) \in FlushCall
          /\ Dropped(call[c], k).handles = call[c].handles \cup Found(k)
      BY <1>5, <2>1, FoundTyped DEF FlushCall, Dropped
    <2>3. call' = [call EXCEPT ![c] = Continue(Dropped(call[c], k))]
      BY <1>5 DEF FlushDrop
    <2>4. call'[c] = Continue(Dropped(call[c], k))
      BY <2>3, OthersSame
    <2>5. Holds(c)' = Holds(c) \cup Found(k) /\ call'[c].pc \in {"flush", "idle"}
      BY <2>1, <2>2, <2>4, ContinueHolds, FlushHolds, FlushHoldsNext
    <2>6. Found(k) = UNION {HandlesOf(table[x]) : x \in {k} \cap DOMAIN table}
      BY DEF Found
    <2>7. /\ DOMAIN table' = DOMAIN table \ ({k} \cap DOMAIN table)
          /\ \A x \in DOMAIN table' : table'[x] = table[x]
      BY <1>5 DEF FlushDrop, Drop
    <2> QED
      BY <1>5, <2>1, <2>3, <2>5, <2>6, <2>7, OthersSame DEF FlushDrop, Collects
  <1>6. ASSUME NEW h \in Handles, FlushRemove(c, h) PROVE Collects(c, {}, {h})
    <2>1. call[c].pc = "flush" /\ call[c] \in FlushCall
      BY <1>6, CallTypes DEF FlushRemove, TypeOK
    <2>2. /\ Removed(call[c], h) \in FlushCall
          /\ Removed(call[c], h).handles = call[c].handles \ {h}
      BY <1>6, <2>1 DEF FlushCall, Removed
    <2>3. call' = [call EXCEPT ![c] = Continue(Removed(call[c], h))]
      BY <1>6 DEF FlushRemove
    <2>4. call'[c] = Continue(Removed(call[c], h))
      BY <2>3, OthersSame
    <2>5. Holds(c)' = Holds(c) \ {h} /\ call'[c].pc \in {"flush", "idle"} /\ h \in Holds(c)
      BY <1>6, <2>1, <2>2, <2>4, ContinueHolds, FlushHolds, FlushHoldsNext DEF FlushRemove
    <2>6. DOMAIN hw' = DOMAIN hw \ {h}
      BY <1>6 DEF FlushRemove, Drop
    <2> QED
      BY <1>6, <2>1, <2>3, <2>5, <2>6, OthersSame DEF FlushRemove, Collects
  <1> QED
    BY <1>1, <1>2, <1>3, <1>4, <1>5, <1>6

LEMMA CollectsSolo ==
    ASSUME TypeOK, Solo, NEW c \in Clients, NEW taken, NEW freed, Collects(c, taken, freed)
    PROVE  Solo'
  <1>1. \A d \in Clients : \A h \in Holds(d)' :
            h \in Holds(d) \/ \E k \in taken : h \in HandlesOf(table[k])
    BY DEF Collects
  <1>2. GivenOut'
    BY <1>1 DEF Collects, Solo, GivenOut
  <1>3. SoloTable'
    BY <1>1 DEF Collects, Solo, SoloTable
  <1>4. SoloCall'
    BY <1>1 DEF Collects, Solo, SoloCall
  <1> QED
    BY <1>2, <1>3, <1>4 DEF Solo

LEMMA CollectsOwned ==
    ASSUME TypeOK, HwOwned, NEW c \in Clients, NEW taken, NEW freed, Collects(c, taken, freed)
    PROVE  HwOwned'
  <1>1. HeldBy(c) = Holds(c) /\ HeldBy(c)' = Holds(c)'
    BY FlushHolds, FlushHoldsNext DEF Collects
  <1> SUFFICES ASSUME NEW h \in DOMAIN hw'
               PROVE  \/ \E k \in DOMAIN table' : h \in HandlesOf(table'[k])
                      \/ \E d \in Clients : h \in HeldBy(d)'
                      \/ h \in ager.handles'
                      \/ h \in replaced'
    BY DEF HwOwned
  <1>2. h \in DOMAIN hw /\ h \notin freed
    BY DEF Collects
  <1>3. \/ \E k \in DOMAIN table : h \in HandlesOf(table[k])
        \/ \E d \in Clients : h \in HeldBy(d)
        \/ h \in ager.handles \/ h \in replaced
    BY <1>2 DEF HwOwned
  <1>4. ASSUME NEW k \in DOMAIN table, h \in HandlesOf(table[k])
        PROVE  h \in HeldBy(c)' \/ \E x \in DOMAIN table' : h \in HandlesOf(table'[x])
    BY <1>1, <1>2, <1>4 DEF Collects
  <1>5. ASSUME NEW d \in Clients, h \in HeldBy(d) PROVE h \in HeldBy(d)'
    BY <1>1, <1>2, <1>5 DEF Collects
  <1> QED
    BY <1>3, <1>4, <1>5 DEF Collects

-----------------------------------------------------------------------------
(* The aging loop *)

\* Its steps remove sessions from the table and entries from the hardware.
AgerTakes(taken, freed) ==
    /\ taken \subseteq DOMAIN table
    /\ DOMAIN table' = DOMAIN table \ taken /\ \A k \in DOMAIN table' : table'[k] = table[k]
    /\ freed \subseteq ager.handles
    /\ DOMAIN hw' = DOMAIN hw \ freed
    /\ ager.handles' = (ager.handles \cup UNION {HandlesOf(table[k]) : k \in taken}) \ freed
    /\ UNCHANGED <<next_handle, call, replaced>>

LEMMA AgerStepTakes ==
    ASSUME TypeOK, AgerStep
    PROVE  \E taken, freed : AgerTakes(taken, freed)
  <1>1. ager \in Ager
    BY DEF TypeOK, Ager
  <1>2. ASSUME \/ AgerTick \/ AgerEvicted
               \/ \E k \in Keys : AgerScan(k) \/ AgerRetain(k)
               \/ \E s \in ager.seen : AgerJudge(s)
        PROVE  AgerTakes({}, {})
    <2>1. ager'.handles = ager.handles
      BY <1>1, <1>2 DEF AgerTick, AgerEvicted, AgerScan, AgerRetain, AgerJudge, Ager
    <2> QED
      BY <1>2, <2>1 DEF AgerTick, AgerEvicted, AgerScan, AgerRetain, AgerJudge, AgerTakes
  <1>3. ASSUME NEW k \in ager.evict, AgerEvict(k)
        PROVE  AgerTakes({k} \cap DOMAIN table, {})
    <2>1. ager.handles = {} /\ ager'.handles = Found(k)
      BY <1>1, <1>3 DEF AgerEvict, Ager
    <2>2. Found(k) = UNION {HandlesOf(table[x]) : x \in {k} \cap DOMAIN table}
      BY DEF Found
    <2>3. /\ DOMAIN table' = DOMAIN table \ ({k} \cap DOMAIN table)
          /\ \A x \in DOMAIN table' : table'[x] = table[x]
      BY <1>3 DEF AgerEvict, Drop
    <2> QED
      BY <1>3, <2>1, <2>2, <2>3 DEF AgerEvict, AgerTakes
  <1>4. ASSUME NEW h \in ager.handles, AgerRemove(h) PROVE AgerTakes({}, {h})
    <2>1. ager'.handles = ager.handles \ {h}
      BY <1>1, <1>4 DEF AgerRemove, Ager
    <2>2. DOMAIN hw' = DOMAIN hw \ {h}
      BY <1>4 DEF AgerRemove, Drop
    <2> QED
      BY <1>4, <2>1, <2>2 DEF AgerRemove, AgerTakes
  <1> QED
    BY <1>2, <1>3, <1>4 DEF AgerStep

LEMMA CallsSame ==
    ASSUME UNCHANGED call, NEW d
    PROVE  /\ Holds(d)' = Holds(d) /\ HeldBy(d)' = HeldBy(d)
  BY DEF Holds, HeldBy

LEMMA AgerSolo ==
    ASSUME TypeOK, Solo, AgerStep
    PROVE  Solo'
  <1>1. PICK taken, freed : AgerTakes(taken, freed)
    BY AgerStepTakes
  <1>2. \A d \in Clients : Holds(d)' = Holds(d)
    BY <1>1, CallsSame DEF AgerTakes
  <1>3. GivenOut'
    BY <1>1, <1>2 DEF AgerTakes, Solo, GivenOut
  <1>4. SoloTable'
    BY <1>1, <1>2 DEF AgerTakes, Solo, SoloTable
  <1>5. SoloCall'
    BY <1>1, <1>2 DEF AgerTakes, Solo, SoloCall
  <1> QED
    BY <1>3, <1>4, <1>5 DEF Solo

LEMMA AgerOwned ==
    ASSUME TypeOK, HwOwned, AgerStep
    PROVE  HwOwned'
  <1>1. PICK taken, freed : AgerTakes(taken, freed)
    BY AgerStepTakes
  <1>2. \A d \in Clients : HeldBy(d)' = HeldBy(d)
    BY <1>1, CallsSame DEF AgerTakes
  <1> SUFFICES ASSUME NEW h \in DOMAIN hw'
               PROVE  \/ \E k \in DOMAIN table' : h \in HandlesOf(table'[k])
                      \/ \E d \in Clients : h \in HeldBy(d)'
                      \/ h \in ager.handles'
                      \/ h \in replaced'
    BY DEF HwOwned
  <1>3. h \in DOMAIN hw /\ h \notin freed
    BY <1>1 DEF AgerTakes
  <1>4. \/ \E k \in DOMAIN table : h \in HandlesOf(table[k])
        \/ \E d \in Clients : h \in HeldBy(d)
        \/ h \in ager.handles \/ h \in replaced
    BY <1>3 DEF HwOwned
  <1>5. ASSUME NEW k \in DOMAIN table, h \in HandlesOf(table[k])
        PROVE  h \in ager.handles' \/ \E x \in DOMAIN table' : h \in HandlesOf(table'[x])
    BY <1>1, <1>3, <1>5 DEF AgerTakes
  <1> QED
    BY <1>1, <1>2, <1>3, <1>4, <1>5 DEF AgerTakes

-----------------------------------------------------------------------------
(* ProgramSession *)

LEMMA ProgramSolo ==
    ASSUME TypeOK, Solo, NEW c \in Clients, NEW k \in Keys, NEW b \in BOOLEAN, NEW r \in Rules,
           program_session(c, k, b, r)
    PROVE  Solo'
  <1>1. PICK rev, new : Programmed(c, k, b, r, rev, new)
    BY ProgramEffect
  <1>2. /\ call'[c].pc = "insert" /\ call'[c].fwd = next_handle /\ call'[c].rev = rev
        /\ \A d \in Clients : d # c => call'[d] = call[d] /\ Holds(d)' = Holds(d)
    <2>1. PICK q : /\ q = [pc |-> "insert", key |-> k, rule |-> r, fwd |-> next_handle, rev |-> rev]
                   /\ call' = [call EXCEPT ![c] = q]
      BY <1>1 DEF Programmed
    <2>2. /\ call'[c] = q
          /\ \A d \in Clients : d # c => call'[d] = call[d] /\ Holds(d)' = Holds(d)
      BY <2>1, OthersSame
    <2> QED
      BY <2>1, <2>2
  <1>3. new = {next_handle, rev} \ {NoHandle}
    BY <1>1, HandleFacts DEF Programmed, NoHandle
  <1>4. Holds(c)' = new
    BY <1>2, <1>3 DEF Holds
  <1>5. next_handle \in Nat /\ \A h \in new : h \in Nat /\ h >= next_handle /\ h < next_handle'
    BY <1>1, HandleFacts DEF Programmed
  <1>6. DOMAIN hw' = DOMAIN hw \cup new /\ next_handle \in new
    BY <1>1 DEF Programmed
  <1>7. UNCHANGED <<table, ager>> /\ next_handle' \in Nat /\ next_handle' > next_handle
    BY <1>1, <1>5 DEF Programmed
  <1>8. /\ \A x \in DOMAIN table : HandlesOf(table[x]) \subseteq Nat /\ table[x].handle \in HandlesOf(table[x])
        /\ ager.handles \subseteq Nat
        /\ \A d \in Clients : Holds(d) \subseteq Nat
    <2>1. \A x \in DOMAIN table : HandlesOf(table[x]) \subseteq Nat /\ table[x].handle \in HandlesOf(table[x])
      BY HandleFacts DEF TypeOK, SessionEntry, HandlesOf
    <2>2. ager.handles \subseteq Nat
      BY HandleFacts DEF TypeOK
    <2>3. ASSUME NEW d \in Clients PROVE Holds(d) \subseteq Nat
      <3>1. call[d] \in Requests
        BY DEF TypeOK
      <3> QED
        BY <3>1, CallTypes, HandleFacts DEF Holds, InsertCall, ReverseCall, FlushCall
    <2> QED
      BY <2>1, <2>2, <2>3
  <1>9. GivenOut'
    BY <1>2, <1>4, <1>5, <1>7, <1>8 DEF Solo, GivenOut
  <1>10. SoloTable'
    <2>1. \A x \in DOMAIN table : table[x].handle \notin new
      BY <1>5, <1>8 DEF Solo, GivenOut
    <2> QED
      BY <1>2, <1>4, <1>6, <1>7, <2>1 DEF Solo, SoloTable
  <1>11. SoloCall'
    <2>1. next_handle \notin ager.handles /\ \A d \in Clients : next_handle \notin Holds(d)
      BY <1>5, <1>8 DEF Solo, GivenOut
    <2>2. \A x \in DOMAIN table : next_handle \notin HandlesOf(table[x])
      BY <1>5, <1>8 DEF Solo, GivenOut
    <2>3. ASSUME NEW d \in Clients, call[d].pc = "insert"
          PROVE  call[d].fwd \notin new
      <3>1. call[d] \in InsertCall
        BY <2>3, CallTypes DEF TypeOK
      <3>2. call[d].fwd \in Holds(d)
        BY <2>3, <3>1, HandleFacts DEF Holds, InsertCall
      <3> QED
        BY <1>5, <1>8, <3>2 DEF Solo, GivenOut
    <2>4. ASSUME NEW d \in Clients, d # c, call'[d].pc = "insert", call'[d].rev = NoHandle
          PROVE  /\ call'[d].fwd \in DOMAIN hw' /\ call'[d].fwd \notin ager'.handles
                 /\ \A e \in Clients : e # d => call'[d].fwd \notin Holds(e)'
                 /\ \A x \in DOMAIN table' : call'[d].fwd \notin HandlesOf(table'[x])
      BY <1>2, <1>4, <1>6, <1>7, <2>3, <2>4 DEF Solo, SoloCall
    <2>5. /\ call'[c].fwd \in DOMAIN hw' /\ call'[c].fwd \notin ager'.handles
          /\ \A e \in Clients : e # c => call'[c].fwd \notin Holds(e)'
          /\ \A x \in DOMAIN table' : call'[c].fwd \notin HandlesOf(table'[x])
      BY <1>2, <1>6, <1>7, <2>1, <2>2
    <2> QED
      BY <2>4, <2>5 DEF SoloCall
  <1> QED
    BY <1>9, <1>10, <1>11 DEF Solo

LEMMA ProgramOwned ==
    ASSUME TypeOK, HwOwned,
           NEW c \in Clients, NEW k \in Keys, NEW b \in BOOLEAN, NEW r \in Rules,
           program_session(c, k, b, r)
    PROVE  HwOwned'
  <1>1. PICK rev, new : Programmed(c, k, b, r, rev, new)
    BY ProgramEffect
  <1>2. call'[c].pc = "insert" /\ call'[c].fwd = next_handle /\ call'[c].rev = rev
    BY <1>1 DEF Programmed, TypeOK
  <1>3. \A d \in Clients : d # c => HeldBy(d)' = HeldBy(d)
    <2>1. PICK q : call' = [call EXCEPT ![c] = q]
      BY <1>1 DEF Programmed
    <2> QED
      BY <2>1, OthersSame
  <1>4. new \subseteq HeldBy(c)'
    BY <1>1, <1>2 DEF HeldBy, Programmed
  <1>5. HeldBy(c) = {}
    BY <1>1 DEF HeldBy, Programmed, Idle
  <1>6. DOMAIN hw' = DOMAIN hw \cup new /\ UNCHANGED <<table, ager, replaced>>
    BY <1>1 DEF Programmed
  <1> QED
    BY <1>3, <1>4, <1>5, <1>6 DEF HwOwned

LEMMA RefusedSoloOwned ==
    ASSUME TypeOK, NEW c \in Clients, ProgramRefused(c)
    PROVE  /\ Solo => Solo'
           /\ HwOwned => HwOwned'
  <1>1. /\ DOMAIN hw' = DOMAIN hw
        /\ next_handle' \in Nat /\ next_handle' > next_handle /\ next_handle \in Nat
        /\ UNCHANGED <<table, call, ager, tracker, replaced>>
    BY RefusedKeepsHw, BoundAssumption DEF TypeOK
  <1>2. \A d \in Clients : /\ Holds(d)' = Holds(d) /\ HeldBy(d)' = HeldBy(d)
    BY <1>1, CallsSame
  <1>3. ASSUME Solo PROVE Solo'
    <2>1. GivenOut'
      <3>1. \A h : h \in Nat /\ h < next_handle => h < next_handle'
        BY <1>1
      <3>2. /\ \A x \in DOMAIN table : HandlesOf(table[x]) \subseteq Nat
            /\ ager.handles \subseteq Nat
        BY HandleFacts DEF TypeOK, SessionEntry, HandlesOf
      <3>3. ASSUME NEW d \in Clients PROVE Holds(d) \subseteq Nat
        <4>1. call[d] \in Requests
          BY DEF TypeOK
        <4> QED
          BY <4>1, CallTypes, HandleFacts DEF Holds, InsertCall, ReverseCall, FlushCall
      <3> QED
        BY <1>1, <1>2, <1>3, <3>1, <3>2, <3>3 DEF Solo, GivenOut
    <2>2. SoloTable' /\ SoloCall'
      BY <1>1, <1>2, <1>3 DEF Solo, SoloTable, SoloCall
    <2> QED
      BY <2>1, <2>2 DEF Solo
  <1>4. ASSUME HwOwned PROVE HwOwned'
    BY <1>1, <1>2, <1>4 DEF HwOwned
  <1> QED
    BY <1>3, <1>4

\* What the two inserts have in common: the handler's entry goes to a key, whose own
\* handles are noted if no other entry has them; either the handler is done, or it goes
\* on with the same handles.
Enters(c, x, e) ==
    /\ DOMAIN table' = DOMAIN table \cup {x}
    /\ table'[x] = e /\ \A k \in DOMAIN table : k # x => table'[k] = table[k]
    /\ Replaces(x)
    /\ HandlesOf(e) = Holds(c) /\ HeldBy(c) \subseteq Holds(c) \cup {NoHandle}
    /\ e.rev = NoHandle => call[c].pc = "insert" /\ call[c].rev = NoHandle
                           /\ call[c].fwd = e.handle /\ call'[c].pc = "idle"
    /\ call'[c].pc # "insert"
    /\ Holds(c)' = {} \/ (Holds(c)' = Holds(c) /\ e.rev # NoHandle)
    /\ \A d \in Clients : d # c =>
          /\ call'[d] = call[d]
          /\ Holds(d)' = Holds(d) /\ HeldBy(d)' = HeldBy(d)
    /\ UNCHANGED <<hw, next_handle, ager>>

LEMMA InsertEnters ==
    ASSUME TypeOK, NEW c \in Clients, InsertForward(c) \/ InsertReverse(c)
    PROVE  \E x, e : Enters(c, x, e)
  <1>1. ASSUME InsertForward(c)
        PROVE  \E x, e : Enters(c, x, e)
    <2>1. call[c] \in InsertCall /\ call[c].pc = "insert"
      BY <1>1, CallTypes DEF InsertForward, TypeOK
    <2>2. call[c].fwd # NoHandle
      BY <2>1, HandleFacts DEF InsertCall
    <2>3. PICK q, e : /\ q = IF call[c].rev = NoHandle THEN Idle
                                ELSE [call[c] EXCEPT !.pc = "insert_reverse"]
                      /\ call' = [call EXCEPT ![c] = q]
                      /\ e = [handle |-> call[c].fwd, rev |-> call[c].rev, rule |-> call[c].rule]
                      /\ table' = Put(table, call[c].key, e)
                      /\ Replaces(call[c].key)
                      /\ UNCHANGED <<hw, next_handle, ager>>
      BY <1>1 DEF InsertForward
    <2>4. call'[c] = q
      BY <2>3, OthersSame
    <2>5. /\ DOMAIN table' = DOMAIN table \cup {call[c].key}
          /\ table'[call[c].key] = e
          /\ \A k \in DOMAIN table : k # call[c].key => table'[k] = table[k]
      BY <2>3 DEF Put
    <2>6. /\ HandlesOf(e) = Holds(c) /\ HeldBy(c) \subseteq Holds(c) \cup {NoHandle}
          /\ e.rev = call[c].rev /\ e.handle = call[c].fwd
      BY <2>1, <2>3 DEF HandlesOf, Holds, HeldBy
    <2>7. \A d \in Clients : d # c =>
             /\ call'[d] = call[d]
             /\ Holds(d)' = Holds(d) /\ HeldBy(d)' = HeldBy(d)
      BY <2>3, OthersSame
    <2>8. CASE call[c].rev = NoHandle
      <3>1. call'[c].pc = "idle"
        BY <2>3, <2>4, <2>8 DEF Idle
      <3>2. Holds(c)' = {}
        BY <3>1, FlushHoldsNext
      <3>3. Enters(c, call[c].key, e)
        BY <2>1, <2>3, <2>5, <2>6, <2>7, <2>8, <3>1, <3>2 DEF Enters
      <3> QED
        BY <3>3
    <2>9. CASE call[c].rev # NoHandle
      <3>1. /\ call'[c].pc = "insert_reverse"
            /\ call'[c].fwd = call[c].fwd /\ call'[c].rev = call[c].rev
        BY <2>1, <2>3, <2>4, <2>9 DEF InsertCall
      <3>2. Holds(c)' = Holds(c)
        BY <2>1, <3>1 DEF Holds
      <3>3. Enters(c, call[c].key, e)
        BY <2>1, <2>3, <2>5, <2>6, <2>7, <2>9, <3>1, <3>2 DEF Enters
      <3> QED
        BY <3>3
    <2> QED
      BY <2>8, <2>9
  <1>2. ASSUME InsertReverse(c)
        PROVE  \E x, e : Enters(c, x, e)
    <2>1. call[c] \in ReverseCall /\ call[c].pc = "insert_reverse"
      BY <1>2, CallTypes DEF InsertReverse, TypeOK
    <2>2. call[c].fwd # NoHandle /\ call[c].rev # NoHandle
      BY <2>1, HandleFacts DEF ReverseCall
    <2>3. PICK e : /\ call' = [call EXCEPT ![c] = Idle]
                   /\ e = [handle |-> call[c].rev, rev |-> call[c].fwd, rule |-> call[c].rule]
                   /\ table' = Put(table, Reverse[call[c].key], e)
                   /\ Replaces(Reverse[call[c].key])
                   /\ UNCHANGED <<hw, next_handle, ager>>
      BY <1>2 DEF InsertReverse
    <2>4. call'[c].pc = "idle"
      BY <2>3 DEF Idle, TypeOK
    <2>5. Holds(c)' = {}
      BY <2>4, FlushHoldsNext
    <2>6. /\ DOMAIN table' = DOMAIN table \cup {Reverse[call[c].key]}
          /\ table'[Reverse[call[c].key]] = e
          /\ \A k \in DOMAIN table : k # Reverse[call[c].key] => table'[k] = table[k]
      BY <2>3 DEF Put
    <2>7. /\ HandlesOf(e) = Holds(c) /\ HeldBy(c) \subseteq Holds(c) \cup {NoHandle}
          /\ e.rev # NoHandle
      BY <2>1, <2>2, <2>3 DEF HandlesOf, Holds, HeldBy
    <2>8. \A d \in Clients : d # c =>
             /\ call'[d] = call[d]
             /\ Holds(d)' = Holds(d) /\ HeldBy(d)' = HeldBy(d)
      BY <2>3, OthersSame
    <2>9. Enters(c, Reverse[call[c].key], e)
      BY <2>3, <2>4, <2>5, <2>6, <2>7, <2>8 DEF Enters
    <2> QED
      BY <2>9
  <1> QED
    BY <1>1, <1>2

LEMMA InsertSolo ==
    ASSUME TypeOK, Solo, NEW c \in Clients, InsertForward(c) \/ InsertReverse(c)
    PROVE  Solo'
  <1>1. PICK x, e : Enters(c, x, e)
    BY InsertEnters
  <1>2. \A k \in DOMAIN table' : k = x \/ (k \in DOMAIN table /\ table'[k] = table[k])
    BY <1>1 DEF Enters
  <1>3. \A d \in Clients : Holds(d)' \subseteq Holds(d)
    BY <1>1 DEF Enters
  <1>4. UNCHANGED <<hw, next_handle, ager>> /\ table'[x] = e /\ HandlesOf(e) = Holds(c)
    BY <1>1 DEF Enters
  <1>5. GivenOut'
    BY <1>2, <1>3, <1>4 DEF Solo, GivenOut
  <1>6. SoloTable'
    <2>1. ASSUME e.rev = NoHandle
          PROVE  /\ e.handle \in DOMAIN hw /\ e.handle \notin ager.handles
                 /\ \A d \in Clients : e.handle \notin Holds(d)'
                 /\ \A k \in DOMAIN table : e.handle \notin HandlesOf(table[k])
      BY <1>1, <2>1 DEF Enters, Solo, SoloCall
    <2>2. ASSUME NEW k \in DOMAIN table', k # x, table'[k].rev = NoHandle
          PROVE  /\ table'[k].handle \in DOMAIN hw /\ table'[k].handle \notin ager.handles
                 /\ \A d \in Clients : table'[k].handle \notin Holds(d)'
                 /\ \A y \in DOMAIN table' : y # k => table'[k].handle \notin HandlesOf(table'[y])
      BY <1>2, <1>3, <1>4, <2>2 DEF Solo, SoloTable
    <2> QED
      BY <1>2, <1>4, <2>1, <2>2 DEF SoloTable
  <1>7. SoloCall'
    <2> SUFFICES ASSUME NEW d \in Clients, call'[d].pc = "insert", call'[d].rev = NoHandle
                 PROVE  /\ call'[d].fwd \in DOMAIN hw' /\ call'[d].fwd \notin ager'.handles
                        /\ \A f \in Clients : f # d => call'[d].fwd \notin Holds(f)'
                        /\ \A k \in DOMAIN table' : call'[d].fwd \notin HandlesOf(table'[k])
      BY DEF SoloCall
    <2>1. d # c /\ call'[d] = call[d]
      BY <1>1 DEF Enters
    <2> QED
      BY <1>2, <1>3, <1>4, <2>1 DEF Solo, SoloCall
  <1> QED
    BY <1>5, <1>6, <1>7 DEF Solo

LEMMA InsertOwned ==
    ASSUME TypeOK, HwOwned, NEW c \in Clients, InsertForward(c) \/ InsertReverse(c)
    PROVE  HwOwned'
  <1>1. PICK x, e : Enters(c, x, e)
    BY InsertEnters
  <1> SUFFICES ASSUME NEW h \in DOMAIN hw'
               PROVE  \/ \E k \in DOMAIN table' : h \in HandlesOf(table'[k])
                      \/ \E d \in Clients : h \in HeldBy(d)'
                      \/ h \in ager.handles'
                      \/ h \in replaced'
    BY DEF HwOwned
  <1>2. h \in DOMAIN hw /\ h # NoHandle
    BY <1>1 DEF Enters, TypeOK, NoHandle
  <1>3. \/ \E k \in DOMAIN table : h \in HandlesOf(table[k])
        \/ \E d \in Clients : h \in HeldBy(d)
        \/ h \in ager.handles \/ h \in replaced
    BY <1>2 DEF HwOwned
  <1>4. ASSUME NEW k \in DOMAIN table, h \in HandlesOf(table[k])
        PROVE  h \in replaced' \/ \E y \in DOMAIN table' : h \in HandlesOf(table'[y])
    <2>1. CASE \E y \in DOMAIN table : y # x /\ h \in HandlesOf(table[y])
      BY <1>1, <2>1 DEF Enters
    <2>2. CASE \A y \in DOMAIN table : y # x => h \notin HandlesOf(table[y])
      <3>1. k = x /\ h \in Found(x)
        BY <1>4, <2>2 DEF Found
      <3>2. \A y \in Keys \ {x} : h \notin Found(y)
        BY <2>2 DEF Found
      <3> QED
        BY <1>1, <3>1, <3>2 DEF Enters, Replaces
    <2> QED
      BY <2>1, <2>2
  <1>5. h \in HeldBy(c) => x \in DOMAIN table' /\ h \in HandlesOf(table'[x])
    BY <1>1, <1>2 DEF Enters
  <1>6. h \in replaced => h \in replaced'
    BY <1>1 DEF Enters, Replaces
  <1> QED
    BY <1>1, <1>3, <1>4, <1>5, <1>6 DEF Enters

-----------------------------------------------------------------------------
(* The theorems *)

LEMMA NextSolo == TypeOK /\ Solo /\ [Next]_vars => Solo'
  <1> SUFFICES ASSUME TypeOK, Solo, [Next]_vars PROVE Solo'
    OBVIOUS
  <1>1. ASSUME NEW c \in Clients,
               \/ \E f \in Criteria : flush_sessions(c, f)
               \/ \E k \in Keys : query_session(c, k) \/ FlushScan(c, k) \/ FlushDrop(c, k)
               \/ \E h \in Handles : FlushRemove(c, h)
               \/ QueryCounters(c)
        PROVE  Solo'
    BY <1>1, FlushCollects, CollectsSolo
  <1>2. ASSUME NEW c \in Clients, NEW k \in Keys, NEW b \in BOOLEAN, NEW r \in Rules,
               program_session(c, k, b, r)
        PROVE  Solo'
    BY <1>2, ProgramSolo
  <1>3. ASSUME NEW c \in Clients, ProgramRefused(c) PROVE Solo'
    BY <1>3, RefusedSoloOwned
  <1>4. ASSUME NEW c \in Clients, InsertForward(c) \/ InsertReverse(c) PROVE Solo'
    BY <1>4, InsertSolo
  <1>5. CASE UNCHANGED vars
    <2>1. \A d \in Clients : Holds(d)' = Holds(d)
      BY <1>5, CallsSame DEF vars
    <2> QED
      BY <1>5, <2>1 DEF vars, Solo, GivenOut, SoloTable, SoloCall
  <1> QED
    BY <1>1, <1>2, <1>3, <1>4, <1>5, AgerSolo DEF Next, CallStep

LEMMA NextOwned == TypeOK /\ HwOwned /\ [Next]_vars => HwOwned'
  <1> SUFFICES ASSUME TypeOK, HwOwned, [Next]_vars PROVE HwOwned'
    OBVIOUS
  <1>1. ASSUME NEW c \in Clients,
               \/ \E f \in Criteria : flush_sessions(c, f)
               \/ \E k \in Keys : query_session(c, k) \/ FlushScan(c, k) \/ FlushDrop(c, k)
               \/ \E h \in Handles : FlushRemove(c, h)
               \/ QueryCounters(c)
        PROVE  HwOwned'
    BY <1>1, FlushCollects, CollectsOwned
  <1>2. ASSUME NEW c \in Clients, NEW k \in Keys, NEW b \in BOOLEAN, NEW r \in Rules,
               program_session(c, k, b, r)
        PROVE  HwOwned'
    BY <1>2, ProgramOwned
  <1>3. ASSUME NEW c \in Clients, ProgramRefused(c) PROVE HwOwned'
    BY <1>3, RefusedSoloOwned
  <1>4. ASSUME NEW c \in Clients, InsertForward(c) \/ InsertReverse(c) PROVE HwOwned'
    BY <1>4, InsertOwned
  <1>5. CASE UNCHANGED vars
    <2>1. \A d \in Clients : HeldBy(d)' = HeldBy(d)
      BY <1>5, CallsSame DEF vars
    <2> QED
      BY <1>5, <2>1 DEF vars, HwOwned
  <1> QED
    BY <1>1, <1>2, <1>3, <1>4, <1>5, AgerOwned DEF Next, CallStep

LEMMA InitSoloOwned == Init => Solo /\ HwOwned
  <1> SUFFICES ASSUME Init PROVE Solo /\ HwOwned
    OBVIOUS
  <1>1. \A c \in Clients : call[c].pc = "idle"
    BY DEF Init, Idle
  <1>2. \A c \in Clients : Holds(c) = {}
    BY <1>1, FlushHolds
  <1>3. DOMAIN table = {} /\ DOMAIN hw = {} /\ ager.handles = {}
    BY DEF Init, Sleeping
  <1> QED
    BY <1>1, <1>2, <1>3 DEF Solo, GivenOut, SoloTable, SoloCall, HwOwned

\* grpc_server.rs, session_table.rs and aging.rs: however many handlers and the aging
\* loop interleave, and whatever the hardware refuses, a hardware entry becomes
\* unreachable in one way only: an insert replaced the last entry that knew its handle.
THEOREM HardwareOwned == Spec => []HwOwned
  <1>1. Init => TypeOK /\ HwOwned
    BY InitTypeOK, InitSoloOwned
  <1>2. TypeOK /\ HwOwned /\ [Next]_vars => (TypeOK /\ HwOwned)'
    BY NextTypeOK, NextOwned
  <1> QED
    BY <1>1, <1>2, PTL DEF Spec

\* A session of one direction never loses its hardware entry while it is in the table,
\* even when keys are programmed again: flushes and evictions remove only handles they
\* took from the table, and nobody else has this one.
THEOREM SessionsStayBacked == Spec => []SessionsBacked
  <1>1. Init => TypeOK /\ Solo
    BY InitTypeOK, InitSoloOwned
  <1>2. TypeOK /\ Solo /\ [Next]_vars => (TypeOK /\ Solo)'
    BY NextTypeOK, NextSolo
  <1>3. TypeOK /\ Solo => SessionsBacked
    BY DEF Solo, SoloTable, SessionsBacked
  <1> QED
    BY <1>1, <1>2, <1>3, PTL DEF Spec
================================================================================
