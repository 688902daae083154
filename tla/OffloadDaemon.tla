----------------------------- MODULE OffloadDaemon -----------------------------
(***************************************************************************)
(* The session offload daemon: crates/prism-offload-daemon.                *)
(*                                                                         *)
(* gRPC handlers and the aging loop run on several threads and share the   *)
(* session table (a DashMap, locked shard by shard) and the hardware       *)
(* entries (one mutex).  An action is one access to one of the two; what   *)
(* is local to a handler moves along with it.  A handle is known to nobody *)
(* else until it is in the table, so the hardware calls of program_session *)
(* are one action.  Iterating over the table visits its keys one by one,   *)
(* in any order, while others change it.                                   *)
(***************************************************************************)
EXTENDS Integers, FiniteSets

CONSTANTS
    Keys,           \* session keys
    Reverse,        \* Reverse[k]: the key with source and destination swapped
    VniOf,          \* VniOf[k]: the key's network
    Rules,          \* rule ids
    Criteria,       \* match criteria of flushes
    Clients,        \* the requests that can be under way at a time
    HwMayFail,      \* may the hardware refuse an entry?
    IdlePolls,      \* idle_timeout in poll intervals
    MaxHandle,      \* bound on handles given out
    MaxPackets      \* bound on an entry's counter

ASSUME KeyAssumption ==
    /\ Reverse \in [Keys -> Keys]
    /\ \A k \in Keys : Reverse[k] # k /\ Reverse[Reverse[k]] = k
    /\ DOMAIN VniOf = Keys /\ \A k \in Keys : VniOf[Reverse[k]] = VniOf[k]

ASSUME CriteriaAssumption ==
    \A f \in Criteria :
        \/ f.by = "rule" /\ f.rule \in Rules
        \/ f.by = "vni" /\ f.vni \in {VniOf[k] : k \in Keys}
        \/ f.by = "all"

ASSUME BoundAssumption ==
    /\ HwMayFail \in BOOLEAN
    /\ IdlePolls \in Nat /\ MaxHandle \in Nat /\ MaxPackets \in Nat

Handles == 1..MaxHandle
NoHandle == 0

VARIABLES
    hw,             \* DocaFlowManager.entries: handle -> packets
    next_handle,
    table,          \* SessionTable.map: key -> SessionEntry
    call,           \* the handler running for each client
    ager,           \* the aging loop's local variables
    tracker,        \* idle_tracker: key -> last packets, age in polls
    replaced        \* history: handles whose last entry an insert has replaced

vars == <<hw, next_handle, table, call, ager, tracker, replaced>>

SessionEntry == [handle : Handles, rev : Handles \cup {NoHandle}, rule : Rules]

Put(f, k, v) == [x \in DOMAIN f \cup {k} |-> IF x = k THEN v ELSE f[x]]
Drop(f, S) == [x \in DOMAIN f \ S |-> f[x]]

\* Broken variant: the absent reverse entry counts as one.
HandlesOf_WithNone(e) == {e.handle, e.rev}

\* The hardware entries of a session: its own and its reverse's.
HandlesOf(e) == {e.handle, e.rev} \ {NoHandle}

Idle == [pc |-> "idle"]
Sleeping == [pc |-> "sleep", todo |-> {}, seen |-> {}, evict |-> {}, handles |-> {}]

Init ==
    /\ hw = <<>>
    /\ next_handle = 1
    /\ table = <<>>
    /\ call = [c \in Clients |-> Idle]
    /\ ager = Sleeping
    /\ tracker = <<>>
    /\ replaced = {}

-----------------------------------------------------------------------------
(* ProgramSession *)

\* The hardware part: one entry or two.
program_session(c, k, bidirectional, rule) ==
    LET rev == IF bidirectional THEN next_handle + 1 ELSE NoHandle
        new == {next_handle, rev} \ {NoHandle}
    IN  /\ call[c] = Idle
        /\ new \subseteq Handles
        /\ hw' = [h \in DOMAIN hw \cup new |-> IF h \in new THEN 0 ELSE hw[h]]
        /\ next_handle' = next_handle + Cardinality(new)
        /\ call' = [call EXCEPT ![c] = [pc |-> "insert", key |-> k, rule |-> rule,
                                       fwd |-> next_handle, rev |-> rev]]
        /\ UNCHANGED <<table, ager, tracker, replaced>>

\* Broken variant: the forward entry is left behind.
RolledBack_Forgotten == Put(hw, next_handle, 0)

\* The entries after the reverse one was refused: the forward one is rolled back.
RolledBack == Drop(Put(hw, next_handle, 0), {next_handle})

\* The hardware refuses the forward entry, or the reverse one; the handle is spent.
ProgramRefused(c) ==
    /\ HwMayFail
    /\ call[c] = Idle
    /\ \/ /\ next_handle <= MaxHandle
          /\ next_handle' = next_handle + 1
          /\ UNCHANGED hw
       \/ /\ next_handle + 1 <= MaxHandle
          /\ next_handle' = next_handle + 2
          /\ hw' = RolledBack
    /\ UNCHANGED <<table, call, ager, tracker, replaced>>

\* The handles that the table has for a key.
Found(k) == IF k \in DOMAIN table THEN HandlesOf(table[k]) ELSE {}

\* Inserting replaces what the key had, unseen: whether a key is in use is not checked,
\* and clients repeat requests.
Replaces(k) ==
    replaced' = replaced \cup (Found(k) \ UNION {Found(j) : j \in Keys \ {k}})

InsertForward(c) ==
    /\ call[c].pc = "insert"
    /\ table' = Put(table, call[c].key,
                    [handle |-> call[c].fwd, rev |-> call[c].rev, rule |-> call[c].rule])
    /\ Replaces(call[c].key)
    /\ call' = [call EXCEPT ![c] =
                  IF @.rev = NoHandle THEN Idle ELSE [@ EXCEPT !.pc = "insert_reverse"]]
    /\ UNCHANGED <<hw, next_handle, ager, tracker>>

InsertReverse(c) ==
    /\ call[c].pc = "insert_reverse"
    /\ table' = Put(table, Reverse[call[c].key],
                    [handle |-> call[c].rev, rev |-> call[c].fwd, rule |-> call[c].rule])
    /\ Replaces(Reverse[call[c].key])
    /\ call' = [call EXCEPT ![c] = Idle]
    /\ UNCHANGED <<hw, next_handle, ager, tracker>>

-----------------------------------------------------------------------------
(* FlushSessions: by rule, by network, or all *)

Matches(k, e, criterion) ==
    \/ criterion.by = "rule" /\ e.rule = criterion.rule
    \/ criterion.by = "vni" /\ VniOf[k] = criterion.vni
    \/ criterion.by = "all"

flush_sessions(c, criterion) ==
    /\ call[c] = Idle
    /\ call' = [call EXCEPT ![c] = [pc |-> "flush", criterion |-> criterion,
                                   todo |-> Keys, found |-> {}, handles |-> {}]]
    /\ UNCHANGED <<hw, next_handle, table, ager, tracker, replaced>>

\* A flush with nothing left to do returns.
Continue(f) == IF f.todo = {} /\ f.found = {} /\ f.handles = {} THEN Idle ELSE f

\* A key visited while collecting keys_to_remove, one taken from the table, and an entry
\* removed from the hardware.
Scanned(f, k) ==
    [f EXCEPT !.todo = @ \ {k},
              !.found = IF k \in DOMAIN table /\ Matches(k, table[k], f.criterion)
                          THEN @ \cup {k} ELSE @]

Dropped(f, k) == [f EXCEPT !.found = @ \ {k}, !.handles = @ \cup Found(k)]

Removed(f, h) == [f EXCEPT !.handles = @ \ {h}]

FlushScan(c, k) ==
    /\ call[c].pc = "flush" /\ k \in call[c].todo
    /\ call' = [call EXCEPT ![c] = Continue(Scanned(call[c], k))]
    /\ UNCHANGED <<hw, next_handle, table, ager, tracker, replaced>>

\* Broken variant: the handles are collected and the entry is kept.
FlushDrop_KeepEntry(c, k) ==
    /\ call[c].pc = "flush" /\ call[c].todo = {} /\ k \in call[c].found
    /\ call' = [call EXCEPT ![c] = Continue(Dropped(call[c], k))]
    /\ UNCHANGED <<hw, next_handle, table, ager, tracker, replaced>>

\* Whatever the key has by now is removed.
FlushDrop(c, k) ==
    /\ call[c].pc = "flush" /\ call[c].todo = {} /\ k \in call[c].found
    /\ table' = Drop(table, {k})
    /\ call' = [call EXCEPT ![c] = Continue(Dropped(call[c], k))]
    /\ UNCHANGED <<hw, next_handle, ager, tracker, replaced>>

\* remove_session; one that is not there is only logged.
FlushRemove(c, h) ==
    /\ call[c].pc = "flush" /\ call[c].todo = {} /\ call[c].found = {}
    /\ h \in call[c].handles
    /\ hw' = Drop(hw, {h})
    /\ call' = [call EXCEPT ![c] = Continue(Removed(call[c], h))]
    /\ UNCHANGED <<next_handle, table, ager, tracker, replaced>>

-----------------------------------------------------------------------------
(* QuerySession; the counters it caches in the table are not read by anybody *)

query_session(c, k) ==
    /\ call[c] = Idle /\ k \in DOMAIN table
    /\ call' = [call EXCEPT ![c] = [pc |-> "query", handle |-> table[k].handle]]
    /\ UNCHANGED <<hw, next_handle, table, ager, tracker, replaced>>

\* A query is also what stands for traffic: it counts packets.
QueryCounters(c) ==
    /\ call[c].pc = "query"
    /\ hw' = [h \in DOMAIN hw |->
                 IF h = call[c].handle /\ hw[h] < MaxPackets THEN hw[h] + 1 ELSE hw[h]]
    /\ call' = [call EXCEPT ![c] = Idle]
    /\ UNCHANGED <<next_handle, table, ager, tracker, replaced>>

-----------------------------------------------------------------------------
(* The aging loop.  Time is counted in poll intervals, as the age of a baseline. *)

AgerTick ==
    /\ ager.pc = "sleep"
    /\ ager' = [ager EXCEPT !.pc = "poll", !.todo = Keys]
    /\ tracker' = [k \in DOMAIN tracker |->
                     [tracker[k] EXCEPT !.age = IF @ < IdlePolls THEN @ + 1 ELSE @]]
    /\ UNCHANGED <<hw, next_handle, table, call, replaced>>

\* Collecting session_keys: one key is visited.
AgerScan(k) ==
    /\ ager.pc = "poll" /\ k \in ager.todo
    /\ ager' = [ager EXCEPT !.todo = @ \ {k},
                            !.seen = IF k \in DOMAIN table
                                       THEN @ \cup {[key |-> k, handle |-> table[k].handle]}
                                       ELSE @]
    /\ UNCHANGED <<hw, next_handle, table, call, tracker, replaced>>

\* The session's counter stands still since IdlePolls polls.
IsIdle(s) ==
    /\ s.key \in DOMAIN tracker
    /\ tracker[s.key].packets = hw[s.handle]
    /\ tracker[s.key].age >= IdlePolls

\* Broken variant: every poll starts afresh.
NewBaseline_Always(s) == TRUE

\* The counter has moved, or is seen for the first time.
NewBaseline(s) ==
    \/ s.key \notin DOMAIN tracker
    \/ tracker[s.key].packets # hw[s.handle]

\* Broken variant: a session whose entry is gone is left alone.
Condemned_NotGone(s) == s.handle \in DOMAIN hw /\ IsIdle(s)

\* The session is gone from the hardware, or idle.
Condemned(s) == s.handle \notin DOMAIN hw \/ IsIdle(s)

\* query_session_counters and what follows from it.
AgerJudge(s) ==
    /\ ager.pc = "poll" /\ ager.todo = {} /\ s \in ager.seen
    /\ ager' = [ager EXCEPT !.seen = @ \ {s},
                            !.evict = IF Condemned(s) THEN @ \cup {s.key} ELSE @]
    /\ tracker' = IF s.handle \in DOMAIN hw /\ NewBaseline(s)
                    THEN Put(tracker, s.key, [packets |-> hw[s.handle], age |-> 0])
                    ELSE tracker
    /\ UNCHANGED <<hw, next_handle, table, call, replaced>>

AgerJudged == ager.pc = "poll" /\ ager.todo = {} /\ ager.seen = {}

\* remove_by_key_string, whatever the key has by now; the hardware entries follow before
\* the next key's turn.
AgerEvict(k) ==
    /\ AgerJudged /\ ager.handles = {} /\ k \in ager.evict
    /\ table' = Drop(table, {k})
    /\ ager' = [ager EXCEPT !.evict = @ \ {k}, !.handles = Found(k)]
    /\ tracker' = Drop(tracker, {k})
    /\ UNCHANGED <<hw, next_handle, call, replaced>>

AgerRemove(h) ==
    /\ AgerJudged /\ h \in ager.handles
    /\ hw' = Drop(hw, {h})
    /\ ager' = [ager EXCEPT !.handles = @ \ {h}]
    /\ UNCHANGED <<next_handle, table, call, tracker, replaced>>

AgerEvicted ==
    /\ AgerJudged /\ ager.evict = {} /\ ager.handles = {}
    /\ ager' = [ager EXCEPT !.pc = "retain", !.todo = Keys]
    /\ UNCHANGED <<hw, next_handle, table, call, tracker, replaced>>

\* Forgetting keys that are gone: one key is visited.
AgerRetain(k) ==
    /\ ager.pc = "retain" /\ k \in ager.todo
    /\ ager' = [ager EXCEPT !.todo = @ \ {k},
                            !.pc = IF ager.todo = {k} THEN "sleep" ELSE @]
    /\ tracker' = IF k \in DOMAIN table THEN tracker ELSE Drop(tracker, {k})
    /\ UNCHANGED <<hw, next_handle, table, call, replaced>>

AgerStep ==
    \/ AgerTick
    \/ \E k \in Keys : AgerScan(k) \/ AgerRetain(k)
    \/ \E s \in ager.seen : AgerJudge(s)
    \/ \E k \in ager.evict : AgerEvict(k)
    \/ \E h \in ager.handles : AgerRemove(h)
    \/ AgerEvicted

\* A step of a handler that has started.
CallStep(c) ==
    \/ InsertForward(c) \/ InsertReverse(c) \/ QueryCounters(c)
    \/ \E k \in Keys : FlushScan(c, k) \/ FlushDrop(c, k)
    \/ \E h \in Handles : FlushRemove(c, h)

Next ==
    \/ \E c \in Clients :
          \/ \E k \in Keys, b \in BOOLEAN, r \in Rules : program_session(c, k, b, r)
          \/ ProgramRefused(c)
          \/ \E k \in Keys : query_session(c, k)
          \/ \E f \in Criteria : flush_sessions(c, f)
          \/ CallStep(c)
    \/ AgerStep

Spec == Init /\ [][Next]_vars

\* Handlers that have started and the aging loop are tasks the runtime schedules;
\* nothing is assumed of clients.
FairSpec == Spec /\ WF_vars(AgerStep) /\ \A c \in Clients : WF_vars(CallStep(c))

-----------------------------------------------------------------------------
(* Properties *)

Requests ==
    {Idle}
    \cup [pc : {"insert"}, key : Keys, rule : Rules,
          fwd : Handles, rev : Handles \cup {NoHandle}]
    \cup [pc : {"insert_reverse"}, key : Keys, rule : Rules, fwd : Handles, rev : Handles]
    \cup [pc : {"flush"}, criterion : Criteria, todo : SUBSET Keys,
          found : SUBSET Keys, handles : SUBSET Handles]
    \cup [pc : {"query"}, handle : Handles]

Watched == [key : Keys, handle : Handles]

TypeOK ==
    /\ next_handle \in 1..(MaxHandle + 1)
    /\ DOMAIN hw \subseteq 1..(next_handle - 1)
    /\ \A h \in DOMAIN hw : hw[h] \in 0..MaxPackets
    /\ DOMAIN table \subseteq Keys
    /\ \A k \in DOMAIN table : table[k] \in SessionEntry
    /\ call \in [Clients -> Requests]
    /\ ager \in [pc : {"sleep", "poll", "retain"}, todo : SUBSET Keys,
                 seen : SUBSET Watched, evict : SUBSET Keys, handles : SUBSET Handles]
    /\ DOMAIN tracker \subseteq Keys
    /\ \A k \in DOMAIN tracker :
          tracker[k] \in [packets : 0..MaxPackets, age : 0..IdlePolls]
    /\ replaced \subseteq Handles

\* Entries that a handler has programmed and not recorded yet, or is about to remove.
HeldBy(c) ==
    CASE call[c].pc = "insert" -> {call[c].fwd, call[c].rev}
      [] call[c].pc = "insert_reverse" -> {call[c].rev}
      [] call[c].pc = "flush" -> call[c].handles
      [] OTHER -> {}

\* "index of all programmed sessions" (session_table.rs:71): only an insert for a key
\* that is in use makes a hardware entry unreachable.  Whatever else handlers and the
\* aging loop do to the table meanwhile, an entry is in the table, on its way into it,
\* or about to be removed by somebody.
HwOwned ==
    \A h \in DOMAIN hw :
        \/ \E k \in DOMAIN table : h \in HandlesOf(table[k])
        \/ \E c \in Clients : h \in HeldBy(c)
        \/ h \in ager.handles
        \/ h \in replaced

\* A session of one direction is in hardware for as long as it is in the table: a
\* flush or an eviction of other sessions, or of an earlier session with its key,
\* never removes its entry.
SessionsBacked ==
    \A k \in DOMAIN table : table[k].rev = NoHandle => table[k].handle \in DOMAIN hw

\* A session whose hardware entry is gone (the reverse half of one that was evicted
\* or flushed while it was being programmed) does not stay in the table: the aging
\* loop finds it.
Dangling(k) == k \in DOMAIN table /\ table[k].handle \notin DOMAIN hw

DanglingSwept == \A k \in Keys : Dangling(k) ~> ~Dangling(k)

\* Hardware entries do not stay for ever once traffic has stopped (MaxPackets): the
\* aging loop removes them if nobody else does, unless an insert replaced them.
IdleRemoved ==
    \A h \in Handles : h \in DOMAIN hw ~> h \notin DOMAIN hw \/ h \in replaced
=============================================================================
