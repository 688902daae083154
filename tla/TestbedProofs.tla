----------------------------- MODULE TestbedProofs -----------------------------
(***************************************************************************)
(* Proofs about Testbed for every list of ports, every set of profiles,    *)
(* any number of worker threads and any number of requests under way at a  *)
(* time, whatever the firewall does and whatever fails.  First the         *)
(* receiver, then the generator, then the statistics.                      *)
(***************************************************************************)
EXTENDS Testbed, FiniteSetTheorems, TLAPS

\* The port has a listener that is shown and that a stop will find.
Served(p) == loop[p] \in {"run", "failed"} /\ Listed(p)

RcvTypes ==
    /\ active \in BOOLEAN
    /\ listeners \in Seq(Entries)
    /\ loop \in [Listened -> {"off", "run", "stopping", "failed"}]
    /\ call \in [Calls -> CallStates]

\* Of requests that come one after the other: a start has served the ports it is past,
\* and a stop finds the receiver active.
OneCall == \A c, d \in Calls : call[c] # NoCall /\ call[d] # NoCall => c = d

Bound ==
    \A c \in Calls :
        /\ call[c].pc \in {"clear", "bind"} => ~active
        /\ call[c].pc = "bind" => \A i \in 1..(call[c].at - 1) : Served(Configs[i])

Stopping == \A c \in Calls : call[c].pc \in {"stop", "join", "inactive"} => active

Serving == (active /\ ReceiverSettled) => \A p \in Listened : Served(p)

RcvOrder == OneCall /\ Bound /\ Stopping /\ Serving
RcvInv == RcvTypes /\ (Orderly("receiver") => RcvOrder)

\* What the invariant is about.
seen == <<active, listeners, loop, call>>

LEMMA ConfigFacts ==
    /\ Configs \in Seq(Listened)
    /\ Len(Configs) \in Nat
    /\ DOMAIN Configs = 1..Len(Configs)
    /\ \A i \in 1..Len(Configs) : Configs[i] \in Listened
    /\ \A p \in Listened : \E i \in 1..Len(Configs) : Configs[i] = p
    /\ \A i, j \in 1..Len(Configs) : Configs[i] = Configs[j] => i = j
  <1>1. Configs \in Seq(Listened)
    BY ConfigAssumption DEF Listened
  <1>2. Len(Configs) \in Nat /\ DOMAIN Configs = 1..Len(Configs)
    BY <1>1
  <1> QED
    BY <1>1, <1>2, ConfigAssumption DEF Listened, Range

LEMMA InitRcvInv == Init => RcvInv
  <1> SUFFICES ASSUME Init PROVE RcvInv
    OBVIOUS
  <1>1. /\ listeners = [i \in 1..Len(Configs) |-> Open(Configs[i])]
        /\ loop = [p \in Listened |-> "run"]
        /\ active = TRUE /\ call = [c \in Calls |-> NoCall]
    BY ConfigFacts DEF Init, InitReceiver
  <1>2. \A i \in 1..Len(Configs) : Open(Configs[i]) \in Entries
    BY ConfigFacts DEF Open, Entries
  <1>3. listeners \in Seq(Entries)
    BY <1>1, <1>2, ConfigFacts
  <1>4. \A p \in Listened : Listed(p)
    BY <1>1, ConfigFacts DEF Listed, Range
  <1>5. NoCall \in CallStates /\ NoCall.pc = "idle"
    BY DEF NoCall, CallStates
  <1>6. RcvTypes
    BY <1>1, <1>3, <1>5 DEF RcvTypes
  <1>7. RcvOrder
    BY <1>1, <1>4, <1>5 DEF RcvOrder, OneCall, Bound, Stopping, Serving, Served
  <1> QED
    BY <1>6, <1>7 DEF RcvInv

\* A call's form.
LEMMA CallForms ==
    ASSUME RcvTypes, NEW c \in Calls
    PROVE  /\ call[c].pc = "bind" => /\ call[c] = [pc |-> "bind", at |-> call[c].at]
                                     /\ call[c].at \in 1..(Len(Configs) + 1)
           /\ call[c].pc = "stop" => /\ call[c] = [pc |-> "stop", at |-> call[c].at]
                                     /\ call[c].at \in Nat \ {0}
           /\ call[c].pc = "join" => /\ call[c] = [pc |-> "join", at |-> call[c].at,
                                                   port |-> call[c].port]
                                     /\ call[c].at \in Nat \ {0}
                                     /\ call[c].port \in Listened
           /\ call[c].pc # "idle" => call[c] # NoCall
  BY DEF RcvTypes, CallStates, NoCall

LEMMA CallRecords ==
    /\ NoCall \in CallStates /\ NoCall.pc = "idle"
    /\ [pc |-> "clear"] \in CallStates /\ [pc |-> "inactive"] \in CallStates
    /\ \A k \in 1..(Len(Configs) + 1) : [pc |-> "bind", at |-> k] \in CallStates
    /\ \A k \in Nat \ {0} : [pc |-> "stop", at |-> k] \in CallStates
    /\ \A k \in Nat \ {0}, p \in Listened : [pc |-> "join", at |-> k, port |-> p] \in CallStates
  BY DEF CallStates, NoCall

\* What a listed port is, as the list changes.
LEMMA ListFacts ==
    ASSUME NEW s \in Seq(Entries), NEW p \in Listened
    PROVE  /\ Append(s, Open(p)) \in Seq(Entries)
           /\ Range(Append(s, Open(p))) = Range(s) \cup {Open(p)}
           /\ \A k \in 1..Len(s) : s[k] \in Entries /\ [s EXCEPT ![k] = Closed(p)] \in Seq(Entries)
  <1>1. Open(p) \in Entries /\ Closed(p) \in Entries
    BY DEF Open, Closed, Entries
  <1>2. /\ Len(Append(s, Open(p))) = Len(s) + 1 /\ Append(s, Open(p))[Len(s) + 1] = Open(p)
        /\ \A i \in 1..Len(s) : Append(s, Open(p))[i] = s[i]
        /\ DOMAIN Append(s, Open(p)) = 1..(Len(s) + 1) /\ DOMAIN s = 1..Len(s)
        /\ Len(s) \in Nat
    BY <1>1
  <1>3. Range(Append(s, Open(p))) = Range(s) \cup {Open(p)}
    BY <1>2 DEF Range
  <1>4. Append(s, Open(p)) \in Seq(Entries)
    BY <1>1
  <1>5. \A k \in 1..Len(s) : s[k] \in Entries /\ [s EXCEPT ![k] = Closed(p)] \in Seq(Entries)
    BY <1>1
  <1> QED
    BY <1>3, <1>4, <1>5

\* A step of a call's thread, in one form: the call's next state, and the list's.
LEMMA CallMoves ==
    ASSUME RcvTypes, NEW c \in Calls, rcv_start(c) \/ rcv_stop(c) \/ CallStep(c)
    PROVE  RcvTypes' /\ \E s \in CallStates : call' = [call EXCEPT ![c] = s]
  <1> USE DEF RcvTypes
  <1>1. CASE rcv_start(c) \/ rcv_stop(c) \/ StartFails(c) \/ StartSucceeds(c)
             \/ StopEnds(c) \/ StopDone(c)
    <2>1. 1 \in Nat \ {0}
      OBVIOUS
    <2>2. /\ UNCHANGED <<listeners, loop>> /\ active' \in {active, TRUE, FALSE}
          /\ \E s \in {[pc |-> "clear"], [pc |-> "stop", at |-> 1], NoCall, [pc |-> "inactive"]} :
                call' = [call EXCEPT ![c] = s]
      BY <1>1 DEF rcv_start, rcv_stop, StartFails, StartSucceeds, StopEnds, StopDone
    <2>3. active' \in BOOLEAN
      <3>1. \A b \in BOOLEAN : \A d \in {b, TRUE, FALSE} : d \in BOOLEAN
        OBVIOUS
      <3> QED
        BY <2>2, <3>1, Zenon
    <2>4. \A s \in {[pc |-> "clear"], [pc |-> "stop", at |-> 1], NoCall, [pc |-> "inactive"]} :
             s \in CallStates
      BY <2>1, CallRecords
    <2>5. PICK s \in CallStates : call' = [call EXCEPT ![c] = s]
      BY <2>2, <2>4
    <2> QED
      BY <2>2, <2>3, <2>5
  <1>2. CASE ClearListeners(c)
    <2>1. [pc |-> "bind", at |-> 1] \in CallStates
      BY CallRecords, ConfigFacts
    <2>2. loop' \in [Listened -> {"off", "run", "stopping", "failed"}]
      BY <1>2 DEF ClearListeners, Release
    <2>3. listeners' \in Seq(Entries) /\ UNCHANGED active
      BY <1>2 DEF ClearListeners
    <2>4. call' = [call EXCEPT ![c] = [pc |-> "bind", at |-> 1]]
      BY <1>2 DEF ClearListeners
    <2> QED
      BY <2>1, <2>2, <2>3, <2>4
  <1>3. CASE StartListener(c)
    <2>k. PICK k \in Nat : k = call[c].at /\ k \in 1..Len(Configs)
      BY <1>3, CallForms, ConfigFacts DEF StartListener
    <2>1. [pc |-> "bind", at |-> k + 1] \in CallStates
      BY <2>k, CallRecords, ConfigFacts
    <2>2. call' = [call EXCEPT ![c] = [pc |-> "bind", at |-> k + 1]]
      BY <1>3, <2>k DEF StartListener
    <2>3. Configs[k] \in Listened
      BY <2>k, ConfigFacts
    <2>4. listeners' = Append(listeners, Open(Configs[k]))
          /\ loop' = [loop EXCEPT ![Configs[k]] = "run"] /\ UNCHANGED active
      BY <1>3, <2>k DEF StartListener
    <2>5. listeners' \in Seq(Entries)
      BY <2>3, <2>4, ListFacts
    <2> QED
      BY <2>1, <2>2, <2>4, <2>5
  <1>4. CASE StopListener(c)
    <2>k. PICK k \in Nat \ {0} : k = call[c].at /\ k \in 1..Len(listeners)
      BY <1>4, CallForms DEF StopListener
    <2>p. PICK e \in Entries : e = listeners[k]
      BY <2>k
    <2>1. e.port \in Listened
      BY DEF Entries
    <2>2. call' = [call EXCEPT ![c] = [pc |-> "join", at |-> k, port |-> e.port]]
      BY <1>4, <2>k, <2>p DEF StopListener
    <2>3. [pc |-> "join", at |-> k, port |-> e.port] \in CallStates
      BY <2>1, CallRecords
    <2>4. listeners' = [listeners EXCEPT ![k] = Closed(e.port)] /\ UNCHANGED active
      BY <1>4, <2>k, <2>p DEF StopListener
    <2>5. listeners' \in Seq(Entries)
      BY <2>k, <2>1, <2>4, ListFacts
    <2>6. loop' \in [Listened -> {"off", "run", "stopping", "failed"}]
      BY <1>4 DEF StopListener, Release
    <2> QED
      BY <2>2, <2>3, <2>4, <2>5, <2>6
  <1>5. CASE JoinListener(c)
    <2>k. PICK k \in Nat \ {0} : k = call[c].at
      BY <1>5, CallForms DEF JoinListener
    <2>1. call' = [call EXCEPT ![c] = [pc |-> "stop", at |-> k + 1]]
      BY <1>5, <2>k DEF JoinListener
    <2>2. [pc |-> "stop", at |-> k + 1] \in CallStates
      BY <2>k, CallRecords
    <2> QED
      BY <1>5, <2>1, <2>2 DEF JoinListener
  <1> QED
    BY <1>1, <1>2, <1>3, <1>4, <1>5 DEF CallStep

\* Of requests that come one after the other, the one under way is the only one.
LEMMA OneAfterTheOther ==
    ASSUME RcvTypes, RcvOrder, NEW c \in Calls, call[c] # NoCall \/ ReceiverSettled,
           NEW s \in CallStates, call' = [call EXCEPT ![c] = s],
           s.pc \in {"clear", "bind"} => ~active',
           s.pc = "bind" => \A i \in 1..(s.at - 1) : Served(Configs[i])',
           s.pc \in {"stop", "join", "inactive"} => active',
           s.pc = "idle" /\ active' => \A p \in Listened : Served(p)'
    PROVE  RcvOrder'
  <1>1. call' = [d \in Calls |-> IF d = c THEN s ELSE NoCall]
    BY DEF RcvTypes, RcvOrder, OneCall, ReceiverSettled
  <1>2. NoCall.pc = "idle" /\ (s = NoCall \/ s.pc # "idle")
    BY DEF NoCall, CallStates
  <1>3. OneCall' /\ Stopping'
    BY <1>1, <1>2 DEF OneCall, Stopping
  <1>4. Bound'
    <2> SUFFICES ASSUME NEW d \in Calls
                 PROVE  /\ call'[d].pc \in {"clear", "bind"} => ~active'
                        /\ call'[d].pc = "bind" =>
                              \A i \in 1..(call'[d].at - 1) : Served(Configs[i])'
      BY DEF Bound, Served, Listed
    <2> QED
      BY <1>1, <1>2
  <1>5. Serving'
    <2>1. ReceiverSettled' => s = NoCall
      BY <1>1 DEF ReceiverSettled
    <2> QED
      BY <1>2, <2>1 DEF Serving, Served, Listed
  <1> QED
    BY <1>3, <1>4, <1>5 DEF RcvOrder

LEMMA StartSteps ==
    ASSUME RcvTypes, RcvOrder, NEW c \in Calls,
           \/ rcv_start(c) /\ ReceiverSettled
           \/ ClearListeners(c) \/ StartListener(c) \/ StartFails(c) \/ StartSucceeds(c)
    PROVE  RcvOrder'
  <1>1. CASE rcv_start(c) /\ ReceiverSettled
    <2>1. call' = [call EXCEPT ![c] = [pc |-> "clear"]] /\ ~active'
      BY <1>1 DEF rcv_start
    <2> QED
      BY <1>1, <2>1, CallRecords, OneAfterTheOther
  <1>0. ASSUME call[c].pc \in {"clear", "bind"} PROVE ~active /\ call[c] # NoCall
    BY <1>0, CallForms DEF RcvOrder, Bound
  <1>2. CASE ClearListeners(c)
    <2>1. call' = [call EXCEPT ![c] = [pc |-> "bind", at |-> 1]] /\ ~active' /\ call[c] # NoCall
      BY <1>0, <1>2 DEF ClearListeners
    <2>0. [pc |-> "bind", at |-> 1] \in CallStates
      BY CallRecords, ConfigFacts
    <2>2. PICK s \in CallStates : s = [pc |-> "bind", at |-> 1]
      BY <2>0
    <2>3. s.pc = "bind" /\ (\A i \in 1..(s.at - 1) : Served(Configs[i])')
      BY <2>2
    <2>4. call' = [call EXCEPT ![c] = s]
      BY <2>1, <2>2
    <2> QED
      BY <2>1, <2>3, <2>4, OneAfterTheOther
  <1>b. ASSUME call[c].pc = "bind"
        PROVE  \E k \in Nat : /\ k = call[c].at /\ k \in 1..(Len(Configs) + 1)
                              /\ \A i \in 1..(k - 1) : Served(Configs[i])
    <2>0. call[c].at \in 1..(Len(Configs) + 1)
      BY <1>b, CallForms
    <2>1. call[c].at \in Nat /\ call[c].at \in 1..(Len(Configs) + 1)
      BY <2>0, ConfigFacts
    <2>2. \A i \in 1..(call[c].at - 1) : Served(Configs[i])
      BY <1>b DEF RcvOrder, Bound
    <2> QED
      BY <2>1, <2>2
  <1>3. CASE StartListener(c)
    <2>k. PICK k \in Nat : /\ k = call[c].at /\ k \in 1..Len(Configs)
                           /\ \A i \in 1..(k - 1) : Served(Configs[i])
      BY <1>b, <1>3, ConfigFacts DEF StartListener
    <2>p. PICK p \in Listened : p = Configs[k]
      BY <2>k, ConfigFacts
    <2>l. /\ loop[p] = "off" /\ loop' = [loop EXCEPT ![p] = "run"]
          /\ listeners' = Append(listeners, Open(p))
      BY <1>3, <2>k, <2>p DEF StartListener
    <2>c. call' = [call EXCEPT ![c] = [pc |-> "bind", at |-> k + 1]]
      BY <1>3, <2>k DEF StartListener, RcvTypes
    <2>1. [pc |-> "bind", at |-> k + 1] \in CallStates
      BY <2>k, CallRecords, ConfigFacts
    <2>2. Range(listeners') = Range(listeners) \cup {Open(p)}
      BY <2>l, ListFacts DEF RcvTypes
    <2>3. \A q \in Listened : Served(q) => Served(q)'
      BY <2>l, <2>2 DEF Served, Listed, RcvTypes
    <2>4. Served(p)'
      BY <2>l, <2>2 DEF Served, Listed, RcvTypes
    <2>5. \A i \in 1..(k + 1 - 1) : (i \in 1..(k - 1) /\ Configs[i] \in Listened) \/ i = k
      BY <2>k, ConfigFacts
    <2>6. \A i \in 1..(k + 1 - 1) : Served(Configs[i])'
      BY <2>k, <2>p, <2>3, <2>4, <2>5
    <2>7. ~active' /\ call[c] # NoCall
      BY <1>0, <1>3 DEF StartListener
    <2>8. PICK s \in CallStates : s = [pc |-> "bind", at |-> k + 1]
      BY <2>1
    <2>9. s.pc = "bind" /\ (\A i \in 1..(s.at - 1) : Served(Configs[i])')
      BY <2>6, <2>8
    <2>10. call' = [call EXCEPT ![c] = s]
      BY <2>c, <2>8
    <2> QED
      BY <2>7, <2>9, <2>10, OneAfterTheOther
  <1>4. CASE StartFails(c)
    <2>1. call' = [call EXCEPT ![c] = NoCall] /\ ~active' /\ call[c] # NoCall
      BY <1>0, <1>4 DEF StartFails
    <2> QED
      BY <2>1, CallRecords, OneAfterTheOther
  <1>5. CASE StartSucceeds(c)
    <2>k. PICK k \in Nat : /\ k = call[c].at /\ k - 1 = Len(Configs)
                           /\ \A i \in 1..(k - 1) : Served(Configs[i])
      BY <1>b, <1>5, ConfigFacts DEF StartSucceeds
    <2>1. \A p \in Listened : Served(p)
      BY <2>k, ConfigFacts
    <2>2. \A p \in Listened : Served(p)'
      BY <1>5, <2>1 DEF StartSucceeds, Served, Listed
    <2>3. call' = [call EXCEPT ![c] = NoCall] /\ call[c] # NoCall
      BY <1>0, <1>5 DEF StartSucceeds
    <2> QED
      BY <2>2, <2>3, CallRecords, OneAfterTheOther
  <1> QED
    BY <1>1, <1>2, <1>3, <1>4, <1>5

\* Nothing is promised of a receiver that is being stopped.
LEMMA StopSteps ==
    ASSUME RcvTypes, RcvOrder, NEW c \in Calls,
           \/ rcv_stop(c) /\ ReceiverSettled
           \/ StopListener(c) \/ JoinListener(c) \/ StopEnds(c) \/ StopDone(c)
    PROVE  RcvOrder'
  <1>1. PICK s \in CallStates : call' = [call EXCEPT ![c] = s]
    BY CallMoves DEF CallStep
  <1>2. call'[c] = s
    BY <1>1 DEF RcvTypes
  <1>3. CASE StopDone(c)
    <2>1. call[c] # NoCall /\ ~active'
      BY <1>3, CallForms DEF StopDone
    <2>2. call' = [call EXCEPT ![c] = NoCall]
      BY <1>3 DEF StopDone
    <2> QED
      BY <2>1, <2>2, CallRecords, OneAfterTheOther
  <1>4. CASE rcv_stop(c) /\ ReceiverSettled
    <2>1. s.pc = "stop" /\ active'
      BY <1>2, <1>4 DEF rcv_stop, RcvTypes
    <2> QED
      BY <1>1, <1>4, <2>1, OneAfterTheOther
  <1>5. CASE StopListener(c) \/ JoinListener(c) \/ StopEnds(c)
    <2>1. call[c].pc \in {"stop", "join"} /\ s.pc \in {"stop", "join", "inactive"}
      BY <1>2, <1>5 DEF StopListener, JoinListener, StopEnds, RcvTypes
    <2>2. active' = active /\ active /\ call[c] # NoCall
      BY <1>5, <2>1, CallForms DEF StopListener, JoinListener, StopEnds, RcvOrder, Stopping
    <2> QED
      BY <1>1, <2>1, <2>2, OneAfterTheOther
  <1> QED
    BY <1>3, <1>4, <1>5

\* A port that is served stays so, when its loop fails too: the listener is listed.
LEMMA HostSteps ==
    ASSUME RcvTypes, NEW p \in Listened, HostStep(p)
    PROVE  RcvTypes' /\ (RcvOrder => RcvOrder')
  <1>1. UNCHANGED <<active, listeners, call>>
    BY DEF HostStep, Accept, LoopFails, LoopEnds
  <1>2. loop' \in [Listened -> {"off", "run", "stopping", "failed"}]
    BY DEF HostStep, Accept, LoopFails, LoopEnds, Release, RcvTypes
  <1>3. RcvTypes'
    BY <1>1, <1>2 DEF RcvTypes
  <1>4. \A q \in Listened : Served(q) => Served(q)'
    <2>1. CASE Accept(p)
      BY <2>1 DEF Accept, Served, Listed
    <2>2. CASE LoopFails(p)
      BY <1>1, <2>2 DEF LoopFails, Release, Served, Listed, RcvTypes
    <2>3. CASE LoopEnds(p)
      BY <1>1, <2>3 DEF LoopEnds, Release, Served, Listed, RcvTypes
    <2> QED
      BY <2>1, <2>2, <2>3 DEF HostStep
  <1>5. \A c \in Calls : call[c].pc = "bind" =>
           \A i \in 1..(call[c].at - 1) : Configs[i] \in Listened
    <2> SUFFICES ASSUME NEW c \in Calls, call[c].pc = "bind", NEW i \in 1..(call[c].at - 1)
                 PROVE  Configs[i] \in Listened
      OBVIOUS
    <2>1. call[c].at \in 1..(Len(Configs) + 1)
      BY CallForms
    <2>2. i \in 1..Len(Configs)
      BY <2>1, ConfigFacts
    <2> QED
      BY <2>2, ConfigFacts
  <1>6. Bound => Bound'
    BY <1>1, <1>4, <1>5 DEF Bound, Served, Listed
  <1>7. Serving => Serving'
    BY <1>1, <1>4 DEF Serving, ReceiverSettled, Served, Listed
  <1> QED
    BY <1>1, <1>3, <1>6, <1>7 DEF RcvOrder, OneCall, Stopping

LEMMA NextRcvInv == RcvInv /\ [Next]_vars => RcvInv'
  <1> SUFFICES ASSUME RcvInv, [Next]_vars PROVE RcvInv'
    OBVIOUS
  <1>0. RcvTypes
    BY DEF RcvInv
  <1>1. ASSUME UNCHANGED seen, Orderly("receiver")' => Orderly("receiver") PROVE RcvInv'
    BY <1>1 DEF seen, RcvInv, RcvTypes, RcvOrder, OneCall, Bound, Stopping, Serving,
                ReceiverSettled, Served, Listed
  <1>2. ASSUME NEW c \in Calls, RcvArrival(c) PROVE RcvInv'
    <2>1. Orderly("receiver")' => Orderly("receiver") /\ ReceiverSettled
      BY <1>2 DEF RcvArrival, Arrives, Orderly
    <2>2. RcvTypes'
      BY <1>0, <1>2, CallMoves DEF RcvArrival
    <2>3. RcvOrder /\ ReceiverSettled => RcvOrder'
      BY <1>0, <1>2, StartSteps, StopSteps DEF RcvArrival
    <2> QED
      BY <2>1, <2>2, <2>3 DEF RcvInv
  <1>3. ASSUME NEW c \in Calls, CallStep(c), UNCHANGED overlapped PROVE RcvInv'
    <2>1. RcvTypes'
      BY <1>0, <1>3, CallMoves
    <2>2. RcvOrder => RcvOrder'
      BY <1>0, <1>3, StartSteps, StopSteps DEF CallStep
    <2> QED
      BY <1>3, <2>1, <2>2 DEF RcvInv, Orderly
  <1>4. ASSUME NEW p \in Listened, HostStep(p), UNCHANGED overlapped PROVE RcvInv'
    BY <1>0, <1>4, HostSteps DEF RcvInv, Orderly
  <1>5. ASSUME NEW r \in Requests, GenArrival(r) PROVE RcvInv'
    <2>1. UNCHANGED seen
      BY <1>5 DEF GenArrival, rcv_vars, seen
    <2>2. Orderly("receiver")' => Orderly("receiver")
      BY <1>5 DEF GenArrival, Arrives, Orderly
    <2> QED
      BY <1>1, <2>1, <2>2
  <1>6. ASSUME UNCHANGED <<seen, overlapped>> PROVE RcvInv'
    BY <1>1, <1>6 DEF Orderly
  <1>7. ASSUME NEW t \in Threads, Establish(t) PROVE RcvInv'
    BY <1>6, <1>7 DEF Establish, seen
  <1>8. ASSUME UNCHANGED rcv_vars, UNCHANGED overlapped PROVE RcvInv'
    BY <1>6, <1>8 DEF rcv_vars, seen
  <1>9. CASE Next
    BY <1>2, <1>3, <1>4, <1>5, <1>7, <1>8, <1>9 DEF Next, GenOnly, RcvOnly
  <1>10. CASE UNCHANGED vars
    BY <1>6, <1>10 DEF vars, seen
  <1> QED
    BY <1>9, <1>10

LEMMA AlwaysRcvInv == Spec => []RcvInv
  BY InitRcvInv, NextRcvInv, PTL DEF Spec

\* TrafficReceiver reports running only if each of DEFAULT_LISTENERS is bound and has
\* its place in _listeners, after any history of starts that failed halfway, stops and
\* accept loops that died, as long as no two of its requests have overlapped.
THEOREM ReportedAsServing == Spec => []ActiveServes
  <1>1. RcvInv => ActiveServes
    BY DEF RcvInv, RcvOrder, Serving, Served, ActiveServes
  <1> QED
    BY <1>1, AlwaysRcvInv, PTL


-----------------------------------------------------------------------------
(* The generator *)

\* A worker that is about to be started is nobody else's.
Launching ==
    /\ \A r \in Requests : req[r].pc = "launch" => thread[req[r].worker].pc = "new"
    /\ \A r, d \in Requests : req[r].pc = "launch" /\ req[d].pc = "launch"
                               /\ req[r].worker = req[d].worker => r = d

GenTypes ==
    /\ profile \in Profiles
    /\ DOMAIN port_stats \subseteq Ports
    /\ req \in [Requests -> ControlStates]
    /\ thread \in [Threads -> WorkerStates]
    /\ Launching

\* The rest is about requests that come one after the other.
OneRequest == \A r, s \in Requests : req[r] # Idle /\ req[s] # Idle => r = s

Covered(S) == \A p \in S : \E t \in Threads : Serves(t, p)

\* Workers do not end, and each port shown has one.
Healthy == ~stop_event /\ Covered(DOMAIN port_stats)

\* What start() and stop() have established when they are about to do s.
SoFar(s) ==
    /\ s.pc \in {"flag", "reset", "clear", "ports", "fill", "spawn", "launch"} => ~stop_event
    /\ s.pc = "ports" => DOMAIN port_stats = {}
    /\ s.pc = "fill" => s.todo \subseteq s.ports /\ DOMAIN port_stats = s.ports \ s.todo
    /\ s.pc = "spawn" => Covered(DOMAIN port_stats \ s.todo)
    /\ s.pc = "launch" => Covered(DOMAIN port_stats \ (s.todo \cup {thread[s.worker].port}))
    /\ s.pc = "start" /\ running => Healthy
    /\ s.pc = "join" => ~running

GenOrder ==
    /\ OneRequest
    /\ \A r \in Requests : SoFar(req[r])
    /\ running /\ Settled => Healthy

GenInv == GenTypes /\ (Orderly("generator") => GenOrder)

LEMMA InitGenInv == Init => GenInv
  <1> SUFFICES ASSUME Init PROVE GenInv
    OBVIOUS
  <1>1. DOMAIN port_stats = {}
    BY DEF Init, InitTraffic
  <1>2. GenTypes
    BY <1>1, ProfileAssumption
    DEF Init, InitTraffic, GenTypes, Launching, Idle, Ended, ControlStates, WorkerStates
  <1>3. GenOrder
    BY <1>1 DEF Init, InitTraffic, GenOrder, OneRequest, SoFar, Settled, Idle
  <1> QED
    BY <1>2, <1>3 DEF GenInv

\* A request's form.
LEMMA RequestForms ==
    ASSUME GenTypes, NEW r \in Requests
    PROVE  /\ req[r].pc = "fill" =>
                 \E todo, ports \in (SUBSET Ports) \ {{}} :
                     req[r] = [pc |-> "fill", todo |-> todo, ports |-> ports]
           /\ req[r].pc = "spawn" =>
                 \E todo \in (SUBSET Ports) \ {{}} : req[r] = [pc |-> "spawn", todo |-> todo]
           /\ req[r].pc = "launch" =>
                 \E todo \in SUBSET Ports, t \in Threads :
                     req[r] = [pc |-> "launch", todo |-> todo, worker |-> t]
           /\ req[r].pc = "join" =>
                 \E k \in Nat \ {0} : req[r] = [pc |-> "join", at |-> k]
           /\ req[r].pc # "idle" => req[r] # Idle
  <1>1. req[r] \in ControlStates
    BY DEF GenTypes
  <1>2. req[r].pc # "idle" => req[r] # Idle
    BY DEF Idle
  <1>3. ASSUME req[r].pc = "fill"
        PROVE  \E todo, ports \in (SUBSET Ports) \ {{}} :
                   req[r] = [pc |-> "fill", todo |-> todo, ports |-> ports]
    BY <1>1, <1>3 DEF ControlStates, Idle
  <1>4. ASSUME req[r].pc = "spawn"
        PROVE  \E todo \in (SUBSET Ports) \ {{}} : req[r] = [pc |-> "spawn", todo |-> todo]
    BY <1>1, <1>4 DEF ControlStates, Idle
  <1>5. ASSUME req[r].pc = "launch"
        PROVE  \E todo \in SUBSET Ports, t \in Threads :
                   req[r] = [pc |-> "launch", todo |-> todo, worker |-> t]
    <2>1. req[r] \in [pc : {"launch"}, todo : SUBSET Ports, worker : Threads]
      BY <1>1, <1>5 DEF ControlStates, Idle
    <2>2. /\ req[r] = [pc |-> "launch", todo |-> req[r].todo, worker |-> req[r].worker]
          /\ req[r].todo \in SUBSET Ports /\ req[r].worker \in Threads
      BY <2>1
    <2> QED
      BY <2>2
  <1>6. ASSUME req[r].pc = "join"
        PROVE  \E k \in Nat \ {0} : req[r] = [pc |-> "join", at |-> k]
    BY <1>1, <1>6 DEF ControlStates, Idle
  <1> QED
    BY <1>2, <1>3, <1>4, <1>5, <1>6

LEMMA RequestRecords ==
    /\ Idle \in ControlStates /\ Idle.pc = "idle"
    /\ \A k \in {"start", "event", "flag", "reset", "clear", "ports", "halt", "unflag"} :
          [pc |-> k] \in ControlStates
    /\ \A todo, ports \in (SUBSET Ports) \ {{}} :
          [pc |-> "fill", todo |-> todo, ports |-> ports] \in ControlStates
    /\ \A todo \in (SUBSET Ports) \ {{}} : [pc |-> "spawn", todo |-> todo] \in ControlStates
    /\ \A todo \in SUBSET Ports, t \in Threads :
          [pc |-> "launch", todo |-> todo, worker |-> t] \in ControlStates
    /\ \A k \in Nat \ {0} : [pc |-> "join", at |-> k] \in ControlStates
  BY DEF ControlStates, Idle

LEMMA LaunchingKept ==
    ASSUME GenTypes, NEW r \in Requests, NEW s \in ControlStates, s.pc # "launch",
           req' = [req EXCEPT ![r] = s],
           \A t \in Threads : thread[t].pc = "new" =>
               thread'[t].pc = "new" \/ (req[r].pc = "launch" /\ t = req[r].worker)
    PROVE  Launching'
  <1>1. /\ req'[r] = s
        /\ \A d \in Requests : d # r => req'[d] = req[d]
    BY DEF GenTypes
  <1>2. ASSUME NEW d \in Requests, req[d].pc = "launch" PROVE req[d].worker \in Threads
    <2>1. PICK todo \in SUBSET Ports, t \in Threads :
             req[d] = [pc |-> "launch", todo |-> todo, worker |-> t]
      BY <1>2, RequestForms
    <2> QED
      BY <2>1
  <1> QED
    BY <1>1, <1>2 DEF GenTypes, Launching

\* What becomes of workers when counters leave the list.
LEMMA DetachedFacts ==
    ASSUME GenTypes, NEW S, NEW t \in Threads
    PROVE  /\ Detached(t, S) \in WorkerStates
           /\ Detached(t, S).pc = thread[t].pc
           /\ (Detached(t, S) = Ended) = (thread[t] = Ended)
           /\ thread[t] # Ended => Detached(t, S).port = thread[t].port
           /\ thread[t] # Ended /\ Detached(t, S).ps = "listed" =>
                 thread[t].ps = "listed" /\ thread[t].port \notin S
           /\ thread[t] # Ended /\ thread[t].port \notin S => Detached(t, S) = thread[t]
  <1>1. thread[t] \in WorkerStates
    BY DEF GenTypes
  <1>2. CASE thread[t] = Ended
    BY <1>1, <1>2 DEF Detached
  <1>3. CASE thread[t] # Ended
    <2>1. PICK pc, port, ps : /\ thread[t] = [pc |-> pc, port |-> port, ps |-> ps]
                              /\ thread[t] \in [pc : {"new", "boot", "loop", "connect", "recorded"},
                                                port : Ports, ps : {"none", "listed", "detached"}]
      BY <1>1, <1>3 DEF WorkerStates
    <2>2. [thread[t] EXCEPT !.ps = "detached"] = [pc |-> pc, port |-> port, ps |-> "detached"]
      BY <2>1
    <2>3. [pc |-> pc, port |-> port, ps |-> "detached"] \in WorkerStates
      BY <2>1 DEF WorkerStates
    <2>4. [pc |-> pc, port |-> port, ps |-> "detached"] # Ended
      BY DEF Ended
    <2>5. CASE ps = "listed" /\ port \in S
      BY <1>3, <2>1, <2>2, <2>3, <2>4, <2>5 DEF Detached
    <2>6. CASE ~(ps = "listed" /\ port \in S)
      BY <1>1, <1>3, <2>1, <2>6 DEF Detached
    <2> QED
      BY <2>5, <2>6
  <1> QED
    BY <1>2, <1>3

\* A step of a request's thread keeps the types, whatever other requests do.
LEMMA RequestMoves ==
    ASSUME GenTypes, NEW r \in Requests,
           stop(r) \/ (\E p \in Profiles : api_start(r, p)) \/ ControlStep(r)
    PROVE  GenTypes' /\ \E s \in ControlStates : req' = [req EXCEPT ![r] = s]
  <1>0. /\ profile \in Profiles /\ DOMAIN port_stats \subseteq Ports
        /\ req \in [Requests -> ControlStates] /\ thread \in [Threads -> WorkerStates]
    BY DEF GenTypes
  \* A step that leaves the workers and the counters.
  <1>1. ASSUME NEW s \in ControlStates, s.pc # "launch", req' = [req EXCEPT ![r] = s],
               profile' \in Profiles, UNCHANGED <<port_stats, thread>>
        PROVE  GenTypes'
    <2>1. Launching'
      BY <1>1, LaunchingKept
    <2> QED
      BY <1>0, <1>1, <2>1 DEF GenTypes
  <1>2. CASE \/ stop(r) \/ (\E p \in Profiles : api_start(r, p))
             \/ start(r) \/ StartEvent(r) \/ StartFlag(r) \/ StartReset(r)
             \/ StopEvent(r) \/ StopFlag(r) \/ StopClear(r)
    <2>1. PICK s : /\ req' = [req EXCEPT ![r] = s]
                   /\ \/ s = Idle \/ s = [pc |-> "join", at |-> 1]
                      \/ \E k \in {"start", "event", "flag", "reset", "clear", "ports", "halt",
                                   "unflag"} : s = [pc |-> k]
      BY <1>2 DEF stop, api_start, start, StartEvent, StartFlag, StartReset, StopEvent,
                  StopFlag, StopClear
    <2>2. s \in ControlStates /\ s.pc # "launch"
      BY <2>1, RequestRecords
    <2>3. profile' \in Profiles /\ UNCHANGED <<port_stats, thread>>
      BY <1>0, <1>2 DEF stop, api_start, start, StartEvent, StartFlag, StartReset, StopEvent,
                        StopFlag, StopClear
    <2> QED
      BY <1>1, <2>1, <2>2, <2>3
  <1>3. CASE StopJoin(r)
    <2>1. PICK k \in Nat \ {0} : req[r] = [pc |-> "join", at |-> k]
      BY <1>3, RequestForms DEF StopJoin
    <2>2. PICK s : /\ req' = [req EXCEPT ![r] = s]
                   /\ s = Idle \/ s = [pc |-> "join", at |-> k + 1]
      <3>0. req[r].at = k
        BY <2>1
      <3>1. CASE thread[workers[k]].pc = "new"
        <4>1. req' = [req EXCEPT ![r] = Idle]
          BY <1>3, <3>0, <3>1 DEF StopJoin
        <4> QED
          BY <4>1
      <3>2. CASE thread[workers[k]].pc # "new"
        <4>1. req' = [req EXCEPT ![r] = [pc |-> "join", at |-> k + 1]]
          BY <1>3, <3>0, <3>2 DEF StopJoin
        <4> QED
          BY <4>1
      <3> QED
        BY <3>1, <3>2
    <2>3. s \in ControlStates /\ s.pc # "launch"
      BY <2>1, <2>2, RequestRecords
    <2> QED
      BY <1>0, <1>1, <1>3, <2>2, <2>3 DEF StopJoin
  <1>4. CASE StartPorts(r)
    <2>1. PICK ports : ports = PROFILE_PORTS[profile] /\ ports \in (SUBSET Ports) \ {{}}
      BY <1>0, ProfileAssumption
    <2>2. PICK s : s = [pc |-> "fill", todo |-> ports, ports |-> ports]
      OBVIOUS
    <2>3. s \in ControlStates /\ s.pc # "launch" /\ req' = [req EXCEPT ![r] = s]
      BY <1>4, <2>1, <2>2, RequestRecords DEF StartPorts
    <2> QED
      BY <1>0, <1>1, <1>4, <2>3 DEF StartPorts
  <1>5. CASE StartClear(r)
    <2>1. PICK s : s = [pc |-> "ports"]
      OBVIOUS
    <2>2. s \in ControlStates /\ s.pc # "launch" /\ req' = [req EXCEPT ![r] = s]
      BY <1>5, <2>1, RequestRecords DEF StartClear
    <2>3. /\ DOMAIN port_stats' = {} /\ UNCHANGED profile
          /\ thread' = [t \in Threads |-> Detached(t, Ports)]
      BY <1>5 DEF StartClear
    <2>4. thread' \in [Threads -> WorkerStates] /\ \A t \in Threads : thread'[t].pc = thread[t].pc
      BY <2>3, DetachedFacts
    <2>5. Launching'
      BY <2>2, <2>4, LaunchingKept
    <2> QED
      BY <1>0, <2>2, <2>3, <2>4, <2>5 DEF GenTypes
  <1>6. ASSUME NEW p \in Ports, StartFill(r, p)
        PROVE  GenTypes' /\ \E s \in ControlStates : req' = [req EXCEPT ![r] = s]
    <2>1. PICK todo, ports \in (SUBSET Ports) \ {{}} :
             req[r] = [pc |-> "fill", todo |-> todo, ports |-> ports]
      BY <1>6, RequestForms DEF StartFill
    <2>2. PICK s : s = IF todo = {p} THEN [pc |-> "spawn", todo |-> ports]
                         ELSE [pc |-> "fill", todo |-> todo \ {p}, ports |-> ports]
      OBVIOUS
    <2>3. req' = [req EXCEPT ![r] = s] /\ p \in todo
      BY <1>0, <1>6, <2>1, <2>2 DEF StartFill
    <2>4. s \in ControlStates /\ s.pc # "launch"
      BY <2>1, <2>2, <2>3, RequestRecords
    <2>5. /\ DOMAIN port_stats' = DOMAIN port_stats \cup {p} /\ UNCHANGED profile
          /\ thread' = [t \in Threads |-> Detached(t, {p})]
      BY <1>6 DEF StartFill
    <2>6. thread' \in [Threads -> WorkerStates] /\ \A t \in Threads : thread'[t].pc = thread[t].pc
      BY <2>5, DetachedFacts
    <2>7. Launching'
      BY <2>3, <2>4, <2>6, LaunchingKept
    <2> QED
      BY <1>0, <2>3, <2>4, <2>5, <2>6, <2>7 DEF GenTypes
  <1>7. ASSUME NEW p \in Ports, NEW t \in Threads, StartSpawn(r, t, p)
        PROVE  GenTypes' /\ \E s \in ControlStates : req' = [req EXCEPT ![r] = s]
    <2>1. PICK todo \in (SUBSET Ports) \ {{}} : req[r] = [pc |-> "spawn", todo |-> todo]
      BY <1>7, RequestForms DEF StartSpawn
    <2>2. PICK s : s = [pc |-> "launch", todo |-> todo \ {p}, worker |-> t]
      OBVIOUS
    <2>3. req' = [req EXCEPT ![r] = s]
      BY <1>0, <1>7, <2>1, <2>2 DEF StartSpawn
    <2>4. s \in ControlStates /\ s.pc = "launch" /\ s.worker = t
      BY <2>2, RequestRecords
    <2>5. /\ thread' = [thread EXCEPT ![t] = Created(p)] /\ thread[t] = Ended
          /\ UNCHANGED <<profile, port_stats>>
      BY <1>7 DEF StartSpawn, Alive
    <2>6. Created(p) \in WorkerStates /\ Created(p).pc = "new" /\ thread[t].pc = "ended"
      BY <2>5 DEF Created, WorkerStates, Ended
    <2>7. thread' \in [Threads -> WorkerStates]
      BY <1>0, <2>5, <2>6
    <2>8. \A d \in Requests : d # r => req'[d] = req[d]
      BY <1>0, <2>3
    <2>9. \A d \in Requests : req[d].pc = "launch" => req[d].worker \in Threads /\ req[d].worker # t
      BY <2>6, RequestForms DEF GenTypes, Launching
    <2>10. req'[r] = s
      BY <1>0, <2>3
    <2>11. Launching'
      BY <1>0, <2>4, <2>5, <2>6, <2>8, <2>9, <2>10 DEF GenTypes, Launching
    <2> QED
      BY <1>0, <2>3, <2>4, <2>5, <2>7, <2>11 DEF GenTypes
  <1>8. CASE StartLaunch(r)
    <2>1. PICK todo \in SUBSET Ports, t \in Threads :
             req[r] = [pc |-> "launch", todo |-> todo, worker |-> t]
      BY <1>8, RequestForms DEF StartLaunch
    <2>2. PICK s : s = IF todo = {} THEN Idle ELSE [pc |-> "spawn", todo |-> todo]
      OBVIOUS
    <2>3. req' = [req EXCEPT ![r] = s]
      BY <1>0, <1>8, <2>1, <2>2 DEF StartLaunch
    <2>4. s \in ControlStates /\ s.pc # "launch"
      BY <2>2, RequestRecords
    <2>5. thread[t].pc = "new" /\ thread[t] \in WorkerStates
      BY <1>0, <2>1 DEF GenTypes, Launching
    <2>6. thread[t].port \in Ports
      BY <2>5 DEF WorkerStates, Ended
    <2>7. thread' = [thread EXCEPT ![t] = Booting(thread[t].port)] /\ UNCHANGED <<profile, port_stats>>
      BY <1>8, <2>1 DEF StartLaunch
    <2>8. Booting(thread[t].port) \in WorkerStates
      BY <2>6 DEF Booting, WorkerStates
    <2>a. \A u \in Threads : thread[u].pc = "new" => thread'[u].pc = "new" \/ u = t
      BY <1>0, <2>7
    <2>b. req[r].pc = "launch" /\ req[r].worker = t
      BY <2>1
    <2>9. Launching'
      BY <2>3, <2>4, <2>a, <2>b, LaunchingKept
    <2> QED
      BY <1>0, <2>3, <2>4, <2>7, <2>8, <2>9 DEF GenTypes
  <1> QED
    BY <1>2, <1>3, <1>4, <1>5, <1>6, <1>7, <1>8 DEF ControlStep

\* The states a worker can be in after a step.
LEMMA WorkerMoves ==
    ASSUME GenTypes, NEW t \in Threads, WorkerStep(t), NEW pc, NEW port, NEW ps,
           thread[t] = [pc |-> pc, port |-> port, ps |-> ps]
    PROVE  \/ thread' = [thread EXCEPT ![t] = Ended]
              /\ (stop_event \/ (pc = "boot" /\ port \notin DOMAIN port_stats))
           \/ thread' = [thread EXCEPT ![t] = [pc |-> "loop", port |-> port, ps |-> "listed"]]
           \/ /\ pc # "boot"
              /\ \E n \in {"loop", "connect", "recorded"} :
                    thread' = [thread EXCEPT ![t] = [pc |-> n, port |-> port, ps |-> ps]]
  <1>0. /\ thread[t].pc = pc /\ thread[t].port = port /\ thread[t].ps = ps
        /\ thread \in [Threads -> WorkerStates]
    BY DEF GenTypes
  <1>n. \A n : [thread[t] EXCEPT !.pc = n] = [pc |-> n, port |-> port, ps |-> ps]
    OBVIOUS
  <1>1. CASE WorkerBoot(t)
    BY <1>0, <1>1 DEF WorkerBoot
  <1>2. CASE WorkerLoop(t)
    <2>1. CASE stop_event
      <3>1. thread' = [thread EXCEPT ![t] = Ended]
        BY <1>2, <2>1 DEF WorkerLoop
      <3> QED
        BY <2>1, <3>1
    <2>2. CASE ~stop_event
      <3>1. thread' = [thread EXCEPT ![t] = [pc |-> "connect", port |-> port, ps |-> ps]]
        BY <1>2, <1>n, <2>2 DEF WorkerLoop
      <3> QED
        BY <1>0, <1>2, <3>1 DEF WorkerLoop
    <2> QED
      BY <2>1, <2>2
  <1>3. CASE RecordPort(t)
    <2>1. thread' = [thread EXCEPT ![t] = [pc |-> "recorded", port |-> port, ps |-> ps]]
      BY <1>3, <1>n DEF RecordPort
    <2> QED
      BY <1>0, <1>3, <2>1 DEF RecordPort
  <1>4. CASE RecordAll(t)
    <2>1. thread' = [thread EXCEPT ![t] = [pc |-> "loop", port |-> port, ps |-> ps]]
      BY <1>4, <1>n DEF RecordAll
    <2> QED
      BY <1>0, <1>4, <2>1 DEF RecordAll
  <1> QED
    BY <1>1, <1>2, <1>3, <1>4 DEF WorkerStep

\* A worker that serves a shown port goes on serving it, unless the event is set.
LEMMA WorkersSteps ==
    ASSUME GenTypes, NEW t \in Threads, WorkerStep(t)
    PROVE  GenTypes' /\ (GenOrder => GenOrder')
  <1>1. UNCHANGED <<profile, running, stop_event, req>>
    BY DEF WorkerStep, WorkerBoot, WorkerLoop, RecordPort, RecordAll, control
  <1>2. DOMAIN port_stats' = DOMAIN port_stats
    BY DEF WorkerStep, WorkerBoot, WorkerLoop, RecordPort, RecordAll
  <1>n. thread[t].pc # "new" /\ thread[t] # Ended
    BY DEF WorkerStep, WorkerBoot, WorkerLoop, RecordPort, RecordAll, Ended
  <1>3. PICK w \in WorkerStates : thread' = [thread EXCEPT ![t] = w]
    <2>1. thread[t] \in WorkerStates /\ Ended \in WorkerStates
      BY DEF GenTypes, WorkerStates
    <2>3. PICK pc, port, ps : /\ thread[t] = [pc |-> pc, port |-> port, ps |-> ps]
                              /\ port \in Ports /\ ps \in {"none", "listed", "detached"}
      BY <1>n, <2>1 DEF WorkerStates
    <2>4. /\ [pc |-> "loop", port |-> port, ps |-> "listed"] \in WorkerStates
          /\ \A n \in {"loop", "connect", "recorded"} :
                [pc |-> n, port |-> port, ps |-> ps] \in WorkerStates
      BY <2>3 DEF WorkerStates
    <2> QED
      BY <2>1, <2>3, <2>4, WorkerMoves
  <1>t. thread' \in [Threads -> WorkerStates] /\ \A u \in Threads : u # t => thread'[u] = thread[u]
    BY <1>3 DEF GenTypes
  <1>l. ASSUME NEW r \in Requests, req[r].pc = "launch"
        PROVE  req[r].worker \in Threads /\ thread'[req[r].worker] = thread[req[r].worker]
    <2>1. PICK todo \in SUBSET Ports, u \in Threads :
             req[r] = [pc |-> "launch", todo |-> todo, worker |-> u]
      BY <1>l, RequestForms
    <2>2. u # t
      BY <1>n, <1>l, <2>1 DEF GenTypes, Launching
    <2> QED
      BY <1>t, <2>1, <2>2
  <1>g. GenTypes'
    BY <1>1, <1>2, <1>t, <1>l DEF GenTypes, Launching
  <1>4. ASSUME ~stop_event, NEW p \in DOMAIN port_stats, NEW u \in Threads, Serves(u, p)
        PROVE  Serves(u, p)'
    <2>1. thread[u] \in WorkerStates /\ thread[u] # Ended
      BY <1>4 DEF Serves, Alive, GenTypes
    <2>2. PICK pc, ps : thread[u] = [pc |-> pc, port |-> p, ps |-> ps]
      BY <1>4, <2>1 DEF Serves, WorkerStates
    <2>3. CASE u # t
      BY <1>t, <1>4, <2>3 DEF Serves, Alive
    <2>4. CASE u = t
      <3>1. \/ thread'[t] = [pc |-> "loop", port |-> p, ps |-> "listed"]
            \/ /\ pc # "boot"
               /\ \E n \in {"loop", "connect", "recorded"} :
                     thread'[t] = [pc |-> n, port |-> p, ps |-> ps]
        BY <1>4, <2>2, <2>4, WorkerMoves DEF GenTypes
      <3>2. pc = "boot" \/ ps = "listed"
        BY <1>4, <2>2 DEF Serves
      <3> QED
        BY <2>4, <3>1, <3>2 DEF Serves, Alive, Ended
    <2> QED
      BY <2>3, <2>4
  <1>5. ASSUME ~stop_event, NEW S, S \subseteq DOMAIN port_stats, Covered(S)
        PROVE  Covered(S)'
    BY <1>4, <1>5 DEF Covered
  <1>6. Healthy => Healthy'
    BY <1>1, <1>2, <1>5 DEF Healthy, Covered
  <1>7. ASSUME NEW r \in Requests, SoFar(req[r]) PROVE SoFar(req[r])'
    <2>1. ~stop_event /\ Covered(DOMAIN port_stats \ req[r].todo)
          => Covered(DOMAIN port_stats \ req[r].todo)'
      BY <1>1, <1>2, <1>5 DEF Covered
    <2>2. ASSUME req[r].pc = "launch", ~stop_event,
                 Covered(DOMAIN port_stats \ (req[r].todo \cup {thread[req[r].worker].port}))
          PROVE  Covered(DOMAIN port_stats \ (req[r].todo \cup {thread[req[r].worker].port}))'
      <3>1. PICK S : S = DOMAIN port_stats \ (req[r].todo \cup {thread[req[r].worker].port})
        OBVIOUS
      <3>2. S = (DOMAIN port_stats \ (req[r].todo \cup {thread[req[r].worker].port}))'
        BY <1>1, <1>2, <1>l, <2>2, <3>1
      <3>3. Covered(S)'
        BY <1>5, <2>2, <3>1
      <3> QED
        BY <3>2, <3>3 DEF Covered
    <2> QED
      BY <1>1, <1>2, <1>6, <1>7, <2>1, <2>2 DEF SoFar
  <1>8. GenOrder => GenOrder'
    BY <1>1, <1>6, <1>7 DEF GenOrder, OneRequest, Settled
  <1> QED
    BY <1>g, <1>8

\* Of requests that come one after the other, the one under way is the only one.
LEMMA OneAtATime ==
    ASSUME GenTypes, GenOrder, NEW r \in Requests, req[r] # Idle \/ Settled,
           NEW s \in ControlStates, req' = [req EXCEPT ![r] = s],
           SoFar(s)', s = Idle /\ running' => Healthy'
    PROVE  GenOrder'
  <1>1. req' = [d \in Requests |-> IF d = r THEN s ELSE Idle]
    BY DEF GenOrder, GenTypes, OneRequest, Settled
  <1>2. Idle.pc = "idle"
    BY DEF Idle
  <1>3. OneRequest' /\ (Settled' => s = Idle)
    BY <1>1 DEF OneRequest, Settled
  <1>4. \A d \in Requests : SoFar(req[d])'
    <2>1. SoFar(Idle)'
      BY <1>2 DEF SoFar
    <2>2. \A d \in Requests : req'[d] = s \/ req'[d] = Idle
      BY <1>1
    <2> QED
      BY <2>1, <2>2 DEF SoFar
  <1> QED
    BY <1>3, <1>4 DEF GenOrder

\* A new request, when there is none: start() finds the generator as it is.
LEMMA NewRequests ==
    ASSUME GenTypes, GenOrder, Settled, NEW r \in Requests,
           stop(r) \/ \E p \in Profiles : api_start(r, p)
    PROVE  GenOrder'
  <1>1. PICK s \in {[pc |-> "start"], [pc |-> "halt"]} : req' = [req EXCEPT ![r] = s]
    BY DEF stop, api_start
  <1>2. UNCHANGED <<running, stop_event, port_stats, thread>>
    BY DEF stop, api_start
  <1>3. s \in ControlStates /\ s # Idle /\ s.pc \in {"start", "halt"}
    BY <1>1, RequestRecords
  <1>4. running => Healthy
    BY DEF GenOrder
  <1>5. Healthy => Healthy'
    BY <1>2 DEF Healthy, Covered, Serves, Alive
  <1>6. SoFar(s)'
    BY <1>2, <1>3, <1>4, <1>5 DEF SoFar
  <1> QED
    BY <1>1, <1>3, <1>6, OneAtATime

LEMMA StartingSteps ==
    ASSUME GenTypes, GenOrder, NEW r \in Requests,
           \/ start(r) \/ StartEvent(r) \/ StartFlag(r) \/ StartReset(r) \/ StartClear(r)
           \/ StartPorts(r)
    PROVE  GenOrder'
  <1>0. SoFar(req[r])
    BY DEF GenOrder
  <1>1. req[r] # Idle
    BY RequestForms DEF start, StartEvent, StartFlag, StartReset, StartClear, StartPorts
  <1>2. CASE start(r) /\ running
    <2>1. Healthy /\ req' = [req EXCEPT ![r] = Idle]
          /\ UNCHANGED <<running, stop_event, port_stats, thread>>
      BY <1>0, <1>2 DEF start, SoFar
    <2>2. Healthy'
      BY <2>1 DEF Healthy, Covered, Serves, Alive
    <2>3. SoFar(Idle)'
      BY RequestRecords DEF SoFar
    <2> QED
      BY <1>1, <2>1, <2>2, <2>3, RequestRecords, OneAtATime
  <1>3. CASE start(r) /\ ~running
    <2>1. PICK s : s = [pc |-> "event"]
      OBVIOUS
    <2>2. s \in ControlStates /\ s.pc = "event" /\ s # Idle /\ req' = [req EXCEPT ![r] = s]
      BY <1>3, <2>1, RequestRecords DEF start
    <2>3. SoFar(s)'
      BY <2>2 DEF SoFar
    <2> QED
      BY <1>1, <2>2, <2>3, OneAtATime
  <1>4. CASE StartEvent(r) \/ StartFlag(r) \/ StartReset(r)
    <2>1. PICK k \in {"flag", "reset", "clear"} :
             req' = [req EXCEPT ![r] = [pc |-> k]] /\ ~stop_event'
      BY <1>0, <1>4 DEF StartEvent, StartFlag, StartReset, SoFar
    <2>2. PICK s : s = [pc |-> k]
      OBVIOUS
    <2>3. s \in ControlStates /\ s.pc = k /\ s # Idle /\ req' = [req EXCEPT ![r] = s]
      BY <2>1, <2>2, RequestRecords
    <2>4. SoFar(s)'
      BY <2>1, <2>3 DEF SoFar
    <2> QED
      BY <1>1, <2>3, <2>4, OneAtATime
  <1>5. CASE StartClear(r)
    <2>1. PICK s : s = [pc |-> "ports"]
      OBVIOUS
    <2>2. s \in ControlStates /\ s.pc = "ports" /\ s # Idle /\ req' = [req EXCEPT ![r] = s]
      BY <1>5, <2>1, RequestRecords DEF StartClear
    <2>3. ~stop_event' /\ DOMAIN port_stats' = {}
      BY <1>0, <1>5 DEF StartClear, SoFar
    <2>4. SoFar(s)'
      BY <2>2, <2>3 DEF SoFar
    <2> QED
      BY <1>1, <2>2, <2>4, OneAtATime
  <1>6. CASE StartPorts(r)
    <2>1. PICK ports : ports = PROFILE_PORTS[profile] /\ ports \in (SUBSET Ports) \ {{}}
      BY ProfileAssumption DEF GenTypes
    <2>2. PICK s : s = [pc |-> "fill", todo |-> ports, ports |-> ports]
      OBVIOUS
    <2>3. /\ s \in ControlStates /\ s.pc = "fill" /\ s # Idle /\ req' = [req EXCEPT ![r] = s]
          /\ s.todo = ports /\ s.ports = ports
      BY <1>6, <2>1, <2>2, RequestRecords DEF StartPorts
    <2>4. ~stop_event' /\ DOMAIN port_stats' = {}
      BY <1>0, <1>6 DEF StartPorts, SoFar
    <2>5. SoFar(s)'
      BY <2>3, <2>4 DEF SoFar
    <2> QED
      BY <1>1, <2>3, <2>5, OneAtATime
  <1> QED
    BY <1>2, <1>3, <1>4, <1>5, <1>6

\* The counters of the profile's ports are shown, one after the other, and nobody's else.
LEMMA FillSteps ==
    ASSUME GenTypes, GenOrder, NEW r \in Requests, NEW p \in Ports, StartFill(r, p)
    PROVE  GenOrder'
  <1>0. SoFar(req[r]) /\ req[r] # Idle
    BY RequestForms DEF GenOrder, StartFill
  <1>1. PICK todo, ports \in (SUBSET Ports) \ {{}} :
           req[r] = [pc |-> "fill", todo |-> todo, ports |-> ports]
    BY RequestForms DEF StartFill
  <1>2. PICK s : s = IF todo = {p} THEN [pc |-> "spawn", todo |-> ports]
                       ELSE [pc |-> "fill", todo |-> todo \ {p}, ports |-> ports]
    OBVIOUS
  <1>3. req' = [req EXCEPT ![r] = s] /\ p \in todo
    BY <1>1, <1>2 DEF StartFill, GenTypes
  <1>4. /\ ~stop_event' /\ todo \subseteq ports /\ DOMAIN port_stats = ports \ todo
        /\ DOMAIN port_stats' = DOMAIN port_stats \cup {p}
    BY <1>0, <1>1 DEF SoFar, StartFill
  <1>5. CASE todo = {p}
    <2>1. s \in ControlStates /\ s.pc = "spawn" /\ s.todo = ports /\ s # Idle
      BY <1>2, <1>5, RequestRecords
    <2>2. DOMAIN port_stats' = ports
      BY <1>4, <1>5
    <2>3. SoFar(s)'
      BY <1>4, <2>1, <2>2 DEF SoFar, Covered
    <2> QED
      BY <1>0, <1>3, <2>1, <2>3, OneAtATime
  <1>6. CASE todo # {p}
    <2>0. todo \ {p} \in (SUBSET Ports) \ {{}}
      BY <1>3, <1>6
    <2>1. /\ s \in ControlStates /\ s.pc = "fill" /\ s.todo = todo \ {p} /\ s.ports = ports
          /\ s # Idle
      BY <1>2, <1>6, <2>0, RequestRecords
    <2>2. DOMAIN port_stats' = ports \ (todo \ {p}) /\ todo \ {p} \subseteq ports
      BY <1>3, <1>4
    <2>3. SoFar(s)'
      BY <1>4, <2>1, <2>2 DEF SoFar
    <2> QED
      BY <1>0, <1>3, <2>1, <2>3, OneAtATime
  <1> QED
    BY <1>5, <1>6

\* A worker is created for a port that has none.
LEMMA SpawnSteps ==
    ASSUME GenTypes, GenOrder, NEW r \in Requests, NEW t \in Threads, NEW p \in Ports,
           StartSpawn(r, t, p)
    PROVE  GenOrder'
  <1>0. SoFar(req[r]) /\ req[r] # Idle
    BY RequestForms DEF GenOrder, StartSpawn
  <1>1. PICK todo \in (SUBSET Ports) \ {{}} : req[r] = [pc |-> "spawn", todo |-> todo]
    BY RequestForms DEF StartSpawn
  <1>2. PICK s : s = [pc |-> "launch", todo |-> todo \ {p}, worker |-> t]
    OBVIOUS
  <1>3. req' = [req EXCEPT ![r] = s]
    BY <1>1, <1>2 DEF StartSpawn, GenTypes
  <1>4. /\ s \in ControlStates /\ s.pc = "launch" /\ s.todo = todo \ {p} /\ s.worker = t
        /\ s # Idle
    BY <1>2, RequestRecords
  <1>5. /\ thread' = [thread EXCEPT ![t] = Created(p)] /\ thread[t] = Ended
        /\ UNCHANGED <<stop_event, port_stats>>
    BY DEF StartSpawn, Alive
  <1>6. thread'[t].port = p
    BY <1>5 DEF Created, GenTypes
  <1>7. ~stop_event' /\ Covered(DOMAIN port_stats \ todo)
    BY <1>0, <1>1, <1>5 DEF SoFar
  <1>8. ASSUME NEW q \in Ports, NEW u \in Threads, Serves(u, q) PROVE Serves(u, q)'
    <2>1. u # t
      BY <1>5, <1>8 DEF Serves, Alive
    <2> QED
      BY <1>5, <1>8, <2>1 DEF Serves, Alive, GenTypes
  <1>9. (Covered(DOMAIN port_stats \ (s.todo \cup {thread[s.worker].port})))'
    <2>1. \A q \in DOMAIN port_stats' \ (s.todo \cup {thread'[t].port}) :
             q \in Ports /\ q \in DOMAIN port_stats \ todo
      BY <1>4, <1>5, <1>6 DEF GenTypes
    <2> QED
      BY <1>4, <1>7, <1>8, <2>1 DEF Covered
  <1>10. SoFar(s)'
    BY <1>4, <1>7, <1>9 DEF SoFar
  <1> QED
    BY <1>0, <1>3, <1>4, <1>10, OneAtATime

\* Once it is started it serves its port, and those there are go on.
LEMMA LaunchSteps ==
    ASSUME GenTypes, GenOrder, NEW r \in Requests, StartLaunch(r)
    PROVE  GenOrder'
  <1>0. SoFar(req[r]) /\ req[r] # Idle
    BY RequestForms DEF GenOrder, StartLaunch
  <1>1. PICK todo \in SUBSET Ports, t \in Threads :
           req[r] = [pc |-> "launch", todo |-> todo, worker |-> t]
    BY RequestForms DEF StartLaunch
  <1>2. PICK s : s = IF todo = {} THEN Idle ELSE [pc |-> "spawn", todo |-> todo]
    OBVIOUS
  <1>3. req' = [req EXCEPT ![r] = s]
    BY <1>1, <1>2 DEF StartLaunch, GenTypes
  <1>4. thread[t].pc = "new" /\ thread[t] \in WorkerStates
    BY <1>1 DEF GenTypes, Launching
  <1>5. PICK p \in Ports : thread[t].port = p
    BY <1>4 DEF WorkerStates, Ended
  <1>6. /\ thread' = [thread EXCEPT ![t] = Booting(p)]
        /\ UNCHANGED <<running, stop_event, port_stats>>
    <2>1. thread' = [thread EXCEPT ![t] = Booting(thread[t].port)]
      BY <1>1 DEF StartLaunch
    <2> QED
      BY <1>5, <2>1 DEF StartLaunch
  <1>7. ~stop_event' /\ Covered(DOMAIN port_stats \ (todo \cup {p}))
    BY <1>0, <1>1, <1>5, <1>6 DEF SoFar
  <1>8. ASSUME NEW q \in Ports, NEW u \in Threads, Serves(u, q), q # p PROVE Serves(u, q)'
    <2>1. u # t
      BY <1>5, <1>8 DEF Serves
    <2> QED
      BY <1>6, <1>8, <2>1 DEF Serves, Alive, GenTypes
  <1>9. Serves(t, p)'
    BY <1>6 DEF Serves, Alive, GenTypes, Booting, Ended
  <1>10. Covered(DOMAIN port_stats \ todo)'
    BY <1>6, <1>7, <1>8, <1>9 DEF Covered, GenTypes
  <1>11. CASE todo = {}
    <2>1. s = Idle /\ Healthy'
      BY <1>2, <1>7, <1>10, <1>11 DEF Healthy, Covered
    <2>2. SoFar(s)'
      BY <2>1, RequestRecords DEF SoFar
    <2> QED
      BY <1>0, <1>3, <2>1, <2>2, RequestRecords, OneAtATime
  <1>12. CASE todo # {}
    <2>1. s \in ControlStates /\ s.pc = "spawn" /\ s.todo = todo /\ s # Idle
      BY <1>2, <1>12, RequestRecords
    <2>2. SoFar(s)'
      BY <1>7, <1>10, <2>1 DEF SoFar, Covered
    <2> QED
      BY <1>0, <1>3, <2>1, <2>2, OneAtATime
  <1> QED
    BY <1>11, <1>12

\* Nothing is promised of a generator that is being stopped.
LEMMA StoppingSteps ==
    ASSUME GenTypes, GenOrder, NEW r \in Requests,
           StopEvent(r) \/ StopFlag(r) \/ StopJoin(r) \/ StopClear(r)
    PROVE  GenOrder'
  <1>0. SoFar(req[r]) /\ req[r] # Idle
    BY RequestForms DEF GenOrder, StopEvent, StopFlag, StopJoin, StopClear
  <1>1. PICK s \in ControlStates : req' = [req EXCEPT ![r] = s]
    BY RequestMoves DEF ControlStep
  <1>2. req'[r] = s
    BY <1>1 DEF GenTypes
  <1>3. s.pc = "unflag" \/ (s.pc \in {"join", "idle"} /\ ~running')
    <2>1. CASE StopEvent(r)
      BY <1>2, <2>1 DEF StopEvent, GenTypes
    <2>2. CASE StopFlag(r)
      BY <1>2, <2>2 DEF StopFlag, GenTypes
    <2>3. CASE StopClear(r)
      BY <1>0, <1>2, <2>3, RequestRecords DEF StopClear, GenTypes, SoFar
    <2>4. CASE StopJoin(r)
      <3>1. ~running'
        BY <1>0, <2>4 DEF StopJoin, SoFar
      <3>2. s = Idle \/ s = [pc |-> "join", at |-> req[r].at + 1]
        BY <1>2, <2>4 DEF StopJoin, GenTypes
      <3> QED
        BY <3>1, <3>2, RequestRecords
    <2> QED
      BY <2>1, <2>2, <2>3, <2>4
  <1>4. SoFar(s)' /\ (s = Idle => ~running')
    BY <1>3, RequestRecords DEF SoFar
  <1> QED
    BY <1>0, <1>1, <1>4, OneAtATime

LEMMA NextGenInv == GenInv /\ [Next]_vars => GenInv'
  <1> SUFFICES ASSUME GenInv, [Next]_vars PROVE GenInv'
    OBVIOUS
  <1>0. GenTypes
    BY DEF GenInv
  <1>1. ASSUME UNCHANGED gen_vars, Orderly("generator")' => Orderly("generator") PROVE GenInv'
    <2>1. UNCHANGED <<profile, running, stop_event, port_stats, req, thread>>
      BY <1>1 DEF gen_vars
    <2>2. GenTypes'
      BY <1>0, <2>1 DEF GenTypes, Launching
    <2>3. \A S : Covered(S) => Covered(S)'
      BY <2>1 DEF Covered, Serves, Alive
    <2>4. Healthy => Healthy'
      BY <2>1, <2>3 DEF Healthy, Covered
    <2>5. \A r \in Requests : SoFar(req[r]) => SoFar(req[r])'
      BY <2>1, <2>3, <2>4 DEF SoFar, Covered
    <2>6. GenOrder => GenOrder'
      BY <2>1, <2>4, <2>5 DEF GenOrder, OneRequest, Settled
    <2> QED
      BY <1>1, <2>2, <2>6 DEF GenInv
  <1>2. ASSUME NEW t \in Threads, WorkerStep(t) \/ Establish(t), UNCHANGED overlapped
        PROVE  GenInv'
    <2>1. WorkerStep(t)
      BY <1>2 DEF WorkerStep, Establish
    <2> QED
      BY <1>0, <1>2, <2>1, WorkersSteps DEF GenInv, Orderly
  <1>3. ASSUME NEW r \in Requests, GenArrival(r) PROVE GenInv'
    <2>1. Orderly("generator")' => Orderly("generator") /\ Settled
      BY <1>3 DEF GenArrival, Arrives, Orderly
    <2>2. GenTypes'
      BY <1>0, <1>3, RequestMoves DEF GenArrival
    <2>3. GenOrder /\ Settled => GenOrder'
      BY <1>0, <1>3, NewRequests DEF GenArrival
    <2> QED
      BY <2>1, <2>2, <2>3 DEF GenInv
  <1>4. ASSUME NEW r \in Requests, ControlStep(r), UNCHANGED overlapped PROVE GenInv'
    <2>1. GenTypes'
      BY <1>0, <1>4, RequestMoves
    <2>2. GenOrder => GenOrder'
      BY <1>0, <1>4, StartingSteps, FillSteps, SpawnSteps, LaunchSteps, StoppingSteps
         DEF ControlStep
    <2> QED
      BY <1>4, <2>1, <2>2 DEF GenInv, Orderly
  <1>5. ASSUME UNCHANGED gen_vars, UNCHANGED overlapped PROVE GenInv'
    BY <1>1, <1>5 DEF Orderly
  <1>6. ASSUME NEW c \in Calls, RcvArrival(c) PROVE GenInv'
    <2>1. Orderly("generator")' => Orderly("generator")
      BY <1>6 DEF RcvArrival, Arrives, Orderly
    <2> QED
      BY <1>1, <1>6, <2>1 DEF RcvArrival
  <1>7. ASSUME NEW t \in Threads, Establish(t) PROVE GenInv'
    BY <1>2, <1>7 DEF Establish
  <1>8. CASE Next
    BY <1>2, <1>3, <1>4, <1>5, <1>6, <1>7, <1>8 DEF Next, GenOnly, RcvOnly
  <1>9. CASE UNCHANGED vars
    BY <1>5, <1>9 DEF vars, gen_vars
  <1> QED
    BY <1>8, <1>9

LEMMA AlwaysGenInv == Spec => []GenInv
  BY InitGenInv, NextGenInv, PTL DEF Spec

\* TrafficGenerator reports running only if every port it shows has a live worker
\* that records into what is shown, after any history of starts, stops that gave up on
\* a worker, and changes of the profile, with any number of workers left over, as long
\* as no two of its requests have overlapped.
THEOREM ShownPortsHaveWorkers == Spec => []PortsCovered
  <1>1. GenInv => PortsCovered
    BY DEF GenInv, GenOrder, Healthy, Covered, PortsCovered
  <1> QED
    BY <1>1, AlwaysGenInv, PTL

-----------------------------------------------------------------------------
(* Sums, as the fold of the community modules computes them *)

NoRound(x, ids, i) == {x}
NoGoal(c, x, ids, n) == TRUE

\* Only its induction over numbers is used here.
Numbers == INSTANCE LoopProofs WITH N <- 0, Step <- NoRound, Good <- NoGoal

Total(f, S) == MapThenSumSet(LAMBDA p : f[p], S)

\* The element that the fold takes next, and the partial sums it computes.
Pick(s) == CHOOSE x \in s : TRUE
IsSum(g, f, D) == g = [s \in D |-> IF s = {} THEN 0 ELSE f[Pick(s)] + g[s \ {Pick(s)}]]

\* Partial sums exist: for the sets of at most n elements, one n after the other.
LEMMA SumsExist ==
    ASSUME NEW f, NEW S, IsFiniteSet(S)
    PROVE  \E g : IsSum(g, f, SUBSET S) /\ Total(f, S) = g[S]
  <1> DEFINE Level(n) == {s \in SUBSET S : Cardinality(s) <= n}
             P == {n \in Nat : \E g : IsSum(g, f, Level(n))}
  <1>0. \A s \in SUBSET S : IsFiniteSet(s) /\ Cardinality(s) \in Nat
                            /\ Cardinality(s) <= Cardinality(S)
    BY FS_Subset, FS_CardinalityType
  <1>s. \A s \in SUBSET S : s # {} => /\ s \ {Pick(s)} \in SUBSET S
                                      /\ Cardinality(s \ {Pick(s)}) = Cardinality(s) - 1
    <2> SUFFICES ASSUME NEW s \in SUBSET S, s # {}
                 PROVE  Cardinality(s \ {Pick(s)}) = Cardinality(s) - 1
      OBVIOUS
    <2>1. Pick(s) \in s
      BY DEF Pick
    <2> QED
      BY <1>0, <2>1, FS_RemoveElement
  <1>1. 0 \in P
    <2>1. \A s \in Level(0) : s = {}
      BY <1>0, FS_EmptySet
    <2> DEFINE g == [s \in Level(0) |-> 0]
    <2> HIDE DEF Level
    <2>2. IsSum(g, f, Level(0))
      BY <2>1 DEF IsSum
    <2> QED
      BY <2>2
  <1>2. ASSUME NEW n \in 1..Cardinality(S), n - 1 \in P PROVE n \in P
    <2>1. PICK g : IsSum(g, f, Level(n - 1))
      BY <1>2
    <2>2. \A s \in Level(n) : s # {} => s \ {Pick(s)} \in Level(n - 1)
      BY <1>0, <1>s
    <2>3. Level(n - 1) \subseteq Level(n)
      BY <1>0
    <2> DEFINE h == [s \in Level(n) |-> IF s = {} THEN 0 ELSE f[Pick(s)] + g[s \ {Pick(s)}]]
    <2> HIDE DEF Level
    <2>4. \A s \in Level(n - 1) : h[s] = g[s]
      BY <2>1, <2>3 DEF IsSum
    <2>5. IsSum(h, f, Level(n))
      BY <2>2, <2>4 DEF IsSum
    <2>6. n \in Nat
      OBVIOUS
    <2> QED
      BY <2>5, <2>6
  <1>3. Cardinality(S) \in P
    <2> HIDE DEF P
    <2>1. 0..Cardinality(S) \subseteq P
      BY <1>0, <1>1, <1>2, Numbers!UpTo
    <2> QED
      BY <1>0, <2>1
  <1>4. Level(Cardinality(S)) = SUBSET S
    BY <1>0
  <1>5. PICK g : g = CHOOSE a : IsSum(a, f, SUBSET S)
    OBVIOUS
  <1>6. IsSum(g, f, SUBSET S)
    <2> HIDE DEF Level
    <2> QED
      BY <1>3, <1>4, <1>5
  <1>7. Total(f, S) = g[S]
    BY <1>5 DEF IsSum, Pick, Total, MapThenSumSet, MapThenFoldSet
  <1> QED
    BY <1>6, <1>7

\* Induction over the subsets of a finite set, and over those that the fold goes through.
LEMMA SubsetInduction ==
    ASSUME NEW S, IsFiniteSet(S), NEW P,
           \A s \in SUBSET S : (\A r \in SUBSET S : r \subseteq s /\ r # s => r \in P) => s \in P
    PROVE  S \in P
  <1> DEFINE B == {s \in SUBSET S : s \notin P}
  <1> SUFFICES ASSUME B # {} PROVE FALSE
    OBVIOUS
  <1>1. IsWellFoundedOn(StrictSubsetOrdering(S), FiniteSubsetsOf(S))
    BY FS_StrictSubsetOrderingWellFounded
  <1>2. B \subseteq FiniteSubsetsOf(S)
    BY FS_Subset DEF FiniteSubsetsOf
  <1>3. PICK s \in B : \A r \in B : <<r, s>> \notin StrictSubsetOrdering(S)
    <2> HIDE DEF B
    <2> QED
      BY <1>1, <1>2, WFMin
  <1>4. ASSUME NEW r \in SUBSET S, r \subseteq s, r # s PROVE r \in P
    <2>1. <<r, s>> \in StrictSubsetOrdering(S)
      BY <1>3, <1>4 DEF StrictSubsetOrdering
    <2> QED
      BY <1>3, <2>1
  <1> QED
    BY <1>3, <1>4

LEMMA FoldInduction ==
    ASSUME NEW S, IsFiniteSet(S), NEW P, {} \in P,
           \A s \in SUBSET S : s # {} /\ s \ {Pick(s)} \in P => s \in P
    PROVE  S \in P
  <1>1. ASSUME NEW s \in SUBSET S, \A r \in SUBSET S : r \subseteq s /\ r # s => r \in P
        PROVE  s \in P
    <2>1. s # {} => Pick(s) \in s
      BY DEF Pick
    <2>2. s # {} => s \ {Pick(s)} \in SUBSET S /\ s \ {Pick(s)} \subseteq s
                    /\ s \ {Pick(s)} # s
      BY <2>1
    <2> QED
      BY <1>1, <2>2
  <1> QED
    BY <1>1, SubsetInduction

\* A sum of naturals up to c is a natural, up to c for each of the set's elements.
LEMMA TotalBound ==
    ASSUME NEW S, IsFiniteSet(S), NEW c \in Nat, NEW f \in [S -> 0..c]
    PROVE  Total(f, S) \in Nat /\ Total(f, S) <= c * Cardinality(S)
  <1>1. PICK g : IsSum(g, f, SUBSET S) /\ Total(f, S) = g[S]
    BY SumsExist
  <1> DEFINE P == {s \in SUBSET S : g[s] \in Nat /\ g[s] <= c * Cardinality(s)}
  <1>2. {} \in P
    BY <1>1, FS_EmptySet DEF IsSum
  <1>3. ASSUME NEW s \in SUBSET S, s # {}, s \ {Pick(s)} \in P PROVE s \in P
    <2>1. Pick(s) \in s /\ Pick(s) \in S
      BY <1>3 DEF Pick
    <2>2. g[s] = f[Pick(s)] + g[s \ {Pick(s)}]
      BY <1>1, <1>3 DEF IsSum
    <2>3. /\ Cardinality(s) \in Nat
          /\ Cardinality(s \ {Pick(s)}) = Cardinality(s) - 1
      BY <2>1, FS_Subset, FS_CardinalityType, FS_RemoveElement
    <2>4. PICK k \in Nat : k = Cardinality(s)
      BY <2>3
    <2>5. c * (k - 1) + c = c * k
      BY <2>4
    <2>6. g[s \ {Pick(s)}] \in Nat /\ g[s \ {Pick(s)}] <= c * (k - 1)
      BY <1>3, <2>3, <2>4
    <2>7. f[Pick(s)] \in 0..c
      BY <2>1
    <2>8. c * k \in Nat /\ c * (k - 1) \in Int
      BY <2>4
    <2>9. PICK a \in Nat, b \in Nat : a = f[Pick(s)] /\ a <= c
                                    /\ b = g[s \ {Pick(s)}] /\ b <= c * (k - 1)
      BY <2>6, <2>7
    <2>10. a + b \in Nat /\ a + b <= c * k
      BY <2>5, <2>8, <2>9
    <2> QED
      BY <2>2, <2>4, <2>9, <2>10
  <1> HIDE DEF P
  <1>4. S \in P
    BY <1>2, <1>3, FoldInduction
  <1> QED
    BY <1>1, <1>4 DEF P

\* One more in one place is one more in the sum.
LEMMA TotalGrows ==
    ASSUME NEW S, IsFiniteSet(S), NEW f \in [S -> Nat], NEW q \in S
    PROVE  Total([f EXCEPT ![q] = @ + 1], S) = Total(f, S) + 1
  <1> DEFINE h == [f EXCEPT ![q] = @ + 1]
  <1>0. h \in [S -> Nat]
    OBVIOUS
  <1>1. PICK a : IsSum(a, f, SUBSET S) /\ Total(f, S) = a[S]
    BY SumsExist
  <1>2. PICK b : IsSum(b, h, SUBSET S) /\ Total(h, S) = b[S]
    BY SumsExist
  <1> DEFINE P == {s \in SUBSET S : a[s] \in Nat /\ b[s] = IF q \in s THEN a[s] + 1 ELSE a[s]}
  <1>3. {} \in P
    BY <1>1, <1>2 DEF IsSum
  <1>4. ASSUME NEW s \in SUBSET S, s # {}, s \ {Pick(s)} \in P PROVE s \in P
    <2>1. PICK x : x = Pick(s) /\ x \in s /\ x \in S
      BY <1>4 DEF Pick
    <2>2. a[s] = f[x] + a[s \ {x}] /\ b[s] = h[x] + b[s \ {x}]
      BY <1>1, <1>2, <1>4, <2>1 DEF IsSum
    <2>3. a[s \ {x}] \in Nat /\ b[s \ {x}] = IF q \in s \ {x} THEN a[s \ {x}] + 1 ELSE a[s \ {x}]
      BY <1>4, <2>1
    <2>4. f[x] \in Nat /\ h[x] = IF x = q THEN f[x] + 1 ELSE f[x]
      BY <2>1
    <2>5. CASE x = q
      BY <2>1, <2>2, <2>3, <2>4, <2>5
    <2>6. CASE x # q
      BY <2>1, <2>2, <2>3, <2>4, <2>6
    <2> QED
      BY <2>5, <2>6
  <1> HIDE DEF P
  <1>5. S \in P
    BY <1>3, <1>4, FoldInduction
  <1> QED
    BY <1>1, <1>2, <1>5 DEF P

\* The sum, one element at a time.
LEMMA TotalStep ==
    ASSUME NEW f, NEW S, IsFiniteSet(S)
    PROVE  /\ S = {} => Total(f, S) = 0
           /\ S # {} => Total(f, S) = f[Pick(S)] + Total(f, S \ {Pick(S)})
  <1>1. PICK g : IsSum(g, f, SUBSET S) /\ Total(f, S) = g[S]
    BY SumsExist
  <1>2. S = {} => Total(f, S) = 0
    BY <1>1 DEF IsSum
  <1>3. ASSUME S # {} PROVE Total(f, S) = f[Pick(S)] + Total(f, S \ {Pick(S)})
    <2>1. PICK R : R = S \ {Pick(S)} /\ IsFiniteSet(R) /\ R \in SUBSET S
      BY FS_Subset
    <2>2. PICK h : IsSum(h, f, SUBSET R) /\ Total(f, R) = h[R]
      BY <2>1, SumsExist
    <2> DEFINE P == {s \in SUBSET R : g[s] = h[s]}
    <2>3. {} \in P
      BY <1>1, <2>2 DEF IsSum
    <2>4. ASSUME NEW s \in SUBSET R, s # {}, s \ {Pick(s)} \in P PROVE s \in P
      <3>1. g[s] = f[Pick(s)] + g[s \ {Pick(s)}]
        BY <1>1, <2>1, <2>4 DEF IsSum
      <3>2. h[s] = f[Pick(s)] + h[s \ {Pick(s)}]
        BY <2>2, <2>4 DEF IsSum
      <3> QED
        BY <2>4, <3>1, <3>2
    <2>5. R \in P
      <3> HIDE DEF P
      <3> QED
        BY <2>1, <2>3, <2>4, FoldInduction
    <2>6. g[S] = f[Pick(S)] + g[R]
      BY <1>1, <1>3, <2>1 DEF IsSum
    <2> QED
      BY <1>1, <2>1, <2>2, <2>5, <2>6
  <1> QED
    BY <1>2, <1>3

LEMMA TotalSame ==
    ASSUME NEW f, NEW g, NEW S, IsFiniteSet(S), \A x \in S : f[x] = g[x]
    PROVE  Total(f, S) = Total(g, S)
  <1> DEFINE P == {s \in SUBSET S : Total(f, s) = Total(g, s)}
  <1>0. \A s \in SUBSET S : IsFiniteSet(s) /\ (s # {} => Pick(s) \in s)
    BY FS_Subset DEF Pick
  <1>1. {} \in P
    BY <1>0, TotalStep
  <1>2. ASSUME NEW s \in SUBSET S, s # {}, s \ {Pick(s)} \in P PROVE s \in P
    <2>1. /\ Total(f, s) = f[Pick(s)] + Total(f, s \ {Pick(s)})
          /\ Total(g, s) = g[Pick(s)] + Total(g, s \ {Pick(s)})
      BY <1>0, <1>2, TotalStep
    <2>2. f[Pick(s)] = g[Pick(s)]
      BY <1>0, <1>2
    <2> QED
      BY <1>2, <2>1, <2>2
  <1>3. S \in P
    <2> HIDE DEF P
    <2> QED
      BY <1>1, <1>2, FoldInduction
  <1> QED
    BY <1>3

LEMMA TotalNat ==
    ASSUME NEW S, IsFiniteSet(S), NEW f \in [S -> Nat], NEW R \in SUBSET S
    PROVE  Total(f, R) \in Nat
  <1> DEFINE P == {s \in SUBSET R : Total(f, s) \in Nat}
  <1>0. IsFiniteSet(R) /\ \A s \in SUBSET R : IsFiniteSet(s) /\ (s # {} => Pick(s) \in s)
    BY FS_Subset DEF Pick
  <1>1. {} \in P
    <2>1. IsFiniteSet({})
      BY FS_EmptySet
    <2>2. PICK none : none = {} /\ IsFiniteSet(none)
      BY <2>1
    <2>3. Total(f, none) = 0
      BY <2>2, TotalStep
    <2> QED
      BY <2>2, <2>3
  <1>2. ASSUME NEW s \in SUBSET R, s # {}, s \ {Pick(s)} \in P PROVE s \in P
    <2>1. Total(f, s) = f[Pick(s)] + Total(f, s \ {Pick(s)})
      BY <1>0, <1>2, TotalStep
    <2>2. f[Pick(s)] \in Nat /\ Total(f, s \ {Pick(s)}) \in Nat
      BY <1>0, <1>2
    <2> QED
      BY <1>2, <2>1, <2>2
  <1>3. R \in P
    <2> HIDE DEF P
    <2> QED
      BY <1>0, <1>1, <1>2, FoldInduction
  <1> QED
    BY <1>3

\* Any element can be the one taken out.
LEMMA TotalWithout ==
    ASSUME NEW S, IsFiniteSet(S), NEW f \in [S -> Nat], NEW q \in S
    PROVE  Total(f, S) = f[q] + Total(f, S \ {q})
  <1> DEFINE P == {s \in SUBSET S : \A x \in s : Total(f, s) = f[x] + Total(f, s \ {x})}
  <1>0. \A s \in SUBSET S : /\ IsFiniteSet(s) /\ Total(f, s) \in Nat
                            /\ s # {} => Pick(s) \in s
    BY FS_Subset, TotalNat DEF Pick
  <1>1. ASSUME NEW s \in SUBSET S, \A r \in SUBSET S : r \subseteq s /\ r # s => r \in P
        PROVE  s \in P
    <2> SUFFICES ASSUME NEW x \in s PROVE Total(f, s) = f[x] + Total(f, s \ {x})
      OBVIOUS
    <2>1. PICK y : y = Pick(s) /\ y \in s
      BY <1>0
    <2>2. Total(f, s) = f[y] + Total(f, s \ {y})
      BY <1>0, <2>1, TotalStep
    <2>3. CASE x = y
      BY <2>2, <2>3
    <2>4. CASE x # y
      <3>1. PICK u \in SUBSET S, v \in SUBSET S, w \in SUBSET S :
               u = s \ {x} /\ v = s \ {y} /\ w = s \ {x, y}
        OBVIOUS
      <3>2. u \in P /\ v \in P /\ y \in u /\ x \in v /\ u \ {y} = w /\ v \ {x} = w
        BY <1>1, <2>1, <2>4, <3>1
      <3>3. Total(f, u) = f[y] + Total(f, w)
        BY <3>2
      <3>4. Total(f, v) = f[x] + Total(f, w)
        BY <3>2
      <3>5. f[x] \in Nat /\ f[y] \in Nat /\ Total(f, w) \in Nat
        BY <1>0, <2>1
      <3> QED
        BY <2>2, <3>1, <3>3, <3>4, <3>5
    <2> QED
      BY <2>3, <2>4
  <1>2. S \in P
    <2> HIDE DEF P
    <2> QED
      BY <1>1, SubsetInduction
  <1> QED
    BY <1>2

\* A new counter in the place of another, or in none's, makes the sum no larger.
LEMMA TotalShrinks ==
    ASSUME NEW S, IsFiniteSet(S), NEW f \in [S -> Nat], NEW q, NEW g,
           g = [x \in S \cup {q} |-> IF x = q THEN 0 ELSE f[x]]
    PROVE  Total(g, S \cup {q}) \in Nat /\ Total(g, S \cup {q}) <= Total(f, S)
  <1>1. PICK U, R : /\ U = S \cup {q} /\ R = S \ {q} /\ U \ {q} = R
                    /\ IsFiniteSet(U) /\ IsFiniteSet(R) /\ R \in SUBSET S /\ R \in SUBSET U
    <2>1. IsFiniteSet(S \cup {q})
      BY FS_AddElement
    <2>2. IsFiniteSet(S \ {q})
      BY FS_Subset
    <2>3. (S \cup {q}) \ {q} = S \ {q}
      OBVIOUS
    <2> QED
      BY <2>1, <2>2, <2>3
  <1>2. g \in [U -> Nat] /\ g[q] = 0 /\ \A x \in R : g[x] = f[x]
    BY <1>1
  <1>3. Total(g, U) = 0 + Total(g, R)
    BY <1>1, <1>2, TotalWithout
  <1>4. Total(g, R) = Total(f, R) /\ Total(f, R) \in Nat
    BY <1>1, <1>2, TotalSame, TotalNat
  <1>5. Total(f, S) = Total(f, R) \/ (f[q] \in Nat /\ Total(f, S) = f[q] + Total(f, R))
    <2>1. CASE q \in S
      BY <1>1, <2>1, TotalWithout
    <2>2. CASE q \notin S
      BY <1>1, <2>2
    <2> QED
      BY <2>1, <2>2
  <1> QED
    BY <1>1, <1>3, <1>4, <1>5

-----------------------------------------------------------------------------
(* The statistics *)

Counters ==
    /\ running \in BOOLEAN /\ stop_event \in BOOLEAN
    /\ stats \in Nat
    /\ port_stats \in [DOMAIN port_stats -> 0..MaxAttempts]
    /\ workers \in Seq(Threads)
    /\ backlog \in [Listened -> Nat]

\* A worker that records into a listed PortStats is one whose port has one.
Recording ==
    \A t \in Threads : thread[t] # Ended /\ thread[t].ps = "listed"
                          => thread[t].port \in DOMAIN port_stats

\* AggregateCoversPorts, with the sum under a name.
Balanced ==
    (\A r \in Requests : req[r].pc # "clear") =>
        Total(port_stats, DOMAIN port_stats) <= stats + Cardinality(Pending)

CountInv == Counters /\ Recording /\ Balanced

\* Ports are some of those the receiver lists.
LEMMA PortsFinite == IsFiniteSet(Ports) /\ Cardinality(Ports) \in Nat
  <1>1. IsFiniteSet(1..Len(Configs))
    BY ConfigFacts, FS_Interval
  <1>2. [i \in 1..Len(Configs) |-> Configs[i]] \in Surjection(1..Len(Configs), Listened)
    BY ConfigFacts DEF Surjection
  <1>3. IsFiniteSet(Listened)
    BY <1>1, <1>2, FS_Surjection
  <1> QED
    BY <1>3, TestbedAssumption, FS_Subset, FS_CardinalityType

\* How far the sum of what is shown can get, and that it is 0 when the counters are new.
LEMMA ShownTotal ==
    ASSUME NEW S \in SUBSET Ports, NEW f \in [S -> 0..MaxAttempts]
    PROVE  /\ IsFiniteSet(S)
           /\ MaxTotal \in Nat
           /\ Total(f, S) \in Nat /\ Total(f, S) <= MaxTotal
           /\ (\A p \in S : f[p] = 0) => Total(f, S) = 0
  <1>1. /\ IsFiniteSet(S) /\ Cardinality(S) \in Nat /\ Cardinality(Ports) \in Nat
        /\ Cardinality(S) <= Cardinality(Ports)
    BY PortsFinite, FS_Subset, FS_CardinalityType
  <1>2. Total(f, S) \in Nat /\ Total(f, S) <= MaxAttempts * Cardinality(S)
    BY <1>1, ProfileAssumption, TotalBound
  <1>3. \A m, a, b \in Nat : a <= b => m * a \in Nat /\ m * b \in Nat /\ m * a <= m * b
    OBVIOUS
  <1>4. MaxTotal \in Nat /\ Total(f, S) <= MaxTotal
    BY <1>1, <1>2, <1>3, ProfileAssumption DEF MaxTotal
  <1>5. ASSUME \A p \in S : f[p] = 0 PROVE Total(f, S) = 0
    <2>1. f \in [S -> 0..0]
      BY <1>5
    <2>2. Total(f, S) \in Nat /\ Total(f, S) <= 0 * Cardinality(S)
      BY <1>1, <2>1, TotalBound
    <2> QED
      BY <1>1, <2>2
  <1> QED
    BY <1>1, <1>2, <1>4, <1>5

LEMMA PendingFinite ==
    ASSUME NEW U, U \subseteq Threads
    PROVE  IsFiniteSet(U) /\ Cardinality(U) \in Nat
  BY ProfileAssumption, FS_Subset, FS_CardinalityType

LEMMA InitCountInv == Init => CountInv
  <1> SUFFICES ASSUME Init PROVE CountInv
    OBVIOUS
  <1>1. DOMAIN port_stats = {} /\ port_stats \in [{} -> 0..MaxAttempts]
    BY DEF Init, InitTraffic
  <1>2. Counters
    <2>1. workers \in Seq(Threads) /\ backlog \in [Listened -> Nat]
      BY DEF Init, InitTraffic, InitReceiver
    <2> QED
      BY <1>1, <2>1 DEF Init, InitTraffic, Counters
  <1>r. Recording
    BY DEF Init, InitTraffic, Recording
  <1>3. Total(port_stats, DOMAIN port_stats) = 0
    BY <1>1, ShownTotal
  <1>4. stats = 0 /\ Cardinality(Pending) \in Nat
    BY PendingFinite DEF Init, InitTraffic, Pending, Alive
  <1>5. Balanced
    BY <1>3, <1>4 DEF Balanced
  <1> QED
    BY <1>2, <1>r, <1>5 DEF CountInv

\* A step that leaves both kinds of statistics and the workers that owe a record.
LEMMA NothingRecorded ==
    ASSUME Balanced, UNCHANGED <<stats, port_stats>>, Pending' = Pending,
           \A r \in Requests : req[r].pc = "clear" => req'[r].pc = "clear"
    PROVE  Balanced'
  BY DEF Balanced

\* A step that leaves only fresh counters to be shown.
LEMMA FreshCounters ==
    ASSUME Counters', (DOMAIN port_stats \subseteq Ports)',
           (\A p \in DOMAIN port_stats : port_stats[p] = 0)'
    PROVE  Balanced'
  <1>1. Total(port_stats', DOMAIN port_stats') = 0
    BY ShownTotal DEF Counters
  <1>2. stats' \in Nat /\ Cardinality(Pending') \in Nat
    BY PendingFinite DEF Counters, Pending, Alive
  <1> QED
    BY <1>1, <1>2 DEF Balanced

\* The attempt is counted for its port, and owed to the aggregate.
LEMMA RecordPortCounts ==
    ASSUME GenTypes, CountInv, NEW t \in Threads, RecordPort(t),
           (backlog \in [Listened -> Nat])'
    PROVE  CountInv'
  <1>0. Counters /\ Recording /\ Balanced /\ DOMAIN port_stats \subseteq Ports
    BY DEF GenTypes, CountInv
  <1>w. PICK w : w = thread[t]
    OBVIOUS
  <1>1. PICK v : /\ w # Ended /\ w.pc = "connect"
                 /\ v.pc = "recorded" /\ v.ps = w.ps /\ v.port = w.port /\ v # Ended
                 /\ thread' = [thread EXCEPT ![t] = v]
    <2>1. PICK port, ps : w = [pc |-> "connect", port |-> port, ps |-> ps]
      BY <1>w DEF GenTypes, RecordPort, Ended, WorkerStates
    <2>2. [w EXCEPT !.pc = "recorded"] = [pc |-> "recorded", port |-> port, ps |-> ps]
      BY <2>1
    <2> DEFINE v == [pc |-> "recorded", port |-> port, ps |-> ps]
    <2>3. thread' = [thread EXCEPT ![t] = v]
      BY <1>w, <2>2 DEF RecordPort
    <2>4. /\ w # Ended /\ w.pc = "connect"
          /\ v.pc = "recorded" /\ v.ps = w.ps /\ v.port = w.port /\ v # Ended
      BY <2>1 DEF Ended
    <2> HIDE DEF v
    <2> QED
      BY <2>3, <2>4
  <1>3. UNCHANGED <<running, stop_event, workers, req, stats>>
    BY DEF RecordPort, control
  <1>4. PICK f, S : /\ S = DOMAIN port_stats /\ f = port_stats
                    /\ f \in [S -> 0..MaxAttempts] /\ IsFiniteSet(S)
                    /\ Total(f, S) \in Nat
    BY <1>0, ShownTotal DEF Counters
  <1>5. \/ port_stats' = f
        \/ w.port \in S /\ f[w.port] < MaxAttempts
           /\ port_stats' = [f EXCEPT ![w.port] = @ + 1]
    <2>1. CASE w.ps = "listed"
      <3>1. w.port \in S
        BY <1>0, <1>w, <1>1, <1>4, <2>1 DEF Recording
      <3>2. port_stats' = [f EXCEPT ![w.port] = Count(@, MaxAttempts)]
        BY <1>w, <1>4, <2>1 DEF RecordPort
      <3> QED
        BY <1>4, <3>1, <3>2 DEF Count
    <2>2. CASE w.ps # "listed"
      BY <1>w, <1>4, <2>2 DEF RecordPort
    <2> QED
      BY <2>1, <2>2
  <1>6. DOMAIN port_stats' = S /\ port_stats' \in [S -> 0..MaxAttempts]
    BY <1>4, <1>5, ProfileAssumption
  <1>7. Counters'
    BY <1>0, <1>3, <1>6 DEF Counters
  <1>8. Recording'
    BY <1>0, <1>w, <1>1, <1>4, <1>6 DEF Recording, GenTypes
  <1>9. Total(port_stats', S) \in Nat /\ Total(port_stats', S) <= Total(f, S) + 1
    <2>1. f \in [S -> Nat]
      BY <1>4, ProfileAssumption
    <2> QED
      BY <1>4, <1>5, <2>1, TotalGrows
  <1>10. Pending' = Pending \cup {t} /\ t \notin Pending
    BY <1>w, <1>1 DEF Pending, Alive, GenTypes
  <1>11. Cardinality(Pending') = Cardinality(Pending) + 1 /\ Cardinality(Pending) \in Nat
    <2>1. Pending \subseteq Threads
      BY DEF Pending, Alive
    <2> QED
      BY <1>10, <2>1, PendingFinite, FS_AddElement
  <1>12. Balanced'
    <2> SUFFICES ASSUME \A r \in Requests : req'[r].pc # "clear"
                 PROVE  Total(port_stats', S) <= stats' + Cardinality(Pending')
      BY <1>6 DEF Balanced
    <2>1. Total(f, S) <= stats + Cardinality(Pending)
      BY <1>0, <1>3, <1>4 DEF Balanced
    <2>2. stats' = stats /\ stats \in Nat
      BY <1>0, <1>3 DEF Counters
    <2> QED
      BY <1>4, <1>9, <1>11, <2>1, <2>2
  <1> QED
    BY <1>7, <1>8, <1>12 DEF CountInv

\* The aggregate takes what is owed, or is as high as all ports together can get.
LEMMA RecordAllCounts ==
    ASSUME GenTypes, CountInv, NEW t \in Threads, RecordAll(t), UNCHANGED backlog
    PROVE  CountInv'
  <1>0. Counters /\ Recording /\ Balanced /\ DOMAIN port_stats \subseteq Ports
    BY DEF GenTypes, CountInv
  <1>w. PICK w : w = thread[t]
    OBVIOUS
  <1>1. PICK v : /\ w # Ended /\ w.pc = "recorded"
                 /\ v.pc = "loop" /\ v.ps = w.ps /\ v.port = w.port /\ v # Ended
                 /\ thread' = [thread EXCEPT ![t] = v]
    <2>1. PICK port, ps : w = [pc |-> "recorded", port |-> port, ps |-> ps]
      BY <1>w DEF GenTypes, RecordAll, Ended, WorkerStates
    <2>2. [w EXCEPT !.pc = "loop"] = [pc |-> "loop", port |-> port, ps |-> ps]
      BY <2>1
    <2> DEFINE v == [pc |-> "loop", port |-> port, ps |-> ps]
    <2>3. thread' = [thread EXCEPT ![t] = v]
      BY <1>w, <2>2 DEF RecordAll
    <2>4. /\ w # Ended /\ w.pc = "recorded"
          /\ v.pc = "loop" /\ v.ps = w.ps /\ v.port = w.port /\ v # Ended
      BY <2>1 DEF Ended
    <2> HIDE DEF v
    <2> QED
      BY <2>3, <2>4
  <1>3. UNCHANGED <<running, stop_event, workers, req, port_stats>>
    BY DEF RecordAll, control
  <1>4. stats \in Nat /\ MaxTotal \in Nat
        /\ stats' = IF stats < MaxTotal THEN stats + 1 ELSE stats
    BY <1>0, ShownTotal DEF RecordAll, Count, Counters
  <1>5. Counters'
    BY <1>0, <1>3, <1>4 DEF Counters
  <1>6. Recording'
    BY <1>0, <1>w, <1>1, <1>3 DEF Recording, GenTypes
  <1>7. Pending' = Pending \ {t} /\ t \in Pending
    BY <1>w, <1>1 DEF Pending, Alive, GenTypes
  <1>8. Cardinality(Pending') = Cardinality(Pending) - 1
        /\ Cardinality(Pending) \in Nat /\ Cardinality(Pending') \in Nat
    <2>1. Pending \subseteq Threads /\ Pending' \subseteq Threads
      BY DEF Pending, Alive
    <2> QED
      BY <1>7, <2>1, PendingFinite, FS_RemoveElement
  <1>9. PICK T \in Nat : T = Total(port_stats, DOMAIN port_stats) /\ T <= MaxTotal
    BY <1>0, ShownTotal DEF Counters
  <1>10. Balanced'
    <2> SUFFICES ASSUME \A r \in Requests : req[r].pc # "clear"
                 PROVE  T <= stats' + Cardinality(Pending')
      BY <1>3, <1>9 DEF Balanced
    <2>1. T <= stats + Cardinality(Pending)
      BY <1>0, <1>9 DEF Balanced
    <2> QED
      BY <1>4, <1>8, <1>9, <2>1
  <1> QED
    BY <1>5, <1>6, <1>10 DEF CountInv

LEMMA OtherWorkerSteps ==
    ASSUME GenTypes, CountInv, NEW t \in Threads, WorkerBoot(t) \/ WorkerLoop(t),
           UNCHANGED backlog
    PROVE  CountInv'
  <1>0. Counters /\ Recording /\ Balanced
    BY DEF CountInv
  <1>1. PICK w \in WorkerStates : w = thread[t] /\ w.pc \in {"boot", "loop"} /\ w # Ended
    BY DEF GenTypes, WorkerBoot, WorkerLoop, Ended
  <1>2. PICK v : /\ thread' = [thread EXCEPT ![t] = v]
                 /\ \/ v = Ended
                    \/ v.pc # "recorded" /\ v.port = w.port
                       /\ (w.port \in DOMAIN port_stats \/ v.ps = w.ps)
    <2>1. CASE WorkerBoot(t)
      <3>1. CASE w.port \in DOMAIN port_stats
        <4> DEFINE v == [pc |-> "loop", port |-> w.port, ps |-> "listed"]
        <4>1. thread' = [thread EXCEPT ![t] = v] /\ v.pc # "recorded" /\ v.port = w.port
          BY <1>1, <2>1, <3>1 DEF WorkerBoot
        <4> HIDE DEF v
        <4> QED
          BY <3>1, <4>1
      <3>2. CASE w.port \notin DOMAIN port_stats
        <4>1. thread' = [thread EXCEPT ![t] = Ended]
          BY <1>1, <2>1, <3>2 DEF WorkerBoot
        <4> QED
          BY <4>1
      <3> QED
        BY <3>1, <3>2
    <2>2. CASE WorkerLoop(t)
      <3>1. /\ [w EXCEPT !.pc = "connect"].pc # "recorded"
            /\ [w EXCEPT !.pc = "connect"].port = w.port
            /\ [w EXCEPT !.pc = "connect"].ps = w.ps
        BY <1>1 DEF WorkerStates, Ended
      <3>2. thread' = [thread EXCEPT ![t] = IF stop_event THEN Ended
                                                         ELSE [w EXCEPT !.pc = "connect"]]
        BY <1>1, <2>2 DEF WorkerLoop
      <3> QED
        BY <3>1, <3>2
    <2> QED
      BY <2>1, <2>2
  <1>3. UNCHANGED <<running, stop_event, workers, req, stats, port_stats>>
    BY DEF WorkerBoot, WorkerLoop, control
  <1>4. Counters'
    BY <1>0, <1>3 DEF Counters
  <1>5. Recording'
    BY <1>0, <1>1, <1>2, <1>3 DEF Recording, GenTypes
  <1>6. Pending' = Pending
    BY <1>1, <1>2 DEF Pending, Alive, GenTypes
  <1>7. Balanced'
    BY <1>0, <1>3, <1>6, NothingRecorded
  <1> QED
    BY <1>4, <1>5, <1>7 DEF CountInv

\* Of a request, only that it is not the one between the two resets matters.
LEMMA ClearKept ==
    ASSUME GenTypes, NEW r \in Requests, NEW s, req' = [req EXCEPT ![r] = s],
           req[r].pc # "clear"
    PROVE  \A d \in Requests : req[d].pc = "clear" => req'[d].pc = "clear"
  BY DEF GenTypes

\* Steps that leave the statistics and the workers.
LEMMA PlainControlSteps ==
    ASSUME GenTypes, CountInv, NEW r \in Requests, UNCHANGED backlog,
           \/ start(r) \/ StartEvent(r) \/ StartFlag(r) \/ StartPorts(r)
           \/ StopEvent(r) \/ StopFlag(r) \/ StopJoin(r) \/ StopClear(r)
           \/ stop(r) \/ \E p \in Profiles : api_start(r, p)
    PROVE  CountInv'
  <1>0. Counters /\ Recording /\ Balanced
    BY DEF CountInv
  <1>1. UNCHANGED <<stats, port_stats, thread>>
    BY DEF start, StartEvent, StartFlag, StartPorts, StopEvent, StopFlag, StopJoin, StopClear,
           stop, api_start
  <1>2. /\ running' \in {running, TRUE, FALSE} /\ stop_event' \in {stop_event, TRUE, FALSE}
        /\ workers' \in {workers, <<>>}
    BY DEF start, StartEvent, StartFlag, StartPorts, StopEvent, StopFlag, StopJoin, StopClear,
           stop, api_start
  <1>3. Counters'
    <2>0. \A b \in BOOLEAN : \A c \in {b, TRUE, FALSE} : c \in BOOLEAN
      OBVIOUS
    <2>1. running' \in BOOLEAN /\ stop_event' \in BOOLEAN
      <3>1. running \in BOOLEAN /\ stop_event \in BOOLEAN
        BY <1>0 DEF Counters
      <3> QED
        BY <1>2, <2>0, <3>1, Zenon
    <2>2. workers' \in Seq(Threads)
      <3>1. workers \in Seq(Threads) /\ <<>> \in Seq(Threads)
        BY <1>0 DEF Counters
      <3>2. workers' = workers \/ workers' = <<>>
        BY <1>2
      <3> QED
        BY <3>1, <3>2, Zenon
    <2> QED
      BY <1>0, <1>1, <2>1, <2>2 DEF Counters
  <1>r. Recording' /\ Pending' = Pending
    BY <1>0, <1>1 DEF Recording, Pending, Alive
  <1>4. req[r].pc # "clear" /\ \E s : req' = [req EXCEPT ![r] = s]
    BY DEF start, StartEvent, StartFlag, StartPorts, StopEvent, StopFlag, StopJoin, StopClear,
           stop, api_start, Idle
  <1>5. \A d \in Requests : req[d].pc = "clear" => req'[d].pc = "clear"
    BY <1>4, ClearKept
  <1> QED
    BY <1>0, <1>1, <1>3, <1>r, <1>5, NothingRecorded DEF CountInv

LEMMA SpawnCounts ==
    ASSUME GenTypes, CountInv, NEW r \in Requests, NEW t \in Threads, NEW p \in Ports,
           StartSpawn(r, t, p), UNCHANGED backlog
    PROVE  CountInv'
  <1>0. Counters /\ Recording /\ Balanced
    BY DEF CountInv
  <1>1. /\ UNCHANGED <<running, stop_event, stats, port_stats>> /\ workers' \in Seq(Threads)
        /\ thread' = [thread EXCEPT ![t] = [pc |-> "new", port |-> p, ps |-> "none"]]
        /\ thread[t] = Ended
    BY <1>0 DEF StartSpawn, Counters, Created, Alive
  <1>2. Counters' /\ Recording'
    BY <1>0, <1>1 DEF Counters, Recording, GenTypes
  <1>3. Pending' = Pending
    BY <1>1 DEF Pending, Alive, GenTypes, Ended
  <1>4. req[r].pc # "clear" /\ \E s : req' = [req EXCEPT ![r] = s]
    BY DEF StartSpawn
  <1>5. \A d \in Requests : req[d].pc = "clear" => req'[d].pc = "clear"
    BY <1>4, ClearKept
  <1> QED
    BY <1>0, <1>1, <1>2, <1>3, <1>5, NothingRecorded DEF CountInv

LEMMA LaunchCounts ==
    ASSUME GenTypes, CountInv, NEW r \in Requests, StartLaunch(r), UNCHANGED backlog
    PROVE  CountInv'
  <1>0. Counters /\ Recording /\ Balanced
    BY DEF CountInv
  <1>1. PICK t \in Threads : t = req[r].worker /\ thread[t].pc = "new"
    <2>1. req[r].pc = "launch"
      BY DEF StartLaunch
    <2>2. PICK todo \in SUBSET Ports, t \in Threads :
             req[r] = [pc |-> "launch", todo |-> todo, worker |-> t]
      BY <2>1, RequestForms
    <2> QED
      BY <2>1, <2>2 DEF GenTypes, Launching
  <1>2. PICK p : /\ thread' = [thread EXCEPT ![t] = [pc |-> "boot", port |-> p, ps |-> "none"]]
                 /\ UNCHANGED <<running, stop_event, stats, port_stats, workers>>
    BY <1>1 DEF StartLaunch, Booting
  <1>3. Counters' /\ Recording'
    BY <1>0, <1>2 DEF Counters, Recording, GenTypes
  <1>4. Pending' = Pending
    BY <1>1, <1>2 DEF Pending, Alive, GenTypes, Ended
  <1>5. req[r].pc # "clear" /\ \E s : req' = [req EXCEPT ![r] = s]
    BY DEF StartLaunch
  <1>6. \A d \in Requests : req[d].pc = "clear" => req'[d].pc = "clear"
    BY <1>5, ClearKept
  <1> QED
    BY <1>0, <1>2, <1>3, <1>4, <1>6, NothingRecorded DEF CountInv

\* A worker whose counter leaves the list records where nobody looks.
LEMMA DetachedCounts ==
    ASSUME GenTypes, Recording, NEW S, thread' = [t \in Threads |-> Detached(t, S)],
           DOMAIN port_stats \ S \subseteq DOMAIN port_stats'
    PROVE  Recording' /\ Pending' = Pending
  <1>1. \A t \in Threads : /\ thread'[t].pc = thread[t].pc
                           /\ (thread'[t] = Ended) = (thread[t] = Ended)
                           /\ thread[t] # Ended => thread'[t].port = thread[t].port
                           /\ thread[t] # Ended /\ thread'[t].ps = "listed" =>
                                 thread[t].ps = "listed" /\ thread[t].port \notin S
    BY DetachedFacts
  <1>2. Recording'
    BY <1>1 DEF Recording
  <1>3. Pending' = Pending
    BY <1>1 DEF Pending, Alive
  <1> QED
    BY <1>2, <1>3

\* start() resets the aggregate, then the counters of the ports.
LEMMA ResetSteps ==
    ASSUME GenTypes, CountInv, NEW r \in Requests,
           StartReset(r) \/ StartClear(r), UNCHANGED backlog
    PROVE  CountInv'
  <1>0. Counters /\ Recording /\ Balanced /\ DOMAIN port_stats \subseteq Ports
    BY DEF CountInv, GenTypes
  <1>1. CASE StartReset(r)
    <2>1. Counters' /\ Recording'
      BY <1>0, <1>1 DEF Counters, Recording, StartReset
    <2>2. req'[r].pc = "clear"
      BY <1>1 DEF StartReset, GenTypes
    <2> QED
      BY <2>1, <2>2 DEF CountInv, Balanced
  <1>2. CASE StartClear(r)
    <2>1. DOMAIN port_stats' = {} /\ port_stats' \in [{} -> 0..MaxAttempts]
      BY <1>2 DEF StartClear
    <2>2. Counters'
      BY <1>0, <1>2, <2>1 DEF Counters, StartClear
    <2>3. Recording'
      BY <1>0, <1>2, <2>1, DetachedCounts DEF StartClear
    <2>4. Balanced'
      BY <2>1, <2>2, FreshCounters
    <2> QED
      BY <2>2, <2>3, <2>4 DEF CountInv
  <1> QED
    BY <1>1, <1>2

\* Between two requests that overlap, a port's counter may be there already.
LEMMA FillCounts ==
    ASSUME GenTypes, CountInv, NEW r \in Requests, NEW p \in Ports, StartFill(r, p),
           UNCHANGED backlog
    PROVE  CountInv'
  <1>0. Counters /\ Recording /\ Balanced /\ DOMAIN port_stats \subseteq Ports
    BY DEF CountInv, GenTypes
  <1>1. PICK f, S : /\ S = DOMAIN port_stats /\ f = port_stats
                    /\ f \in [S -> 0..MaxAttempts] /\ IsFiniteSet(S)
                    /\ Total(f, S) \in Nat
    BY <1>0, ShownTotal DEF Counters
  <1>2. PICK g : g = [q \in S \cup {p} |-> IF q = p THEN 0 ELSE f[q]] /\ port_stats' = g
    BY <1>1 DEF StartFill
  <1>3. DOMAIN port_stats' = S \cup {p} /\ port_stats' \in [S \cup {p} -> 0..MaxAttempts]
    BY <1>1, <1>2, ProfileAssumption
  <1>4. Counters'
    BY <1>0, <1>3 DEF Counters, StartFill
  <1>5. Recording' /\ Pending' = Pending
    <2>1. thread' = [t \in Threads |-> Detached(t, {p})]
      BY DEF StartFill
    <2>2. DOMAIN port_stats \ {p} \subseteq DOMAIN port_stats'
      BY <1>1, <1>3
    <2> QED
      BY <1>0, <2>1, <2>2, DetachedCounts
  <1>6. Total(g, S \cup {p}) \in Nat /\ Total(g, S \cup {p}) <= Total(f, S)
    <2>1. f \in [S -> Nat]
      BY <1>1, ProfileAssumption
    <2> QED
      BY <1>1, <1>2, <2>1, TotalShrinks
  <1>7. req[r].pc # "clear" /\ \E s : req' = [req EXCEPT ![r] = s]
    BY DEF StartFill
  <1>8. \A d \in Requests : req[d].pc = "clear" => req'[d].pc = "clear"
    BY <1>7, ClearKept
  <1>9. Balanced'
    <2> SUFFICES ASSUME \A d \in Requests : req'[d].pc # "clear"
                 PROVE  Total(g, S \cup {p}) <= stats' + Cardinality(Pending')
      BY <1>2, <1>3 DEF Balanced
    <2>1. Total(f, S) <= stats + Cardinality(Pending)
      BY <1>0, <1>1, <1>8 DEF Balanced
    <2>2. stats' = stats /\ stats \in Nat /\ Cardinality(Pending) \in Nat
      BY <1>0, PendingFinite DEF StartFill, Counters, Pending, Alive
    <2> QED
      BY <1>1, <1>5, <1>6, <2>1, <2>2
  <1> QED
    BY <1>4, <1>5, <1>9 DEF CountInv

\* Connections wait at ports that are listened on.
LEMMA BacklogTyped ==
    ASSUME RcvTypes, backlog \in [Listened -> Nat],
           \/ \E c \in Calls : rcv_start(c) \/ rcv_stop(c) \/ CallStep(c)
           \/ \E p \in Listened : HostStep(p)
    PROVE  backlog' \in [Listened -> Nat]
  <1>1. ASSUME NEW S, Release(S) PROVE backlog' \in [Listened -> Nat]
    BY <1>1 DEF Release
  <1>2. ASSUME NEW c \in Calls, rcv_start(c) \/ rcv_stop(c) PROVE UNCHANGED backlog
    BY <1>2 DEF rcv_start, rcv_stop
  <1>3. ASSUME NEW c \in Calls, ClearListeners(c) \/ StopListener(c)
        PROVE  backlog' \in [Listened -> Nat]
    <2>1. CASE ClearListeners(c)
      BY <1>1, <2>1 DEF ClearListeners
    <2>2. CASE StopListener(c)
      <3>1. UNCHANGED backlog \/ \E S : Release(S)
        BY <2>2 DEF StopListener
      <3> QED
        BY <1>1, <3>1
    <2> QED
      BY <1>3, <2>1, <2>2
  <1>4. ASSUME NEW c \in Calls, CallStep(c) PROVE backlog' \in [Listened -> Nat]
    <2>1. CASE StartListener(c) \/ StartFails(c) \/ StartSucceeds(c) \/ JoinListener(c)
               \/ StopEnds(c) \/ StopDone(c)
      BY <2>1 DEF StartListener, StartFails, StartSucceeds, JoinListener, StopEnds, StopDone
    <2> QED
      BY <1>3, <1>4, <2>1 DEF CallStep
  <1>5. ASSUME NEW p \in Listened, HostStep(p) PROVE backlog' \in [Listened -> Nat]
    <2>1. CASE Accept(p)
      BY <2>1 DEF Accept
    <2>2. CASE LoopFails(p)
      <3>1. UNCHANGED backlog \/ Release({p})
        BY <2>2 DEF LoopFails
      <3> QED
        BY <1>1, <3>1
    <2>3. CASE LoopEnds(p)
      BY <1>1, <2>3 DEF LoopEnds
    <2> QED
      BY <1>5, <2>1, <2>2, <2>3 DEF HostStep
  <1> QED
    BY <1>2, <1>4, <1>5

LEMMA NextCountInv == GenInv /\ RcvInv /\ CountInv /\ [Next]_vars => CountInv'
  <1> SUFFICES ASSUME GenInv, RcvInv, CountInv, [Next]_vars PROVE CountInv'
    OBVIOUS
  <1>0. GenTypes /\ RcvTypes /\ backlog \in [Listened -> Nat]
    BY DEF GenInv, RcvInv, CountInv, Counters
  <1>1. ASSUME UNCHANGED gen_vars, (backlog \in [Listened -> Nat])' PROVE CountInv'
    BY <1>1 DEF gen_vars, CountInv, Counters, Recording, Balanced, Pending, Alive
  <1>2. ASSUME NEW t \in Threads, WorkerStep(t), UNCHANGED rcv_vars PROVE CountInv'
    BY <1>0, <1>2, RecordPortCounts, RecordAllCounts, OtherWorkerSteps DEF WorkerStep, rcv_vars
  <1>3. ASSUME NEW t \in Threads, Establish(t) PROVE CountInv'
    <2>1. PICK p : RecordPort(t) /\ backlog' = [backlog EXCEPT ![p] = backlog[p] + 1]
      BY <1>3 DEF Establish
    <2>2. p \in Listened => backlog[p] + 1 \in Nat
      BY <1>0
    <2>3. backlog' \in [Listened -> Nat]
      BY <1>0, <2>1, <2>2
    <2> QED
      BY <1>0, <2>1, <2>3, RecordPortCounts
  <1>4. ASSUME NEW r \in Requests, ControlStep(r), UNCHANGED rcv_vars PROVE CountInv'
    BY <1>0, <1>4, PlainControlSteps, ResetSteps, FillCounts, SpawnCounts, LaunchCounts
    DEF ControlStep, rcv_vars
  <1>5. ASSUME NEW r \in Requests, GenArrival(r) PROVE CountInv'
    BY <1>0, <1>5, PlainControlSteps DEF GenArrival, rcv_vars
  <1>6. ASSUME NEW c \in Calls, RcvArrival(c) PROVE CountInv'
    BY <1>0, <1>1, <1>6, BacklogTyped DEF RcvArrival
  <1>7. CASE Next
    <2>1. CASE \E c \in Calls : RcvOnly(CallStep(c))
      BY <1>0, <1>1, <2>1, BacklogTyped DEF RcvOnly
    <2>2. CASE \E p \in Listened : RcvOnly(HostStep(p))
      BY <1>0, <1>1, <2>2, BacklogTyped DEF RcvOnly
    <2> QED
      BY <1>2, <1>3, <1>4, <1>5, <1>6, <1>7, <2>1, <2>2 DEF Next, GenOnly
  <1>8. CASE UNCHANGED vars
    BY <1>0, <1>1, <1>8 DEF vars, gen_vars
  <1> QED
    BY <1>7, <1>8

LEMMA AlwaysCountInv == Spec => []CountInv
  BY InitCountInv, NextCountInv, AlwaysGenInv, AlwaysRcvInv, PTL DEF Spec

\* TrafficStats and the PortStats, each under a lock of its own and reset one after the
\* other by start(), do not drift apart: whatever the workers, those of earlier sessions
\* included, do between the two resets and between their two records, and however many
\* requests overlap, the aggregate accounts for what is shown per port.
THEOREM AggregateAlwaysCovers == Spec => []AggregateCoversPorts
  <1>1. CountInv => AggregateCoversPorts
    BY DEF CountInv, Balanced, Total, AggregateCoversPorts
  <1> QED
    BY <1>1, AlwaysCountInv, PTL

\* Only the two programs are ever said to have had overlapping requests.
Programs == overlapped \subseteq {"generator", "receiver"}

LEMMA AlwaysPrograms == Spec => []Programs
  <1>1. Init => Programs
    BY DEF Init, Programs
  <1>2. Programs /\ [Next]_vars => Programs'
    <2> SUFFICES ASSUME Programs, [Next]_vars PROVE Programs'
      OBVIOUS
    <2>1. \/ UNCHANGED overlapped
          \/ Arrives("generator", ~Settled) \/ Arrives("receiver", ~ReceiverSettled)
      BY DEF Next, vars, GenArrival, RcvArrival, GenOnly, RcvOnly, Establish
    <2> QED
      BY <2>1 DEF Programs, Arrives
  <1> QED
    BY <1>1, <1>2, PTL DEF Spec

\* Every field of generator and receiver keeps its type.  In particular the PortStats
\* that a worker takes for listed are in port_stats.
THEOREM AlwaysTyped == Spec => []TypeOK
  <1>1. GenInv /\ RcvInv /\ CountInv /\ Programs => TypeOK
    BY DEF GenInv, GenTypes, RcvInv, RcvTypes, CountInv, Counters, Recording, Programs,
           TypeOK, Alive
  <1> QED
    BY <1>1, AlwaysGenInv, AlwaysRcvInv, AlwaysCountInv, AlwaysPrograms, PTL
================================================================================
