-------------------------- MODULE OrchestratorProofs --------------------------
(***************************************************************************)
(* Proofs about Orchestrator for every finite set of clients and every     *)
(* size of the table behind connected_clients.                             *)
(***************************************************************************)
EXTENDS Orchestrator, FiniteSetTheorems, TLAPS

StreamInv == TypeOK /\ OpenRegistered

LEMMA InitStreamInv == Init => StreamInv
  BY SlotAssumption DEF Init, StreamInv, TypeOK, OpenRegistered, connected_clients, NoSlot

\* Handlers and peers: the broadcaster's variables stay.
LEMMA HandlerSteps ==
    ASSUME StreamInv, NEW c \in Clients,
           metrics_websocket(c) \/ PeerLeaves(c) \/ HandlerDisconnects(c) \/ HandlerFails(c)
    PROVE  StreamInv'
  <1> USE DEF StreamInv, TypeOK, OpenRegistered, connected_clients, NoSlot, round
  <1>1. CASE metrics_websocket(c)
    <2>1. PICK s \in 1..Slots : slot' = [slot EXCEPT ![c] = s]
      BY <1>1 DEF metrics_websocket
    <2>2. s \in 0..Slots /\ s # 0
      BY SlotAssumption
    <2> QED
      BY <1>1, <2>1, <2>2 DEF metrics_websocket
  <1>2. CASE PeerLeaves(c)
    BY <1>2 DEF PeerLeaves
  <1>3. CASE HandlerDisconnects(c)
    <2>1. 0 \in 0..Slots
      BY SlotAssumption
    <2> QED
      BY <1>3, <2>1 DEF HandlerDisconnects
  <1>4. CASE HandlerFails(c)
    BY <1>4 DEF HandlerFails
  <1> QED
    BY <1>1, <1>2, <1>3, <1>4

\* A walk that has found only sockets broken that are not open.
LEMMA WalkSteps ==
    ASSUME StreamInv, NEW sz \in Nat, NEW at, NEW broken \in SUBSET Clients,
           \A c \in broken : ws[c] # "open", Walk(sz, at, broken)
    PROVE  StreamInv'
  <1> USE DEF StreamInv, TypeOK, OpenRegistered, connected_clients, NoSlot
  <1>0. 0 \in 0..Slots /\ None \notin Clients
    BY SlotAssumption
  <1>1. CASE WalkFails(sz)
    BY <1>0, <1>1 DEF WalkFails
  <1>2. ASSUME NEW c \in Clients, SendTo(c, sz, at, broken) PROVE StreamInv'
    BY <1>0, <1>2 DEF SendTo
  <1>3. CASE WalkEnds(sz, at, broken)
    <2>1. slot' \in [Clients -> 0..Slots]
          /\ \A c \in Clients : slot'[c] = IF c \in broken THEN 0 ELSE slot[c]
      BY <1>0, <1>3 DEF WalkEnds, Remaining
    <2>2. \A c \in Clients : ws'[c] = IF ws[c] = "failed" /\ slot'[c] = 0 THEN "none" ELSE ws[c]
      BY <1>3 DEF WalkEnds
    <2>3. ws' \in [Clients -> {"none", "open", "gone", "failed"}]
      BY <1>3, <2>2 DEF WalkEnds
    <2>4. \A c \in Clients : slot'[c] # 0 => ws'[c] # "none"
      BY <2>1, <2>2
    <2>5. \A c \in Clients : ws'[c] = "open" => slot'[c] # 0
      BY <2>1, <2>2
    <2> QED
      BY <1>0, <1>3, <2>1, <2>3, <2>4, <2>5 DEF WalkEnds
  <1> QED
    BY <1>1, <1>2, <1>3 DEF Walk

LEMMA NextStreamInv ==
    ASSUME StreamInv, [Next]_vars
    PROVE  StreamInv'
  <1>1. CASE UNCHANGED vars
    BY <1>1 DEF vars, StreamInv, TypeOK, OpenRegistered, connected_clients
  <1>2. CASE Wake
    BY <1>2 DEF Wake, StreamInv, TypeOK, OpenRegistered, connected_clients
  <1>3. CASE Fetched
    <2>1. Cardinality(connected_clients) \in Nat
      <3>1. IsFiniteSet(connected_clients)
        BY SlotAssumption, FS_Subset DEF connected_clients
      <3> QED
        BY <3>1, FS_CardinalityType
    <2> QED
      BY <1>3, <2>1, WalkSteps DEF Fetched
  <1>4. ASSUME NEW raised \in BOOLEAN, Sent(raised) PROVE StreamInv'
    <2> DEFINE broken == IF raised THEN disconnected \cup {current} ELSE disconnected
    <2>1. current \in Clients
      BY <1>4 DEF Sent, StreamInv, TypeOK
    <2>2. raised => ws[current] # "open"
      BY <1>4 DEF Sent, Outcomes
    <2>3. broken \in SUBSET Clients /\ \A c \in broken : ws[c] # "open"
      BY <2>1, <2>2 DEF StreamInv, TypeOK
    <2>4. size \in Nat /\ Walk(size, pos, broken)
      BY <1>4 DEF Sent, StreamInv, TypeOK
    <2> QED
      BY <2>3, <2>4, WalkSteps
  <1> QED
    BY <1>1, <1>2, <1>3, <1>4, HandlerSteps DEF Next, Broadcast

\* The connections, the set behind connected_clients and the broadcaster's iteration
\* keep their types: a socket whose handler has seen the end is not registered, and only
\* sockets that are not open are noted as broken.
THEOREM StreamTypeCorrect == Spec => []TypeOK
  <1>1. StreamInv => TypeOK
    BY DEF StreamInv
  <1> QED
    BY <1>1, InitStreamInv, NextStreamInv, PTL DEF Spec

\* difference_update after a round drops nobody who is still there, however many clients
\* come, leave and break between the sends of that round.
THEOREM OpenStayRegistered == Spec => []OpenRegistered
  <1>1. StreamInv => OpenRegistered
    BY DEF StreamInv
  <1> QED
    BY <1>1, InitStreamInv, NextStreamInv, PTL DEF Spec
===============================================================================
