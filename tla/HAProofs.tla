------------------------------- MODULE HAProofs -------------------------------
(***************************************************************************)
(* Proofs about HA for every set of daemons paired by Peer, every bound on *)
(* generations and every number of heartbeats in flight.                   *)
(***************************************************************************)
EXTENDS HA, TLAPS

\* Unless a write of it was torn, the file holds the generation in use, or the daemon
\* has never been promoted.
FileCurrent ==
    \A n \in Nodes :
        ~torn[n] => (disk[n] = generation[n] \/ (disk[n] = NoFile /\ generation[n] = 1))

\* No heartbeat in flight claims more than its sender has reached, unless the sender's
\* file was torn.
NetBehind == \A m \in net : ~torn[m.from] => m.generation <= generation[m.from]

HAInv == TypeOK /\ FileCurrent /\ NetBehind /\ FencedAreTied

LEMMA InitTypeOK == Init => TypeOK
  BY DEF Init, TypeOK, InitialRole, HAState, NoFile, Heartbeat

LEMMA PromoteTypeOK ==
    ASSUME TypeOK, NEW n \in Nodes, promote(n)
    PROVE  TypeOK'
  <1>1. \A d \in PersistOutcomes(n, generation[n] + 1) : d \in Nat
    BY DEF PersistOutcomes, TypeOK, NoFile
  <1>2. disk' \in [Nodes -> Nat]
    BY <1>1 DEF promote, TypeOK
  <1>3. generation' \in [Nodes -> Nat \ {0}]
    BY DEF promote, TypeOK
  <1>4. torn' \in [Nodes -> BOOLEAN]
    <2>1. PICK d \in PersistOutcomes(n, generation[n] + 1) :
                 torn' = [torn EXCEPT ![n] = torn[n] \/ d # generation[n] + 1]
      BY DEF promote
    <2> QED
      BY <2>1, Zenon DEF TypeOK
  <1> QED
    BY <1>2, <1>3, <1>4 DEF promote, TypeOK, HAState

LEMMA ExitTypes ==
    ASSUME TypeOK, NEW n \in Nodes, Exit(n)
    PROVE  /\ up' \in [Nodes -> BOOLEAN] /\ running' \in [Nodes -> BOOLEAN]
           /\ role' \in [Nodes -> HAState]
           /\ heard' \in [Nodes -> {"never", "recent", "stale"}]
           /\ generation' = generation /\ net' = net
  BY DEF Exit, TypeOK, InitialRole, HAState

LEMMA DemoteTypeOK ==
    ASSUME TypeOK, NEW n \in Nodes, _demote(n)
    PROVE  role' \in [Nodes -> HAState]
  BY DEF _demote, TypeOK, HAState

LEMMA ReceiveTypeOK ==
    ASSUME TypeOK, NEW n \in Nodes, NEW m \in net, receive_heartbeat(n, m)
    PROVE  TypeOK'
  <1>1. role' \in [Nodes -> HAState]
    <2>1. CASE _demote(n)
      BY <2>1, DemoteTypeOK
    <2>2. CASE role' = role
      BY <2>2 DEF TypeOK
    <2>3. CASE role' = [role EXCEPT ![n] = "FENCING"]
      BY <2>3 DEF TypeOK, HAState
    <2> QED
      BY <2>1, <2>2, <2>3 DEF receive_heartbeat, _resolve_split_brain
  <1> QED
    BY <1>1 DEF receive_heartbeat, TypeOK

LEMMA NextTypeOK ==
    ASSUME TypeOK, [Next]_vars
    PROVE  TypeOK'
  <1>1. ASSUME NEW n \in Nodes, SendHeartbeat(n) PROVE TypeOK'
    <2>1. [from |-> n, generation |-> generation[n], role |-> role[n]] \in Heartbeat
      BY DEF TypeOK, Heartbeat
    <2> QED
      BY <1>1, <2>1 DEF SendHeartbeat, TypeOK
  <1>2. ASSUME NEW n \in Nodes, HeartbeatTimeout(n) PROVE TypeOK'
    BY <1>2 DEF HeartbeatTimeout, TypeOK
  <1>3. ASSUME NEW n \in Nodes, MonitorPromote(n) PROVE TypeOK'
    BY <1>3, PromoteTypeOK DEF MonitorPromote
  <1>4. ASSUME NEW n \in Nodes, OperatorPromote(n) PROVE TypeOK'
    BY <1>4, PromoteTypeOK DEF OperatorPromote
  <1>5. ASSUME NEW n \in Nodes, OperatorDemote(n) PROVE TypeOK'
    BY <1>5, DemoteTypeOK DEF OperatorDemote, TypeOK
  <1>6. ASSUME NEW n \in Nodes, Crash(n) PROVE TypeOK'
    BY <1>6, ExitTypes DEF Crash, TypeOK
  <1>7. ASSUME NEW n \in Nodes, CrashWhilePersisting(n) PROVE TypeOK'
    BY <1>7, ExitTypes DEF CrashWhilePersisting, TypeOK, NoFile
  <1>12. ASSUME NEW n \in Nodes, start(n) \/ stop(n) PROVE TypeOK'
    BY <1>12 DEF start, stop, TypeOK
  <1>8. ASSUME NEW n \in Nodes, Restart(n) PROVE TypeOK'
    <2>1. load_generation(n) \in Nat \ {0} /\ InitialRole(n) \in HAState
      BY DEF load_generation, InitialRole, TypeOK, NoFile, HAState
    <2> QED
      BY <1>8, <2>1 DEF Restart, TypeOK
  <1>9. ASSUME NEW n \in Nodes, NEW m \in net, receive_heartbeat(n, m) PROVE TypeOK'
    BY <1>9, ReceiveTypeOK
  <1>10. ASSUME NEW m \in net, LoseHeartbeat(m) PROVE TypeOK'
    BY <1>10 DEF LoseHeartbeat, TypeOK
  <1>11. CASE UNCHANGED vars
    BY <1>11 DEF vars, TypeOK
  <1> QED
    BY <1>1, <1>2, <1>3, <1>4, <1>5, <1>6, <1>7, <1>8, <1>9, <1>10, <1>11, <1>12
       DEF Next

\* Every field of the two daemons keeps its type, faults included.
THEOREM HATypeCorrect == Spec => []TypeOK
  BY InitTypeOK, NextTypeOK, PTL DEF Spec

-----------------------------------------------------------------------------
(* Generations *)

\* What a step may do to a node whose file is not torn: nothing to the generation
\* and the file (or a restart that reads the same value back), a promotion, or a
\* write that fails or is cut short, which leaves the generation no lower.
GenerationStep ==
    \A n \in Nodes :
        ~torn[n] =>
            \/ generation'[n] = generation[n] /\ disk'[n] = disk[n] /\ ~torn'[n]
            \/ generation'[n] = generation[n] + 1 /\ disk'[n] = generation[n] + 1 /\ ~torn'[n]
            \/ torn'[n] /\ generation'[n] \in {generation[n], generation[n] + 1}

\* A torn write is remembered.
TornStays == \A n \in Nodes : torn[n] => torn'[n]

LEMMA StepsOfGeneration ==
    ASSUME TypeOK, FileCurrent, [Next]_vars
    PROVE  GenerationStep /\ TornStays
  <1>1. ASSUME NEW n \in Nodes, promote(n) PROVE GenerationStep /\ TornStays
    <2>1. PICK d \in PersistOutcomes(n, generation[n] + 1) :
                 /\ disk' = [disk EXCEPT ![n] = d]
                 /\ torn' = [torn EXCEPT ![n] = torn[n] \/ d # generation[n] + 1]
      BY <1>1 DEF promote
    <2>2. ASSUME NEW k \in Nodes, k # n
          PROVE  generation'[k] = generation[k] /\ disk'[k] = disk[k] /\ torn'[k] = torn[k]
      BY <1>1, <2>1, <2>2 DEF promote, TypeOK
    <2>3. generation'[n] = generation[n] + 1 /\ disk'[n] = d
      BY <1>1, <2>1 DEF promote, TypeOK
    <2>4. torn'[n] = (torn[n] \/ d # generation[n] + 1)
      BY <2>1, Zenon DEF TypeOK
    <2>5. TornStays
      BY <2>2, <2>4, Zenon DEF TornStays
    <2> QED
      BY <2>2, <2>3, <2>4, <2>5 DEF GenerationStep
  <1>2. ASSUME NEW n \in Nodes, Restart(n) PROVE GenerationStep /\ TornStays
    <2>1. ~torn[n] => load_generation(n) = generation[n]
      BY DEF load_generation, FileCurrent, TypeOK, NoFile
    <2>2. \A k \in Nodes : ~torn[k] => generation'[k] = generation[k]
      BY <1>2, <2>1 DEF Restart, TypeOK
    <2>3. disk' = disk /\ torn' = torn
      BY <1>2 DEF Restart
    <2> QED
      BY <2>2, <2>3 DEF GenerationStep, TornStays
  <1>3. ASSUME NEW n \in Nodes, CrashWhilePersisting(n) PROVE GenerationStep /\ TornStays
    <2>1. generation' = generation
      BY <1>3, ExitTypes DEF CrashWhilePersisting
    <2>2. torn'[n] /\ \A k \in Nodes : k # n => torn'[k] = torn[k] /\ disk'[k] = disk[k]
      BY <1>3 DEF CrashWhilePersisting, TypeOK
    <2> QED
      BY <2>1, <2>2 DEF GenerationStep, TornStays
  <1>4. CASE UNCHANGED <<generation, disk, torn>>
    BY <1>4 DEF GenerationStep, TornStays
  <1> QED
    BY <1>1, <1>2, <1>3, <1>4 DEF Next, vars, SendHeartbeat, HeartbeatTimeout,
       MonitorPromote, OperatorPromote, OperatorDemote, Crash, Exit, start, stop,
       receive_heartbeat, LoseHeartbeat

LEMMA GenerationStepMonotone ==
    ASSUME TypeOK, GenerationStep
    PROVE  \A n \in Nodes : ~torn[n] => generation'[n] >= generation[n]
  BY DEF TypeOK, GenerationStep

\* A heartbeat that reaches n comes from its peer, and claims no more than the peer
\* has reached if the peer's file is not torn.
LEMMA HeartbeatHonest ==
    ASSUME TypeOK, NetBehind, NEW n \in Nodes, NEW m \in net, Peer[m.from] = n
    PROVE  /\ m.from = Peer[n] /\ Peer[n] \in Nodes
           /\ m.generation \in Nat
           /\ ~torn[Peer[n]] => m.generation <= generation[Peer[n]]
  <1>1. m.from \in Nodes /\ m.generation \in Nat
    BY DEF TypeOK, Heartbeat
  <1>2. m.from = Peer[n] /\ Peer[n] \in Nodes
    BY <1>1, PeerAssumption
  <1> QED
    BY <1>1, <1>2 DEF NetBehind

LEMMA NextNetBehind ==
    ASSUME TypeOK, TypeOK', NetBehind, [Next]_vars,
           TornStays, \A n \in Nodes : ~torn[n] => generation'[n] >= generation[n]
    PROVE  NetBehind'
  <1>1. \A m \in net' : \/ m \in net
                        \/ m.from \in Nodes /\ m.generation = generation[m.from]
    <2>1. ASSUME NEW n \in Nodes, SendHeartbeat(n), NEW m \in net', m \notin net
          PROVE  m.from \in Nodes /\ m.generation = generation[m.from]
      <3>1. m = [from |-> n, generation |-> generation[n], role |-> role[n]]
        BY <2>1 DEF SendHeartbeat
      <3> QED
        BY <3>1
    <2>2. CASE net' \subseteq net
      BY <2>2
    <2> QED
      BY <2>1, <2>2 DEF Next, vars, HeartbeatTimeout, MonitorPromote,
         OperatorPromote, promote, OperatorDemote, Crash,
         CrashWhilePersisting, Exit, start, stop, Restart, receive_heartbeat, LoseHeartbeat
  <1> SUFFICES ASSUME NEW m \in net', ~torn'[m.from]
               PROVE  m.generation <= generation'[m.from]
    BY DEF NetBehind
  <1>2. m.from \in Nodes /\ m.generation \in Nat
    BY DEF TypeOK, Heartbeat
  <1>5. ~torn[m.from]
    BY <1>2 DEF TornStays
  <1>3. m.generation <= generation[m.from]
    BY <1>1, <1>2, <1>5 DEF NetBehind, TypeOK
  <1>4. generation[m.from] \in Nat /\ generation'[m.from] \in Nat
    BY <1>2 DEF TypeOK
  <1> QED
    BY <1>2, <1>3, <1>4, <1>5

\* Who is fenced was fenced before, at the same generation, or is fenced by this
\* step, by a heartbeat that claims its own generation.
LEMMA FencingSteps ==
    ASSUME TypeOK, [Next]_vars, NEW n \in Nodes, up'[n], role'[n] = "FENCING"
    PROVE  \/ up[n] /\ role[n] = "FENCING" /\ generation'[n] = generation[n]
           \/ /\ generation'[n] = generation[n]
              /\ \E m \in net : Peer[m.from] = n /\ m.generation = generation[n]
  <1> DEFINE Same == up[n] /\ role[n] = "FENCING" /\ generation'[n] = generation[n]
  <1>1. ASSUME NEW k \in Nodes, promote(k) PROVE Same
    BY <1>1 DEF promote, TypeOK
  <1>2. ASSUME NEW k \in Nodes, Restart(k) PROVE Same
    BY <1>2 DEF Restart, TypeOK, InitialRole
  <1>3. ASSUME NEW k \in Nodes, OperatorDemote(k) PROVE Same
    BY <1>3 DEF OperatorDemote, _demote, TypeOK
  <1>4. ASSUME NEW k \in Nodes, Exit(k) PROVE Same
    <2>1. ~up'[k] /\ (k # n => up'[n] = up[n] /\ role'[n] = role[n])
      BY <1>4, Zenon DEF Exit, TypeOK
    <2> QED
      BY <1>4, <2>1 DEF Exit
  <1>5. ASSUME NEW k \in Nodes, NEW m \in net, receive_heartbeat(k, m)
        PROVE  \/ Same
               \/ /\ generation'[n] = generation[n]
                  /\ Peer[m.from] = n /\ m.generation = generation[n]
    <2>1. generation' = generation /\ up' = up /\ Peer[m.from] = k /\ up[k]
      BY <1>5 DEF receive_heartbeat
    <2>2. CASE role[n] = "FENCING"
      BY <2>1, <2>2
    <2>3. CASE role[n] # "FENCING"
      <3>1. k = n /\ generation[n] = m.generation
        BY <1>5, <2>3 DEF receive_heartbeat, _resolve_split_brain, _demote, TypeOK
      <3> QED
        BY <2>1, <3>1
    <2> QED
      BY <2>2, <2>3
  <1>6. CASE UNCHANGED <<up, role, generation>>
    BY <1>6
  <1> QED
    BY <1>1, <1>2, <1>3, <1>4, <1>5, <1>6 DEF Next, vars, SendHeartbeat,
       HeartbeatTimeout, MonitorPromote, OperatorPromote, LoseHeartbeat,
       start, stop, Crash, CrashWhilePersisting

LEMMA NextFencedAreTied ==
    ASSUME HAInv, TypeOK', [Next]_vars,
           TornStays, \A n \in Nodes : ~torn[n] => generation'[n] >= generation[n]
    PROVE  FencedAreTied'
  <1> SUFFICES ASSUME NEW n \in Nodes, up'[n], role'[n] = "FENCING", ~torn'[Peer[n]]
               PROVE  generation'[n] <= generation'[Peer[n]]
    BY DEF FencedAreTied
  <1>1. Peer[n] \in Nodes /\ ~torn[Peer[n]]
    BY PeerAssumption DEF TornStays
  <1>2. /\ generation[n] \in Nat /\ generation[Peer[n]] \in Nat
        /\ generation'[n] \in Nat /\ generation'[Peer[n]] \in Nat
    BY <1>1 DEF HAInv, TypeOK
  <1>3. generation'[n] = generation[n] /\ generation[n] <= generation[Peer[n]]
    <2>1. CASE up[n] /\ role[n] = "FENCING" /\ generation'[n] = generation[n]
      BY <1>1, <2>1 DEF HAInv, FencedAreTied
    <2>2. CASE /\ generation'[n] = generation[n]
               /\ \E m \in net : Peer[m.from] = n /\ m.generation = generation[n]
      BY <1>1, <2>2, HeartbeatHonest DEF HAInv
    <2> QED
      BY <2>1, <2>2, FencingSteps DEF HAInv
  <1> QED
    BY <1>1, <1>2, <1>3

LEMMA NextHAInv ==
    ASSUME HAInv, [Next]_vars
    PROVE  HAInv'
  <1>1. TypeOK'
    BY NextTypeOK DEF HAInv
  <1>2. GenerationStep /\ TornStays
    BY StepsOfGeneration DEF HAInv
  <1>3. FileCurrent'
    BY <1>2 DEF HAInv, FileCurrent, GenerationStep, TornStays, TypeOK
  <1>4. \A n \in Nodes : ~torn[n] => generation'[n] >= generation[n]
    BY <1>2, GenerationStepMonotone DEF HAInv
  <1>5. NetBehind'
    BY <1>1, <1>2, <1>4, NextNetBehind DEF HAInv
  <1>6. FencedAreTied'
    BY <1>1, <1>2, <1>4, NextFencedAreTied
  <1> QED
    BY <1>1, <1>3, <1>5, <1>6 DEF HAInv

LEMMA InvariantHA == Spec => []HAInv
  <1>1. Init => HAInv
    <2> SUFFICES ASSUME Init PROVE HAInv
      OBVIOUS
    <2>1. FencedAreTied
      BY DEF Init, FencedAreTied, InitialRole
    <2> QED
      BY <2>1, InitTypeOK DEF Init, HAInv, FileCurrent, NetBehind
  <1>2. HAInv /\ [Next]_vars => HAInv'
    BY NextHAInv
  <1> QED
    BY <1>1, <1>2, PTL DEF Spec

\* The fencing token is monotonic through promotions, crashes and restarts, on every
\* node no write of whose generation file has failed or was cut short by a crash.
THEOREM GenerationsMonotone == Spec => GenerationMonotone
  <1>1. HAInv /\ [Next]_vars => 
            [\A n \in Nodes : ~torn[n] => generation'[n] >= generation[n]]_vars
    BY StepsOfGeneration, GenerationStepMonotone DEF HAInv
  <1> QED
    BY <1>1, InvariantHA, PTL DEF Spec, GenerationMonotone

\* A fenced node and a peer that kept its file have tied: nothing else leads to FENCING.
THEOREM FencedByTie == Spec => []FencedAreTied
  <1>1. HAInv => FencedAreTied
    BY DEF HAInv
  <1> QED
    BY <1>1, InvariantHA, PTL

\* No delayed, lost or overtaken heartbeat of a peer that kept its file makes the node with
\* the higher generation step down.
THEOREM OutrankedStepDown == Spec => OnlyOutrankedStepDown
  <1> DEFINE Goal == \A n \in Nodes :
                (net' # net /\ role[n] = "ACTIVE" /\ role'[n] = "STANDBY" /\ ~torn[Peer[n]])
                    => generation[n] < generation[Peer[n]]
  <1>1. ASSUME HAInv, Next PROVE Goal
    <2> SUFFICES ASSUME NEW n \in Nodes, net' # net, role[n] = "ACTIVE",
                        role'[n] = "STANDBY", ~torn[Peer[n]]
                 PROVE  generation[n] < generation[Peer[n]]
      OBVIOUS
    <2>1. ASSUME NEW k \in Nodes, NEW m \in net, receive_heartbeat(k, m)
          PROVE  generation[n] < generation[Peer[n]]
      <3>1. k = n /\ Peer[m.from] = n
        BY <1>1, <2>1 DEF receive_heartbeat, _resolve_split_brain, _demote, HAInv, TypeOK
      <3>2. generation[n] < m.generation
        BY <1>1, <2>1, <3>1 DEF receive_heartbeat, _resolve_split_brain, HAInv, TypeOK
      <3>3. Peer[n] \in Nodes /\ m.generation \in Nat /\ m.generation <= generation[Peer[n]]
        BY <1>1, <3>1, HeartbeatHonest DEF HAInv
      <3>4. generation[n] \in Nat /\ generation[Peer[n]] \in Nat
        BY <1>1, <3>3 DEF HAInv, TypeOK
      <3> QED
        BY <3>2, <3>3, <3>4
    <2>2. ASSUME NEW m \in net, LoseHeartbeat(m) PROVE FALSE
      BY <2>2 DEF LoseHeartbeat
    <2>3. ASSUME NEW k \in Nodes, SendHeartbeat(k) PROVE FALSE
      BY <2>3 DEF SendHeartbeat
    <2> QED
      BY <1>1, <2>1, <2>2, <2>3 DEF Next, HeartbeatTimeout, MonitorPromote,
         OperatorPromote, promote, OperatorDemote, Crash,
         CrashWhilePersisting, Exit, start, stop, Restart
  <1>2. HAInv /\ [Next]_vars => [Goal]_vars
    BY <1>1
  <1> QED
    BY <1>2, InvariantHA, PTL DEF Spec, OnlyOutrankedStepDown
=============================================================================
