--------------------------- MODULE MCRuntimeFleet ---------------------------
(***************************************************************************)
(* Configurations for TLC: exclusive runtimes, shared ones whose candidate *)
(* walks overlap, and shared ones with an exact id.                        *)
(***************************************************************************)
EXTENDS RuntimeFleet, Sequences

Exclusive == [mode |-> "exclusive", session_id |-> NoId, offset |-> 0]
ExactExclusive == [mode |-> "exclusive", session_id |-> 0, offset |-> 0]
SharedFrom(i) == [mode |-> "shared", session_id |-> NoId, offset |-> i]
ExactShared == [mode |-> "shared", session_id |-> 0, offset |-> 0]

ConfigList ==
  << SharedFrom(0), SharedFrom(PoolSize - 1), ExactShared, Exclusive, ExactExclusive >>

FleetConfigs == { ConfigList[i] : i \in DOMAIN ConfigList }

\* The processes, numbers here, are interchangeable: of the initial states that
\* differ by a permutation of them, TLC gets the one that is in order.
MCFleetInit ==
  /\ FleetInit
  /\ \E rank \in [Process -> DOMAIN ConfigList] :
       \A p, q \in Process :
         config[p] = ConfigList[rank[p]] /\ (p <= q => rank[p] <= rank[q])

MCFleetSpec ==
  MCFleetInit /\ [][FleetNext]_fleetVars /\ \A p \in Process : WF_fleetVars(Connect(p))

=============================================================================
