--------------------------- MODULE CassandraSession ---------------------------
(***************************************************************************)
(* apps/core/cassandra_session.py: the one session of a service process,   *)
(* the thread that connects it (start_poller, _poll_loop, connect) and the *)
(* readiness every request asks for first (is_ready).                      *)
(*                                                                         *)
(* Only the poller calls connect, and only start_poller takes the lock     *)
(* besides, so the lock never keeps anyone waiting and is left out;        *)
(* nothing calls shutdown.  The hosts and the driver are not of this code: *)
(* a Cluster whose control connection fails shuts itself down, one that    *)
(* has it and gets no session stays open.                                  *)
(***************************************************************************)
EXTENDS Naturals

CONSTANTS
  KeyspaceAtStart,  \* whether the schema is loaded before the service starts
  LevelKnown,       \* whether CONSISTENCY_LEVEL is one the driver has
  MaxMisses         \* bound: attempts that got a control connection and no session

ASSUME SessionSettings ==
  KeyspaceAtStart \in BOOLEAN /\ LevelKnown \in BOOLEAN /\ MaxMisses \in Nat

VARIABLES
  up,             \* whether the driver sees a host that is up
  keyspace,       \* whether KEYSPACE exists
  poller,         \* where the poller is
  session,        \* whether _session is set
  ready,          \* _ready
  open,           \* how many Clusters are open
  misses          \* observer: attempts that got a control connection and no session

hostVars == <<up, keyspace>>
pollVars == <<poller, session, ready, open, misses>>
sessionVars == <<up, keyspace, poller, session, ready, open, misses>>

SessionInit ==
  /\ up \in BOOLEAN
  /\ keyspace = KeyspaceAtStart
  /\ poller = "none"
  /\ session = FALSE
  /\ ready = FALSE
  /\ open = 0
  /\ misses = 0

\* Mutant: a host that is up is enough.
IsReadyUp == up

\* The session exists and the driver sees a host that is up.
IsReady == session /\ up

\* Hosts go down and come back.  The bound holds for attempts they spoil.
HostsChange ==
  /\ poller = "session" => misses < MaxMisses
  /\ up' = ~up
  /\ UNCHANGED <<keyspace, pollVars>>

\* The schema is loaded.
CreateKeyspace ==
  /\ ~keyspace
  /\ keyspace' = TRUE
  /\ UNCHANGED <<up, pollVars>>

\* Once per process: a second call finds _poller_started set.
StartPoller ==
  /\ poller = "none"
  /\ poller' = "poll"
  /\ UNCHANGED <<hostVars, session, ready, open, misses>>

\* Mutant: the loop asks is_ready, and connect does not look for a session.
PollUnready ==
  /\ poller = "poll"
  /\ ~IsReady
  /\ poller' = "connect"
  /\ UNCHANGED <<hostVars, session, ready, open, misses>>

\* One turn of the loop, up to the check under the lock.
Poll ==
  /\ poller = "poll"
  /\ ~ready
  /\ IF session THEN UNCHANGED poller ELSE poller' = "connect"
  /\ UNCHANGED <<hostVars, session, ready, open, misses>>

\* Mutant: an exception ends the thread.
AttemptFailedForGood == poller' = "dead" /\ ready' = FALSE

\* Any exception is logged, and the loop goes on.
AttemptFailed == poller' = "poll" /\ ready' = FALSE

\* The Cluster and its control connection.
OpenCluster ==
  /\ poller = "connect"
  /\ IF up
       THEN /\ misses < MaxMisses \/ (keyspace /\ LevelKnown)
            /\ open' = open + 1
            /\ poller' = "session"
            /\ UNCHANGED ready
       ELSE /\ AttemptFailed
            /\ UNCHANGED open
  /\ UNCHANGED <<hostVars, session, misses>>

\* The session in its keyspace and its consistency level; the globals are set when
\* both are there.
OpenSession ==
  /\ poller = "session"
  /\ IF up /\ keyspace /\ LevelKnown
       THEN /\ session' = TRUE
            /\ ready' = TRUE
            /\ poller' = "poll"
            /\ UNCHANGED misses
       ELSE /\ AttemptFailed
            /\ misses' = misses + 1
            /\ UNCHANGED session
  /\ UNCHANGED <<hostVars, open>>

PollerStep == StartPoller \/ Poll \/ OpenCluster \/ OpenSession

SessionNext == HostsChange \/ CreateKeyspace \/ PollerStep

SessionSpec == SessionInit /\ [][SessionNext]_sessionVars

------------------------------------------------------------------------------
\* Properties.

PollerSteps == {"none", "poll", "connect", "session"}

SessionTypeOK ==
  /\ up \in BOOLEAN /\ keyspace \in BOOLEAN
  /\ poller \in PollerSteps
  /\ session \in BOOLEAN /\ ready \in BOOLEAN
  /\ open \in Nat /\ misses \in Nat

\* "Single shared Cassandra Cluster/Session": besides the one in use, the Clusters that
\* stay open are those of attempts that missed the keyspace, the level or the hosts
\* half-way.  Waiting for hosts that are down, however often they come and go, and
\* losing them later never leaves one open.
OneClusterOpen ==
  /\ open <= misses + 1
  /\ session => open = misses + 1

\* A service that starts before its hosts or its schema are there, or that loses its
\* hosts, is ready in the end when they stay.
ServiceComesUp == (<>[]up /\ <>keyspace) => <>[]IsReady
==============================================================================
