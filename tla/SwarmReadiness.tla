---------------------------- MODULE SwarmReadiness ----------------------------
(***************************************************************************)
(* Whether a swarm service may be updated at all.  Every snapshot of a     *)
(* host records its swarm role and, for a manager, whether the services    *)
(* API can be used (probeServices of internal/dockerx/swarm.go, which      *)
(* keeps an answer for five minutes).  The controller stores both, and     *)
(* updateBlockedReason of internal/server/api_handlers.go refuses an       *)
(* update on what is stored.                                               *)
(*                                                                         *)
(* Snapshots of one host may overlap: the loop's, the one made when an     *)
(* endpoint is added or edited.  They share the host's probe, whose lock   *)
(* is not held during the call.                                            *)
(***************************************************************************)
EXTENDS Integers

CONSTANTS
  Engines,    \* hosts the controller polls itself: local or direct
  Agents,     \* hosts whose agent reports them
  Snapshots,  \* snapshots of a polled host that may be in flight together
  MaxChanges  \* bound: changes of role and permission

ASSUME ChangesAssumption == MaxChanges \in Nat
ASSUME HostsAssumption == Engines \cap Agents = {} /\ Snapshots # {}

Hosts == Engines \cup Agents

\* An agent is one loop: it takes one snapshot after the other.
InFlight(h) == IF h \in Engines THEN Snapshots ELSE {CHOOSE s \in Snapshots : TRUE}

Roles == {"none", "worker", "manager"}

VARIABLES
  role,     \* host -> its position in the swarm
  granted,  \* hosts whose proxy allows the services API
  cap,      \* host -> swarmCapability: is the last answer recent, and what was it
  stage,    \* host -> snapshot -> "rest", "probe", "answered" or "store"
  seen,     \* host -> snapshot -> what it found
  row,      \* host -> swarm_role and swarm_services of its row
  denied,   \* history: hosts where an update was denied and still would be
  changes   \* changes so far

readiness == <<role, granted, cap, stage, seen, row, denied, changes>>

Finding == [role : Roles, services : BOOLEAN]

ReadinessTypeOK ==
  /\ role \in [Hosts -> Roles]
  /\ granted \subseteq Hosts
  /\ cap \in [Hosts -> [recent : BOOLEAN, ok : BOOLEAN]]
  /\ stage \in [Hosts -> [Snapshots -> {"rest", "probe", "answered", "store"}]]
  /\ seen \in [Hosts -> [Snapshots -> Finding]]
  /\ \A h \in Hosts, s \in Snapshots :
       stage[h][s] \in {"probe", "answered"} => seen[h][s].role = "manager"
  /\ row \in [Hosts -> Finding]
  /\ denied \subseteq Hosts \ granted
  /\ changes \in 0..MaxChanges

Nothing == [role |-> "none", services |-> FALSE]

ReadinessInit ==
  /\ role \in [Hosts -> Roles]
  /\ granted \in SUBSET Hosts
  /\ cap = [h \in Hosts |-> [recent |-> FALSE, ok |-> FALSE]]
  /\ stage = [h \in Hosts |-> [s \in Snapshots |-> "rest"]]
  /\ seen = [h \in Hosts |-> [s \in Snapshots |-> Nothing]]
  /\ row = [h \in Hosts |-> Nothing]
  /\ denied = {}
  /\ changes = 0

-----------------------------------------------------------------------------
MoveOn(h, s, label) == stage' = [stage EXCEPT ![h][s] = label]

Found(h, s, r, services) ==
  /\ seen' = [seen EXCEPT ![h][s] = [role |-> r, services |-> services]]
  /\ MoveOn(h, s, "store")

\* A snapshot reads the role and, when the kept answer may be used, that answer.
LookWith(h, s, asManager, kept) ==
  /\ stage[h][s] = "rest"
  /\ IF ~asManager THEN Found(h, s, role[h], FALSE)
     ELSE IF kept THEN Found(h, s, role[h], cap[h].ok)
     ELSE /\ seen' = [seen EXCEPT ![h][s] = [role |-> role[h], services |-> FALSE]]
          /\ MoveOn(h, s, "probe")
  /\ UNCHANGED <<role, granted, cap, row, denied, changes>>

\* Faulty variant of Look: the role is looked at only after the kept answer.
Look_KeptFirst(h, s) == LookWith(h, s, role[h] = "manager" \/ cap[h].recent, cap[h].recent)

\* Info, then probeServices up to the call: only a manager can say yes.
Look(h, s) == LookWith(h, s, role[h] = "manager", cap[h].recent)

\* ServiceList answers, or is denied.
Probe(h, s) ==
  /\ stage[h][s] = "probe"
  /\ seen' = [seen EXCEPT ![h][s].services = h \in granted]
  /\ MoveOn(h, s, "answered")
  /\ UNCHANGED <<role, granted, cap, row, denied, changes>>

\* The answer is kept, whenever it was given.
Keep(h, s) ==
  /\ stage[h][s] = "answered"
  /\ cap' = [cap EXCEPT ![h] = [recent |-> TRUE, ok |-> seen[h][s].services]]
  /\ MoveOn(h, s, "store")
  /\ UNCHANGED <<role, granted, seen, row, denied, changes>>

\* snapshotLocal and snapshotDirect store what was found; handleAgentReport puts
\* what the row says already in its place.
Store(h, s) ==
  /\ stage[h][s] = "store"
  /\ row' = IF h \in Engines THEN [row EXCEPT ![h] = seen[h][s]] ELSE row
  /\ MoveOn(h, s, "rest")
  /\ UNCHANGED <<role, granted, cap, seen, denied, changes>>

LapseIf(h, expires) ==
  /\ cap[h].recent
  /\ expires
  /\ cap' = [cap EXCEPT ![h].recent = FALSE]
  /\ UNCHANGED <<role, granted, stage, seen, row, denied, changes>>

\* Faulty variant of Lapse: a denial is kept for good.
Lapse_OnlyYes(h) == LapseIf(h, cap[h].ok)

\* swarmCapabilityTTL passes, for either answer.
Lapse(h) == LapseIf(h, TRUE)

Admits(h) == row[h].role = "manager" /\ row[h].services

\* An update the row admits and the proxy denies: ErrSwarmDisabled.
Denied(h) ==
  /\ Admits(h)
  /\ h \notin granted
  /\ denied' = denied \cup {h}
  /\ UNCHANGED <<role, granted, cap, stage, seen, row, changes>>

\* The operator changes the proxy, or the host's place in the swarm.
Change(h) ==
  /\ changes < MaxChanges
  /\ changes' = changes + 1
  /\ \/ granted' = (granted \ {h}) \cup ({h} \ granted) /\ UNCHANGED role
     \/ \E r \in Roles \ {role[h]} : role' = [role EXCEPT ![h] = r] /\ UNCHANGED granted
  /\ denied' = denied \ {h}
  /\ UNCHANGED <<cap, stage, seen, row>>

Snapshot(h, s) == Look(h, s) \/ Probe(h, s) \/ Keep(h, s) \/ Store(h, s)

ReadinessNext ==
  \E h \in Hosts :
    Lapse(h) \/ Denied(h) \/ Change(h) \/ \E s \in InFlight(h) : Snapshot(h, s)

ReadinessSpec == ReadinessInit /\ [][ReadinessNext]_readiness

\* Every host is polled, or reports, again and again, and time passes.
ReadinessFairSpec ==
  /\ ReadinessSpec
  /\ \A h \in Hosts : WF_readiness(Lapse(h)) /\ \A s \in InFlight(h) : WF_readiness(Snapshot(h, s))

-----------------------------------------------------------------------------
(* Properties.                                                             *)

\* A row says that services can be updated only of a host that was a manager in
\* the same snapshot, also when the kept answer is from before it was demoted.
OnlyManagersServe == \A h \in Hosts : row[h].services => row[h].role = "manager"

Ready(h) == role[h] = "manager" /\ h \in granted

\* A change the operator makes on a host the controller polls is picked up, in
\* both directions (swarm.go: enabling the API in the proxy is picked up without
\* an app restart).
ChangeNoticed ==
  \A h \in Engines : /\ <>[]Ready(h) => <>[]Admits(h)
                     /\ <>[](~Ready(h)) => <>[](~Admits(h))

\* The same of a host with an agent (README: update the agent on any swarm host
\* before using the feature).
AgentReadinessNoticed == \A h \in Agents : <>[]Ready(h) => <>[]Admits(h)

\* After an update was denied the kept answer is not yes: a permission change is
\* noticed as soon as it is acted on (swarm.go, invalidateSwarmCapability).
DenialNoticed == \A h \in denied : ~(cap[h].recent /\ cap[h].ok)
=============================================================================
