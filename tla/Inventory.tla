------------------------------- MODULE Inventory -------------------------------
(***************************************************************************)
(* The rows of servers and their containers: internal/store/entities.go    *)
(* and extra.go, the loops of internal/server/server.go that refresh them, *)
(* the pool of internal/server/endpoints.go, the reports of agents and     *)
(* what an operator does to a server (internal/server/api_handlers.go).    *)
(*                                                                         *)
(* A refresh reads a row, looks at the host it names and stores what it    *)
(* saw there under the row's id; the row may have been renamed, pointed to *)
(* another host or deleted in the meantime.  The snapshot loop refreshes   *)
(* the local host and the direct endpoints one after the other, a          *)
(* goroutine refreshes an endpoint that was just created or edited, and    *)
(* agents report for themselves.                                           *)
(*                                                                         *)
(* Server ids are unique for ever.  A machine is an endpoint's address, or *)
(* the server itself where the address is of no interest.                  *)
(***************************************************************************)
EXTENDS Integers, FiniteSets

CONSTANTS
  Local,        \* the id of the local host's row
  Directs,      \* ids of servers that are polled at an endpoint
  Agents,       \* ids of servers whose agent reports
  Endpoints,    \* addresses of endpoints
  Containers,   \* containers, by their Docker id
  Home,         \* container -> the machine that runs it
  Goroutines,   \* bound: refreshes under way besides the loop's
  MaxChanges    \* bound: what operators, hosts and restarts do

NoHost   == "nowhere"
Servers  == {Local} \cup Directs \cup Agents
Machines == Endpoints \cup Agents \cup {Local}
Hosts    == Endpoints \cup {NoHost}
Names    == {"hostname", "first", "second"}
Loop     == "loop"
Pollers  == Goroutines \cup {Loop}

ASSUME ServerAssumption == Local \notin Directs \cup Agents /\ Directs \cap Agents = {}
ASSUME HomeAssumption == Home \in [Containers -> Machines]
ASSUME HostAssumption == NoHost \notin Machines
ASSUME BoundAssumption == MaxChanges \in Nat

VARIABLES
  row,       \* the servers table, with the containers of each
  pool,      \* server -> the client kept for it: the address it was built for
  todo,      \* copies of rows the loop's pass has yet to refresh
  poll,      \* poller -> the refresh it is at
  report,    \* agent -> its report
  edit,      \* the handler of an operator's edit
  forget,    \* deleted servers whose client is still kept
  marks,     \* servers the offline marker is about to mark
  there,     \* containers that exist
  gone,      \* containers that were removed
  up,        \* machines that answer
  broken,    \* endpoints whose TLS files cannot be loaded
  deleted,   \* history: servers an operator deleted
  changes    \* changes so far

handlers == <<pool, todo, poll, report, edit, forget, marks>>
world    == <<there, gone, up, broken>>
vars     == <<row, handlers, world, deleted, changes>>

RowType ==
  [kind : {"none", "local", "direct", "agent"}, host : Hosts, token : BOOLEAN, name : Names,
   chosen : BOOLEAN, online : BOOLEAN, recent : BOOLEAN, shows : SUBSET Containers, pins : SUBSET Containers]

\* A row as a handler read it.  late: history, the row was refreshed by
\* somebody else or pointed elsewhere since.
CopyType == [id : Servers, host : Hosts, name : Names, late : BOOLEAN]

PollType == [at : {"idle", "get", "take", "name", "store", "list"}, copy : CopyType,
             via : Machines \cup {NoHost}, seen : SUBSET Containers, missed : SUBSET Containers]

\* A client that could not be built is kept as well.
Client   == [host : Hosts, usable : BOOLEAN]
NoClient == [host |-> NoHost, usable |-> TRUE]

NoRow == [kind |-> "none", host |-> NoHost, token |-> FALSE, name |-> "hostname", chosen |-> FALSE,
          online |-> FALSE, recent |-> FALSE, shows |-> {}, pins |-> {}]

Exists(s) == row[s].kind # "none"

CopyOf(s)  == [id |-> s, host |-> row[s].host, name |-> row[s].name, late |-> FALSE]
Idle       == [at |-> "idle", copy |-> [id |-> Local, host |-> NoHost, name |-> "hostname", late |-> FALSE],
               via |-> NoHost, seen |-> {}, missed |-> {}]
NoReport   == [at |-> "idle", seen |-> {}, missed |-> {}]
NoEdit     == [at |-> "idle", id |-> Local, name |-> "hostname", host |-> NoHost]
RunsOn(m)  == {c \in there : Home[c] = m}

TypeOK ==
  /\ row \in [Servers -> RowType]
  /\ \A s \in Servers : row[s].pins \subseteq row[s].shows
  /\ \A s \in Servers : row[s].kind \in {"none", IF s = Local THEN "local" ELSE IF s \in Directs THEN "direct" ELSE "agent"}
  /\ pool \in [Directs -> Client]
  /\ todo \subseteq CopyType
  /\ poll \in [Pollers -> PollType]
  /\ report \in [Agents -> [at : {"idle", "sent", "read"}, seen : SUBSET Containers, missed : SUBSET Containers]]
  /\ edit \in [at : {"idle", "name", "endpoint", "prime"}, id : Servers, name : Names, host : Hosts]
  /\ forget \subseteq Directs /\ marks \subseteq Servers \ {Local}
  /\ there \subseteq Containers /\ gone \subseteq Containers \ there
  /\ up \subseteq Machines /\ broken \subseteq Endpoints
  /\ deleted \subseteq Directs \cup Agents
  /\ changes \in 0..MaxChanges

FreshRow(s) ==
  CASE s = Local -> [NoRow EXCEPT !.kind = "local", !.online = TRUE, !.recent = TRUE]
    [] s \in Directs -> [NoRow EXCEPT !.kind = "direct", !.name = "first", !.chosen = TRUE]
    [] s \in Agents -> [NoRow EXCEPT !.kind = "agent", !.name = "first", !.token = TRUE]

\* The process starts: New, and MarkAllOffline of Run.
Init ==
  /\ \E some \in SUBSET (Servers \ {Local}), at \in [Directs -> Endpoints] :
       row = [s \in Servers |-> IF s \notin some \cup {Local} THEN NoRow
                                ELSE IF s \in Directs THEN [FreshRow(s) EXCEPT !.host = at[s]]
                                ELSE FreshRow(s)]
  /\ pool = [s \in Directs |-> NoClient]
  /\ todo = {}
  /\ poll = [p \in Pollers |-> Idle]
  /\ report = [a \in Agents |-> NoReport]
  /\ edit = NoEdit
  /\ forget = {} /\ marks = {}
  /\ there \in SUBSET Containers /\ gone = {}
  /\ up \in {Machines \ Agents, Machines \ Endpoints} /\ broken = {}
  /\ deleted = {}
  /\ changes = 0

-----------------------------------------------------------------------------
(* Storing what was seen.                                                  *)

\* ReplaceServerSnapshot: a row that is there keeps its kind, its endpoint,
\* its token, a name that was chosen and the pins of the containers it still
\* has; one that is not is inserted, without endpoint and token.
UpsertNamed(old, copy, kind, seen, name, pins) ==
  IF old.kind = "none"
  THEN [NoRow EXCEPT !.kind = kind, !.name = copy.name, !.chosen = (kind = "direct"),
                     !.online = TRUE, !.recent = TRUE, !.shows = seen]
  ELSE [old EXCEPT !.name = name, !.online = TRUE, !.recent = TRUE, !.shows = seen, !.pins = pins]

KeptName(old, copy) == IF old.chosen THEN old.name ELSE copy.name

\* Faulty variants of Upsert: the reported name wins; a known container is
\* stored as it was reported; the pins of removed containers stay; the
\* endpoint is inserted with the rest; only a new row is set online.
Upsert_TakesName(old, copy, kind, seen) == UpsertNamed(old, copy, kind, seen, copy.name, old.pins \cap seen)
Upsert_ForgetsPins(old, copy, kind, seen) == UpsertNamed(old, copy, kind, seen, KeptName(old, copy), {})
Upsert_KeepsRemoved(old, copy, kind, seen) == UpsertNamed(old, copy, kind, seen, KeptName(old, copy), old.pins)
Upsert_InsertsEndpoint(old, copy, kind, seen) ==
  [UpsertNamed(old, copy, kind, seen, KeptName(old, copy), old.pins \cap seen)
     EXCEPT !.host = IF old.kind = "none" THEN copy.host ELSE old.host]

Upsert(old, copy, kind, seen) == UpsertNamed(old, copy, kind, seen, KeptName(old, copy), old.pins \cap seen)

\* What else was read from the row is late now.
Overtaken(c, s) == IF c.id = s THEN [c EXCEPT !.late = TRUE] ELSE c

Store(s, copy, kind, seen) == row' = [row EXCEPT ![s] = Upsert(row[s], copy, kind, seen)]

-----------------------------------------------------------------------------
(* The refreshes of this process: snapshotAll, snapshotLocal and           *)
(* snapshotDirect.                                                         *)

Change == changes < MaxChanges /\ changes' = changes + 1

\* Snapshot: what the machine runs, without the containers whose inspection
\* failed.  missed: history, those.
Snapshot(m, seen) ==
  /\ seen \subseteq RunsOn(m)
  /\ IF seen = RunsOn(m) THEN UNCHANGED changes ELSE Change
Missed(m, seen) == RunsOn(m) \ seen

\* A poller whose refresh is over.
Over(p) == [Idle EXCEPT !.at = IF p = Loop /\ poll[p].copy.id = Local THEN "list" ELSE "idle"]

\* A pass starts with the local host and its Snapshot.
StartPass ==
  /\ poll[Loop].at = "idle" /\ todo = {}
  /\ \/ /\ Local \in up
        /\ \E seen \in SUBSET Containers :
             /\ Snapshot(Local, seen)
             /\ poll' = [poll EXCEPT ![Loop] = [at |-> "name", copy |-> CopyOf(Local), via |-> Local,
                                              seen |-> seen, missed |-> Missed(Local, seen)]]
     \/ /\ Local \notin up
        /\ poll' = [poll EXCEPT ![Loop] = [Idle EXCEPT !.at = "list"]]
        /\ UNCHANGED changes
  /\ UNCHANGED <<row, pool, todo, report, edit, forget, marks, world, deleted>>

\* snapshotLocal keeps the name an operator chose.
ReadName ==
  /\ poll[Loop].at = "name"
  /\ poll' = [poll EXCEPT ![Loop].at = "store",
                          ![Loop].copy.name = IF row[Local].chosen THEN row[Local].name ELSE "hostname"]
  /\ UNCHANGED <<row, pool, todo, report, edit, forget, marks, world, deleted, changes>>

\* ListServersByKind: the direct endpoints as they are now.
List ==
  /\ poll[Loop].at = "list"
  /\ todo' = {CopyOf(s) : s \in {d \in Directs : Exists(d)}}
  /\ poll' = [poll EXCEPT ![Loop] = Idle]
  /\ UNCHANGED <<row, pool, report, edit, forget, marks, world, deleted, changes>>

NextServer ==
  /\ poll[Loop].at = "idle"
  /\ \E c \in todo :
       /\ todo' = todo \ {c}
       /\ poll' = [poll EXCEPT ![Loop] = [Idle EXCEPT !.at = "get", !.copy = c]]
  /\ UNCHANGED <<row, pool, report, edit, forget, marks, world, deleted, changes>>

\* endpointPool.get: a client that was built for another address is replaced.
\* One that could not be built stays so for as long as the address does.
GetIf(p, kept) ==
  LET c == poll[p].copy IN
  /\ poll[p].at = "get"
  /\ pool' = [pool EXCEPT ![c.id] = IF kept THEN @ ELSE [host |-> c.host, usable |-> c.host \in Endpoints \ broken]]
  /\ poll' = [poll EXCEPT ![p] = IF pool'[c.id].usable THEN [@ EXCEPT !.at = "take", !.via = pool'[c.id].host]
                                  ELSE Over(p)]
  /\ UNCHANGED <<row, todo, report, edit, forget, marks, world, deleted, changes>>

\* Faulty variant of Get: a client is kept by the server's id alone.
Get_ById(p) == GetIf(p, pool[poll[p].copy.id] # NoClient)

Get(p) ==
  LET client == pool[poll[p].copy.id] IN
  GetIf(p, client # NoClient /\ client.host = poll[p].copy.host)

\* The machine is looked at, or does not answer.
Take(p) ==
  LET m == poll[p].via IN
  /\ poll[p].at = "take"
  /\ \/ /\ m \in up
        /\ \E seen \in SUBSET Containers :
             /\ Snapshot(m, seen)
             /\ poll' = [poll EXCEPT ![p].at = "store", ![p].seen = seen, ![p].missed = Missed(m, seen)]
     \/ /\ m \notin up
        /\ poll' = [poll EXCEPT ![p] = Over(p)]
        /\ UNCHANGED changes
  /\ UNCHANGED <<row, pool, todo, report, edit, forget, marks, world, deleted>>

Save(p) ==
  LET s == poll[p].copy.id IN
  /\ poll[p].at = "store"
  /\ Store(s, poll[p].copy, IF s = Local THEN "local" ELSE "direct", poll[p].seen)
  /\ poll' = [q \in Pollers |-> IF q = p THEN Over(p)
                                ELSE [poll[q] EXCEPT !.copy = Overtaken(@, s)]]
  /\ todo' = {Overtaken(c, s) : c \in todo}
  /\ UNCHANGED <<pool, report, edit, forget, marks, world, deleted, changes>>

Poll(p) == Get(p) \/ Take(p) \/ Save(p)

-----------------------------------------------------------------------------
(* Reports of agents: reportOnce of the agent, handleAgentReport.          *)

Report(a) ==
  /\ report[a].at = "idle"
  /\ a \in up
  /\ \E seen \in SUBSET Containers :
       /\ Snapshot(a, seen)
       /\ report' = [report EXCEPT ![a] = [at |-> "sent", seen |-> seen, missed |-> Missed(a, seen)]]
  /\ UNCHANGED <<row, pool, todo, poll, edit, forget, marks, world, deleted>>

\* serverFromBearer: the row with the agent's token.
Authenticate(a) ==
  /\ report[a].at = "sent"
  /\ report' = [report EXCEPT ![a].at = IF row[a].token THEN "read" ELSE "idle"]
  /\ UNCHANGED <<row, pool, todo, poll, edit, forget, marks, world, deleted, changes>>

SaveReport(a) ==
  /\ report[a].at = "read"
  /\ Store(a, [id |-> a, host |-> NoHost, name |-> "hostname", late |-> FALSE], "agent", report[a].seen)
  /\ report' = [report EXCEPT ![a] = NoReport]
  /\ UNCHANGED <<pool, todo, poll, edit, forget, marks, world, deleted, changes>>

-----------------------------------------------------------------------------
(* The offline marker.                                                     *)

\* effectiveOnline
EffectiveOnline(r) == r.kind = "local" \/ (r.online /\ r.recent)

MarkList ==
  /\ marks = {}
  /\ marks' = {s \in Servers \ {Local} : Exists(s) /\ row[s].online /\ ~row[s].recent}
  /\ marks' # {}
  /\ UNCHANGED <<row, pool, todo, poll, report, edit, forget, world, deleted, changes>>

Mark(s) ==
  /\ s \in marks
  /\ marks' = marks \ {s}
  /\ row' = [row EXCEPT ![s].online = FALSE]
  /\ UNCHANGED <<pool, todo, poll, report, edit, forget, world, deleted, changes>>

-----------------------------------------------------------------------------
(* What an operator does.                                                  *)

\* A refresh of the server in a goroutine of its own.
Spawn(copy) ==
  \E g \in Goroutines :
    /\ poll[g].at = "idle"
    /\ poll' = [poll EXCEPT ![g] = [Idle EXCEPT !.at = "get", !.copy = copy]]

\* handleCreateServer; validateEndpoint asks for files that can be read.
CreateDirect(s, e) ==
  /\ ~Exists(s) /\ s \notin deleted
  /\ e \notin broken
  /\ row' = [row EXCEPT ![s] = [FreshRow(s) EXCEPT !.host = e]]
  /\ Spawn([id |-> s, host |-> e, name |-> "first", late |-> FALSE])
  /\ Change
  /\ UNCHANGED <<pool, todo, report, edit, forget, marks, world, deleted>>

CreateAgent(s) ==
  /\ ~Exists(s) /\ s \notin deleted
  /\ row' = [row EXCEPT ![s] = FreshRow(s)]
  /\ Change
  /\ UNCHANGED <<handlers, world, deleted>>

\* handleUpdateServer: it reads the row, ...
Edit(s, n, e) ==
  /\ edit.at = "idle"
  /\ Exists(s)
  /\ edit' = [at |-> "name", id |-> s, name |-> n, host |-> IF s \in Directs THEN e ELSE NoHost]
  /\ Change
  /\ UNCHANGED <<row, pool, todo, poll, report, forget, marks, world, deleted>>

\* ... names it, and is done unless it was given an endpoint, ...
EditName ==
  /\ edit.at = "name"
  /\ row' = [row EXCEPT ![edit.id] = IF Exists(edit.id) THEN [@ EXCEPT !.name = edit.name, !.chosen = TRUE] ELSE @]
  /\ edit' = IF edit.host = NoHost THEN NoEdit ELSE [edit EXCEPT !.at = "endpoint"]
  /\ UNCHANGED <<pool, todo, poll, report, forget, marks, world, deleted, changes>>

\* ... points it there, if that is valid, ...
EditEndpoint ==
  /\ edit.at = "endpoint"
  /\ IF edit.host \in broken
     THEN edit' = NoEdit /\ UNCHANGED <<row, todo, poll, deleted>>
     ELSE /\ row' = [row EXCEPT ![edit.id].host = IF Exists(edit.id) THEN edit.host ELSE @]
          /\ todo' = {Overtaken(c, edit.id) : c \in todo}
          /\ poll' = [p \in Pollers |-> [poll[p] EXCEPT !.copy = Overtaken(@, edit.id)]]
          /\ deleted' = IF Exists(edit.id) THEN deleted \ {edit.id} ELSE deleted
          /\ edit' = [edit EXCEPT !.at = "prime"]
  /\ UNCHANGED <<pool, report, forget, marks, world, changes>>

\* ... and drops the client for the old address and refreshes the row.
EditPrime ==
  /\ edit.at = "prime"
  /\ pool' = [pool EXCEPT ![edit.id] = NoClient]
  /\ Spawn([id |-> edit.id, host |-> edit.host, name |-> edit.name, late |-> FALSE])
  /\ edit' = NoEdit
  /\ UNCHANGED <<row, todo, report, forget, marks, world, deleted, changes>>

\* handleDeleteServer: the row goes with its containers, then the client.
Delete(s) ==
  /\ Exists(s) /\ s # Local
  /\ row' = [row EXCEPT ![s] = NoRow]
  /\ forget' = IF s \in Directs THEN forget \cup {s} ELSE forget
  /\ deleted' = deleted \cup {s}
  /\ Change
  /\ UNCHANGED <<pool, todo, poll, report, edit, marks, world>>

Forget(s) ==
  /\ s \in forget
  /\ forget' = forget \ {s}
  /\ pool' = [pool EXCEPT ![s] = NoClient]
  /\ UNCHANGED <<row, todo, poll, report, edit, marks, world, deleted, changes>>

\* handleSetPin
SetPin(s, c, pinned) ==
  /\ c \in row[s].shows
  /\ (c \in row[s].pins) # pinned
  /\ row' = [row EXCEPT ![s].pins = IF pinned THEN @ \cup {c} ELSE @ \ {c}]
  /\ Change
  /\ UNCHANGED <<handlers, world, deleted>>

-----------------------------------------------------------------------------
(* The hosts, time, and a restart of the process.                          *)

Appear(c) ==
  /\ c \notin there \cup gone
  /\ there' = there \cup {c}
  /\ Change
  /\ UNCHANGED <<row, handlers, gone, up, broken, deleted>>

Vanish(c) ==
  /\ c \in there
  /\ there' = there \ {c} /\ gone' = gone \cup {c}
  /\ Change
  /\ UNCHANGED <<row, handlers, up, broken, deleted>>

Toggle(m) ==
  /\ up' = IF m \in up THEN up \ {m} ELSE up \cup {m}
  /\ Change
  /\ UNCHANGED <<row, handlers, there, gone, broken, deleted>>

Reload(e) ==
  /\ broken' = IF e \in broken THEN broken \ {e} ELSE broken \cup {e}
  /\ Change
  /\ UNCHANGED <<row, handlers, there, gone, up, deleted>>

\* Two minutes without a refresh; for a host that answers, only if a pass is
\* held up that long.
Answers(s) == IF s \in Directs THEN row[s].host \in up ELSE s \in up
Age(s) ==
  /\ row[s].recent
  /\ row' = [row EXCEPT ![s].recent = FALSE]
  /\ IF Answers(s) THEN Change ELSE UNCHANGED changes
  /\ UNCHANGED <<handlers, world, deleted>>

Restart ==
  /\ row' = [s \in Servers |-> IF s = Local THEN row[s] ELSE [row[s] EXCEPT !.online = FALSE]]
  /\ pool' = [s \in Directs |-> NoClient]
  /\ todo' = {}
  /\ poll' = [p \in Pollers |-> Idle]
  /\ report' = [a \in Agents |-> IF report[a].at = "read" THEN NoReport ELSE report[a]]
  /\ edit' = NoEdit
  /\ forget' = {} /\ marks' = {}
  /\ Change
  /\ UNCHANGED <<world, deleted>>

-----------------------------------------------------------------------------
Pass == StartPass \/ List \/ NextServer \/ ReadName \/ Poll(Loop)

Agent(a) == Report(a) \/ Authenticate(a) \/ SaveReport(a)

Editing == EditName \/ EditEndpoint \/ EditPrime

Operator ==
  \/ \E s \in Directs, e \in Endpoints : CreateDirect(s, e)
  \/ \E s \in Agents : CreateAgent(s)
  \/ \E s \in Servers, e \in Hosts : Edit(s, "second", e)
  \/ \E s \in Servers : Delete(s)
  \/ \E s \in Servers, c \in Containers, pinned \in BOOLEAN : SetPin(s, c, pinned)

Environment ==
  \/ \E c \in Containers : Appear(c) \/ Vanish(c)
  \/ \E m \in Machines : Toggle(m)
  \/ \E e \in Endpoints : Reload(e)
  \/ \E s \in Servers : Age(s)
  \/ Restart

Next ==
  \/ Pass \/ Editing
  \/ \E g \in Goroutines : Poll(g)
  \/ \E a \in Agents : Agent(a)
  \/ MarkList \/ \E s \in Servers : Mark(s) \/ Forget(s)
  \/ Operator \/ Environment

Spec == Init /\ [][Next]_vars

\* The loops run, handlers come to their end, agents report.
FairSpec ==
  /\ Spec
  /\ WF_vars(Pass) /\ WF_vars(Editing)
  /\ \A g \in Goroutines : WF_vars(Poll(g))
  /\ \A a \in Agents : WF_vars(Agent(a))
  /\ WF_vars(MarkList \/ \E s \in Servers : Mark(s))
  /\ WF_vars(\E s \in Directs : Forget(s))

-----------------------------------------------------------------------------
(* Properties.                                                             *)

\* The kind of a row and its endpoint stay until an operator changes them, and so
\* does a name that an operator chose, however stale the copy is that a refresh works
\* on (the comment at ReplaceServerSnapshot's upsert).  The local host and an agent
\* have no name that counts as chosen before they are renamed, not even the one that
\* an agent's server was created with.
Renamed(s) == Exists(s) /\ row'[s].kind # "none" /\ row'[s].name # row[s].name
ChoicesStay ==
  [][\A s \in Servers :
       /\ (Exists(s) /\ row'[s].kind # "none")
          => /\ row'[s].kind = row[s].kind
             /\ (row'[s].host # row[s].host => edit.at = "endpoint")
       /\ Renamed(s) => edit.at = "name" \/ (s \in Agents \cup {Local} /\ ~row[s].chosen)]_vars

\* The same for every name that an operator typed (models.go: an operator chose this
\* name, so snapshot reports never overwrite it with the host's own hostname).
TypedNameStays ==
  [][\A s \in Servers : Renamed(s) => edit.at = "name" \/ row[s].name = "hostname"]_vars

\* A pinned container stays pinned until an operator unpins it or it is no
\* longer on the host its server names, unless a refresh is overtaken by
\* another one of the same row or could not inspect the container
\* (ReplaceServerSnapshot, "preserving container pinned state").
Unpins(s) == \E c \in Containers : SetPin(s, c, FALSE)
Overtakes(s) == \E p \in Pollers : Save(p) /\ poll[p].copy.id = s /\ poll[p].copy.late
HostOf(s) == IF s \in Directs THEN row[s].host ELSE s
Unpinned(s) == (row[s].pins \ row'[s].pins) \cap RunsOn(HostOf(s))
Skipped(s) ==
  UNION ({poll[p].missed : p \in {q \in Pollers : Save(q) /\ poll[q].copy.id = s}}
         \cup {report[a].missed : a \in {b \in Agents : SaveReport(b) /\ b = s}})
PinsStay ==
  [][\A s \in Servers :
       Unpinned(s) \ Skipped(s) # {}
       => row'[s].kind = "none" \/ Unpins(s) \/ Overtakes(s)]_vars

\* The same without the first exception, and without the second.
PinsOutliveOvertaking ==
  [][\A s \in Servers :
       Unpinned(s) \ Skipped(s) # {} => row'[s].kind = "none" \/ Unpins(s)]_vars
PinsOutliveSkipping ==
  [][\A s \in Servers :
       Unpinned(s) # {} => row'[s].kind = "none" \/ Unpins(s) \/ Overtakes(s)]_vars

\* Whatever comes back of a deleted server has no endpoint and no token, so
\* that nothing polls it and no agent reports to it.
DeletedLosesAccess ==
  \A s \in deleted : row[s].host = NoHost /\ ~row[s].token

\* A deleted server stays deleted (DeleteServerCascade, "removes a server and
\* all of its stacks, containers, updates and queued commands").
DeletedStaysDeleted == \A s \in deleted : ~Exists(s)

\* Once nothing changes any more, every server that answers is shown online
\* with what it runs, whatever clients and copies were kept on the way; an
\* endpoint whose client could not be built is left out, since that error is
\* kept on purpose (endpointPool.get).
Reached(s) ==
  \/ s \notin Directs /\ s \in up /\ (s = Local \/ row[s].token)
  \/ s \in Directs /\ row[s].host \in up
     /\ pool[s] # [host |-> row[s].host, usable |-> FALSE]
     /\ row[s].host \notin broken
EventuallyCurrent ==
  <>[](\A s \in Servers : Reached(s) => row[s].shows = RunsOn(HostOf(s)) /\ EffectiveOnline(row[s]))
=============================================================================
