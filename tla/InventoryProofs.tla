---------------------------- MODULE InventoryProofs ----------------------------
(***************************************************************************)
(* Theorems about Inventory, for any servers, endpoints and containers and *)
(* any number of refreshes under way.                                      *)
(***************************************************************************)
EXTENDS Inventory, TLAPS

KindOf(s) == IF s = Local THEN "local" ELSE IF s \in Directs THEN "direct" ELSE "agent"

RowOK(s, r) ==
  /\ r.pins \subseteq r.shows /\ r.kind \in {"none", KindOf(s)}
  /\ r.kind = "direct" => r.chosen

RowsOK ==
  /\ row \in [Servers -> RowType]
  /\ \A s \in Servers : RowOK(s, row[s])

(* A refresh that goes through the pool is one of an endpoint, and one that *)
(* stores is one of an endpoint or the local host: what is inserted when   *)
(* the row is gone has the kind it had.                                    *)
PollsOK ==
  /\ poll \in [Pollers -> PollType]
  /\ \A p \in Pollers : /\ poll[p].at \in {"get", "take"} => poll[p].copy.id \in Directs
                        /\ poll[p].at = "store" => poll[p].copy.id \in Directs \cup {Local}
                        /\ poll[p].at = "name" => poll[p].copy.id = Local
  /\ todo \subseteq CopyType /\ \A c \in todo : c.id \in Directs

EditOK ==
  /\ edit \in [at : {"idle", "name", "endpoint", "prime"}, id : Servers, name : Names, host : Hosts]
  /\ edit.host # NoHost => edit.id \in Directs
  /\ edit.at \in {"endpoint", "prime"} => edit.host # NoHost

ReportType == [at : {"idle", "sent", "read"}, seen : SUBSET Containers, missed : SUBSET Containers]

OthersOK ==
  /\ pool \in [Directs -> Client]
  /\ report \in [Agents -> ReportType]
  /\ forget \subseteq Directs /\ marks \subseteq Servers \ {Local}
  /\ there \subseteq Containers /\ gone \subseteq Containers \ there
  /\ up \subseteq Machines /\ broken \subseteq Endpoints
  /\ deleted \subseteq Directs \cup Agents
  /\ changes \in 0..MaxChanges

TypeInv == RowsOK /\ PollsOK /\ EditOK /\ OthersOK

-----------------------------------------------------------------------------
LEMMA Values ==
  /\ NoRow \in RowType /\ NoRow.kind = "none" /\ NoRow.host = NoHost /\ ~NoRow.token /\ NoRow.pins = {}
  /\ NoClient \in Client
  /\ Idle \in PollType /\ Idle.at = "idle"
  /\ NoEdit \in [at : {"idle", "name", "endpoint", "prime"}, id : Servers, name : Names, host : Hosts]
  /\ NoEdit.at = "idle" /\ NoEdit.host = NoHost
  /\ NoReport \in ReportType /\ NoReport.at = "idle" /\ NoReport.seen = {} /\ NoReport.missed = {}
  /\ \A s \in Servers : FreshRow(s) \in RowType /\ FreshRow(s).kind = KindOf(s) /\ RowOK(s, FreshRow(s))
  /\ \A s \in Servers : KindOf(s) # "none" /\ RowOK(s, NoRow)
<1>1. NoRow \in RowType /\ NoRow.kind = "none" /\ NoRow.host = NoHost /\ ~NoRow.token /\ NoRow.pins = {}
  BY DEF NoRow, RowType, Hosts, Names
<1>2. \A s \in Servers : FreshRow(s) \in RowType /\ FreshRow(s).kind = KindOf(s) /\ RowOK(s, FreshRow(s))
  <2> SUFFICES ASSUME NEW s \in Servers
               PROVE  FreshRow(s) \in RowType /\ FreshRow(s).kind = KindOf(s) /\ RowOK(s, FreshRow(s))
    OBVIOUS
  <2>1. CASE s = Local
    <3>1. FreshRow(s) = [NoRow EXCEPT !.kind = "local", !.online = TRUE, !.recent = TRUE]
      BY <2>1, ServerAssumption DEF FreshRow
    <3>. QED BY <3>1, <2>1 DEF NoRow, RowType, Hosts, Names, KindOf, RowOK
  <2>2. CASE s \in Directs
    <3>1. FreshRow(s) = [NoRow EXCEPT !.kind = "direct", !.name = "first", !.chosen = TRUE]
      BY <2>2, ServerAssumption DEF FreshRow
    <3>. QED BY <3>1, <2>2, ServerAssumption DEF NoRow, RowType, Hosts, Names, KindOf, RowOK
  <2>3. CASE s \in Agents
    <3>1. FreshRow(s) = [NoRow EXCEPT !.kind = "agent", !.name = "first", !.token = TRUE]
      BY <2>3, ServerAssumption DEF FreshRow
    <3>. QED BY <3>1, <2>3, ServerAssumption DEF NoRow, RowType, Hosts, Names, KindOf, RowOK
  <2>. QED BY <2>1, <2>2, <2>3 DEF Servers
<1>3. Idle \in PollType /\ Idle.at = "idle"
  BY DEF Idle, PollType, CopyType, Servers, Hosts, Names
<1>4. NoClient \in Client
  BY DEF NoClient, Client, Hosts
<1>5. /\ NoEdit \in [at : {"idle", "name", "endpoint", "prime"}, id : Servers, name : Names, host : Hosts]
      /\ NoEdit.at = "idle" /\ NoEdit.host = NoHost
  BY DEF NoEdit, Servers, Hosts, Names
<1>6. NoReport \in ReportType /\ NoReport.at = "idle" /\ NoReport.seen = {} /\ NoReport.missed = {}
  BY DEF NoReport, ReportType
<1>7. \A s \in Servers : RowOK(s, NoRow)
  BY DEF RowOK, NoRow
<1>. QED BY <1>1, <1>2, <1>3, <1>4, <1>5, <1>6, <1>7 DEF KindOf

LEMMA Copies ==
  /\ RowsOK => \A s \in Servers : CopyOf(s) \in CopyType /\ CopyOf(s).id = s
  /\ \A c \in CopyType : \A s : Overtaken(c, s) \in CopyType /\ Overtaken(c, s).id = c.id
<1>1. RowsOK => \A s \in Servers : CopyOf(s) \in CopyType /\ CopyOf(s).id = s
  BY DEF RowsOK, RowType, CopyOf, CopyType
<1>2. \A c \in CopyType : \A s : Overtaken(c, s) \in CopyType /\ Overtaken(c, s).id = c.id
  BY DEF CopyType, Overtaken
<1>. QED BY <1>1, <1>2

\* ReplaceServerSnapshot: a new row has no endpoint and no token, an old one keeps
\* both, its kind and a name that was chosen.
LEMMA UpsertKeeps ==
  ASSUME NEW old \in RowType, NEW copy \in CopyType, NEW kind \in {"local", "direct", "agent"},
         NEW seen \in SUBSET Containers
  PROVE  LET new == Upsert(old, copy, kind, seen) IN
         /\ new \in RowType /\ new.pins \subseteq new.shows
         /\ old.kind = "none" => /\ new.kind = kind /\ new.host = NoHost /\ ~new.token
                                 /\ new.chosen = (kind = "direct")
         /\ old.kind # "none" => /\ new.kind = old.kind /\ new.host = old.host /\ new.token = old.token
                                 /\ new.chosen = old.chosen
                                 /\ new.name # old.name => ~old.chosen
<1> DEFINE new == Upsert(old, copy, kind, seen)
<1>1. KeptName(old, copy) \in Names /\ (KeptName(old, copy) # old.name => ~old.chosen)
  BY DEF KeptName, RowType, CopyType
<1>2. CASE old.kind = "none"
  <2>1. new = [NoRow EXCEPT !.kind = kind, !.name = copy.name, !.chosen = (kind = "direct"),
                            !.online = TRUE, !.recent = TRUE, !.shows = seen]
    BY <1>2 DEF Upsert, UpsertNamed
  <2>2. copy.name \in Names /\ NoRow \in RowType
    BY Values DEF CopyType
  <2>3. /\ new.kind = kind /\ new.host = NoHost /\ new.token = FALSE
        /\ new.shows = seen /\ new.pins = {} /\ new.chosen = (kind = "direct")
    BY <2>1 DEF NoRow
  <2>4. new \in RowType
    BY <2>1, <2>2 DEF RowType
  <2>. QED BY <2>3, <2>4, <1>2
<1>3. CASE old.kind # "none"
  <2>1. new = [old EXCEPT !.name = KeptName(old, copy), !.online = TRUE, !.recent = TRUE,
                          !.shows = seen, !.pins = old.pins \cap seen]
    BY <1>3 DEF Upsert, UpsertNamed
  <2>2. old.pins \cap seen \in SUBSET Containers
    OBVIOUS
  <2>3. /\ new.kind = old.kind /\ new.host = old.host /\ new.token = old.token
        /\ new.name = KeptName(old, copy) /\ new.shows = seen /\ new.pins = old.pins \cap seen
        /\ new.chosen = old.chosen
    BY <2>1 DEF RowType
  <2>4. new \in RowType
    BY <2>1, <2>2, <1>1 DEF RowType
  <2>. QED BY <2>3, <2>4, <1>1, <1>3
<1>. QED BY <1>2, <1>3

-----------------------------------------------------------------------------
(* What a step does to a row: it leaves its kind, its endpoint, its token  *)
(* and a chosen name, or it inserts one without endpoint and token, or one *)
(* that was never deleted, or deletes it, or is an edit of the endpoint.   *)

Leaves(s) ==
  /\ row'[s].kind = row[s].kind /\ row'[s].host = row[s].host /\ row'[s].token = row[s].token
  /\ row'[s].name # row[s].name => edit.at = "name" \/ ~row[s].chosen

Inserts(s) == ~Exists(s) /\ row'[s].host = NoHost /\ ~row'[s].token

Creates(s) == ~Exists(s) /\ s \notin deleted

Deletes(s) == row'[s] = NoRow

Moves(s) ==
  /\ edit.at = "endpoint" /\ s \notin deleted'
  /\ row'[s].kind = row[s].kind /\ row'[s].name = row[s].name

RowStep ==
  /\ RowsOK'
  /\ \A s \in Servers :
       /\ Leaves(s) \/ Inserts(s) \/ Creates(s) \/ Deletes(s) \/ Moves(s)
       /\ s \in deleted' => s \in deleted \/ Deletes(s)

\* Of one row.
LEMMA OneRow ==
  ASSUME RowsOK, NEW s \in Servers, NEW new \in RowType,
         row' = [row EXCEPT ![s] = new], RowOK(s, new),
         Leaves(s) \/ Inserts(s) \/ Creates(s) \/ Deletes(s) \/ Moves(s),
         \A t \in Servers : t \in deleted' => t \in deleted \/ (t = s /\ Deletes(s))
  PROVE  RowStep
<1>1. row'[s] = new /\ \A t \in Servers : t # s => row'[t] = row[t]
  BY DEF RowsOK
<1>2. RowsOK'
  BY <1>1 DEF RowsOK
<1>3. \A t \in Servers : t # s => Leaves(t)
  BY <1>1 DEF Leaves
<1>. QED BY <1>2, <1>3 DEF RowStep

LEMMA NoRowChanges ==
  ASSUME RowsOK, row' = row, deleted' = deleted PROVE RowStep
BY DEF RowsOK, RowStep, Leaves

LEMMA Stored ==
  ASSUME RowsOK, NEW s \in Servers, NEW copy \in CopyType, NEW seen \in SUBSET Containers,
         Store(s, copy, KindOf(s), seen), deleted' = deleted
  PROVE  RowStep
<1> DEFINE new == Upsert(row[s], copy, KindOf(s), seen)
<1>1. row[s] \in RowType /\ RowOK(s, row[s]) /\ KindOf(s) \in {"local", "direct", "agent"}
  BY DEF RowsOK, KindOf
<1>2. /\ new \in RowType /\ new.pins \subseteq new.shows
      /\ row[s].kind = "none" => /\ new.kind = KindOf(s) /\ new.host = NoHost /\ ~new.token
                                 /\ new.chosen = (KindOf(s) = "direct")
      /\ row[s].kind # "none" => /\ new.kind = row[s].kind /\ new.host = row[s].host /\ new.token = row[s].token
                                 /\ new.chosen = row[s].chosen
                                 /\ new.name # row[s].name => ~row[s].chosen
  BY <1>1, UpsertKeeps
<1>3. row' = [row EXCEPT ![s] = new] /\ row'[s] = new
  BY DEF Store, RowsOK
<1>4. Leaves(s) \/ Inserts(s)
  BY <1>2, <1>3 DEF Leaves, Inserts, Exists
<1>5. RowOK(s, new)
  BY <1>1, <1>2 DEF RowOK
<1> HIDE DEF new
<1>. QED BY <1>2, <1>3, <1>4, <1>5, OneRow

\* A row that is there, or not, and has only some of its other fields set.
LEMMA Touched ==
  ASSUME RowsOK, NEW s \in Servers, NEW new \in RowType, row' = [row EXCEPT ![s] = new],
         new.kind = row[s].kind, new.host = row[s].host, new.token = row[s].token,
         new.name = row[s].name \/ edit.at = "name", new.pins \subseteq new.shows, row[s].chosen => new.chosen,
         deleted' = deleted
  PROVE  RowStep
<1>1. row'[s] = new /\ RowOK(s, new)
  BY DEF RowsOK, RowOK
<1>2. Leaves(s)
  BY <1>1 DEF Leaves
<1>. QED BY <1>1, <1>2, OneRow

LEMMA StepRows == TypeInv /\ [Next]_vars => RowStep
<1> SUFFICES ASSUME TypeInv, [Next]_vars PROVE RowStep
  OBVIOUS
<1>0. RowsOK /\ \A s \in Servers : row[s] \in RowType /\ row[s].pins \subseteq row[s].shows
  BY DEF TypeInv, RowsOK, RowOK
<1>1. ASSUME NEW p \in Pollers, Save(p) PROVE RowStep
  <2>1. /\ poll[p].copy.id \in Servers /\ poll[p].copy \in CopyType /\ poll[p].seen \in SUBSET Containers
        /\ poll[p].copy.id \in Directs \cup {Local}
    BY <1>1 DEF Save, TypeInv, PollsOK, PollType, Servers
  <2>2. KindOf(poll[p].copy.id) = IF poll[p].copy.id = Local THEN "local" ELSE "direct"
    BY <2>1 DEF KindOf
  <2>3. Store(poll[p].copy.id, poll[p].copy, KindOf(poll[p].copy.id), poll[p].seen) /\ deleted' = deleted
    BY <1>1, <2>2 DEF Save
  <2>. QED BY <1>0, <2>1, <2>3, Stored
<1>2. ASSUME NEW a \in Agents, SaveReport(a) PROVE RowStep
  <2> DEFINE copy == [id |-> a, host |-> NoHost, name |-> "hostname", late |-> FALSE]
  <2>1. a \in Servers /\ copy \in CopyType /\ report[a].seen \in SUBSET Containers /\ KindOf(a) = "agent"
    BY ServerAssumption DEF CopyType, Servers, Hosts, Names, KindOf, TypeInv, OthersOK, ReportType
  <2>2. Store(a, copy, KindOf(a), report[a].seen) /\ deleted' = deleted
    BY <1>2, <2>1 DEF SaveReport
  <2> HIDE DEF copy
  <2>. QED BY <1>0, <2>1, <2>2, Stored
<1>3. ASSUME NEW s \in Servers, Mark(s) PROVE RowStep
  <2>1. [row[s] EXCEPT !.online = FALSE] \in RowType
    BY <1>0 DEF RowType
  <2>2. row' = [row EXCEPT ![s] = [row[s] EXCEPT !.online = FALSE]] /\ deleted' = deleted
    BY <1>3 DEF Mark
  <2>. QED BY <1>0, <2>1, <2>2, Touched DEF RowType
<1>4. ASSUME NEW s \in Servers, Age(s) PROVE RowStep
  <2>1. [row[s] EXCEPT !.recent = FALSE] \in RowType
    BY <1>0 DEF RowType
  <2>2. row' = [row EXCEPT ![s] = [row[s] EXCEPT !.recent = FALSE]] /\ deleted' = deleted
    BY <1>4 DEF Age
  <2>. QED BY <1>0, <2>1, <2>2, Touched DEF RowType
<1>5. ASSUME NEW s \in Servers, NEW c \in Containers, NEW pinned \in BOOLEAN, SetPin(s, c, pinned) PROVE RowStep
  <2> DEFINE pins == IF pinned THEN row[s].pins \cup {c} ELSE row[s].pins \ {c}
  <2>1. c \in row[s].shows /\ pins \subseteq row[s].shows /\ pins \in SUBSET Containers
    BY <1>0, <1>5 DEF SetPin, RowType
  <2>2. row' = [row EXCEPT ![s] = [row[s] EXCEPT !.pins = pins]] /\ deleted' = deleted
    BY <1>5 DEF SetPin
  <2> HIDE DEF pins
  <2>3. [row[s] EXCEPT !.pins = pins] \in RowType
    BY <1>0, <2>1 DEF RowType
  <2>. QED BY <1>0, <2>1, <2>2, <2>3, Touched DEF RowType
<1>6. CASE EditName
  <2>1. edit.id \in Servers /\ edit.name \in Names /\ edit.at = "name"
    BY <1>6 DEF EditName, TypeInv, EditOK
  <2>2. CASE Exists(edit.id)
    <3>0. row[edit.id] \in RowType
      BY <1>0, <2>1
    <3>1. [row[edit.id] EXCEPT !.name = edit.name, !.chosen = TRUE] \in RowType
      BY <3>0, <2>1 DEF RowType
    <3>2. row' = [row EXCEPT ![edit.id] = [row[edit.id] EXCEPT !.name = edit.name, !.chosen = TRUE]]
          /\ deleted' = deleted
      BY <1>6, <2>2 DEF EditName
    <3>. QED BY <1>0, <2>1, <3>1, <3>2, Touched DEF RowType
  <2>3. CASE ~Exists(edit.id)
    <3>1. row' = [row EXCEPT ![edit.id] = row[edit.id]] /\ deleted' = deleted
      BY <1>6, <2>3 DEF EditName
    <3>. QED BY <1>0, <2>1, <3>1, Touched
  <2>. QED BY <2>2, <2>3
<1>7. CASE EditEndpoint
  <2>1. edit.id \in Servers /\ edit.host \in Hosts /\ edit.at = "endpoint"
    BY <1>7 DEF EditEndpoint, TypeInv, EditOK
  <2>2. CASE edit.host \in broken
    BY <1>0, <1>7, <2>2, NoRowChanges DEF EditEndpoint
  <2>3. CASE edit.host \notin broken /\ Exists(edit.id)
    <3>1. [row[edit.id] EXCEPT !.host = edit.host] \in RowType
      BY <1>0, <2>1 DEF RowType
    <3>2. row' = [row EXCEPT ![edit.id] = [row[edit.id] EXCEPT !.host = edit.host]]
          /\ deleted' = deleted \ {edit.id}
      BY <1>7, <2>3 DEF EditEndpoint
    <3>3. Moves(edit.id)
      BY <1>0, <2>1, <3>2 DEF Moves, RowsOK, RowType
    <3>4. RowOK(edit.id, [row[edit.id] EXCEPT !.host = edit.host])
      BY <1>0, <2>1 DEF RowsOK, RowOK, RowType
    <3>. QED BY <1>0, <2>1, <3>1, <3>2, <3>3, <3>4, OneRow
  <2>4. CASE edit.host \notin broken /\ ~Exists(edit.id)
    <3>1. row' = [row EXCEPT ![edit.id] = [row[edit.id] EXCEPT !.host = row[edit.id].host]] /\ deleted' = deleted
      BY <1>7, <2>4 DEF EditEndpoint
    <3>2. [row[edit.id] EXCEPT !.host = row[edit.id].host] = row[edit.id]
      BY <1>0, <2>1 DEF RowType
    <3>. QED BY <1>0, <2>1, <3>1, <3>2, Touched
  <2>. QED BY <2>2, <2>3, <2>4
<1>8. ASSUME NEW s \in Servers, Delete(s) PROVE RowStep
  <2>1. row' = [row EXCEPT ![s] = NoRow] /\ deleted' = deleted \cup {s} /\ row'[s] = NoRow
    BY <1>0, <1>8 DEF Delete, RowsOK
  <2>. QED BY <1>0, <2>1, Values, OneRow DEF Deletes
<1>9. ASSUME NEW s \in Directs, NEW e \in Endpoints, CreateDirect(s, e) PROVE RowStep
  <2>1. s \in Servers /\ [FreshRow(s) EXCEPT !.host = e] \in RowType
        /\ RowOK(s, [FreshRow(s) EXCEPT !.host = e])
    BY Values DEF Servers, RowType, RowOK, Hosts
  <2>2. row' = [row EXCEPT ![s] = [FreshRow(s) EXCEPT !.host = e]] /\ deleted' = deleted /\ Creates(s)
    BY <1>9 DEF CreateDirect, Creates
  <2>. QED BY <1>0, <2>1, <2>2, OneRow
<1>10. ASSUME NEW s \in Agents, CreateAgent(s) PROVE RowStep
  <2>1. s \in Servers /\ FreshRow(s) \in RowType /\ RowOK(s, FreshRow(s))
    BY Values DEF Servers
  <2>2. row' = [row EXCEPT ![s] = FreshRow(s)] /\ deleted' = deleted /\ Creates(s)
    BY <1>10 DEF CreateAgent, Creates
  <2>. QED BY <1>0, <2>1, <2>2, OneRow
<1>11. CASE Restart
  <2>0. row' = [s \in Servers |-> IF s = Local THEN row[s] ELSE [row[s] EXCEPT !.online = FALSE]]
    BY <1>11 DEF Restart
  <2>1. deleted' = deleted /\ \A s \in Servers : row'[s] = row[s] \/ row'[s] = [row[s] EXCEPT !.online = FALSE]
    BY <1>11, <2>0 DEF Restart
  <2>2. ASSUME NEW s \in Servers
        PROVE  /\ row'[s] \in RowType /\ row'[s].kind = row[s].kind /\ row'[s].host = row[s].host
               /\ row'[s].token = row[s].token /\ row'[s].name = row[s].name
               /\ row'[s].pins = row[s].pins /\ row'[s].shows = row[s].shows
               /\ row'[s].chosen = row[s].chosen
    <3>1. row[s] \in RowType
      BY <1>0
    <3>2. CASE row'[s] = row[s]
      BY <3>1, <3>2
    <3>3. CASE row'[s] = [row[s] EXCEPT !.online = FALSE]
      BY <3>1, <3>3 DEF RowType
    <3>. QED BY <2>1, <3>2, <3>3
  <2>3. row' \in [Servers -> RowType]
    BY <2>0, <2>2
  <2>. QED BY <1>0, <2>1, <2>2, <2>3 DEF RowStep, RowsOK, RowOK, Leaves
<1>12. CASE row' = row /\ deleted' = deleted
  BY <1>0, <1>12, NoRowChanges
<1>13. CASE StartPass \/ List \/ NextServer \/ ReadName \/ EditPrime \/ MarkList \/ UNCHANGED vars
  BY <1>12, <1>13 DEF StartPass, List, NextServer, ReadName, EditPrime, MarkList, vars
<1>14. ASSUME NEW p \in Pollers, Get(p) \/ Take(p) PROVE RowStep
  BY <1>12, <1>14 DEF Get, GetIf, Take
<1>15. ASSUME NEW a \in Agents, Report(a) \/ Authenticate(a) PROVE RowStep
  BY <1>12, <1>15 DEF Report, Authenticate
<1>16. ASSUME NEW s \in Servers, Forget(s) \/ \E e \in Hosts : Edit(s, "second", e) PROVE RowStep
  BY <1>12, <1>16 DEF Forget, Edit
<1>17. ASSUME (\E c \in Containers : Appear(c) \/ Vanish(c)) \/ (\E m \in Machines : Toggle(m))
              \/ (\E e \in Endpoints : Reload(e))
       PROVE RowStep
  BY <1>12, <1>17 DEF Appear, Vanish, Toggle, Reload
<1>. QED BY <1>1, <1>2, <1>3, <1>4, <1>5, <1>6, <1>7, <1>8, <1>9, <1>10, <1>11, <1>13, <1>14, <1>15, <1>16, <1>17
     DEF Next, Pass, Poll, Agent, Editing, Operator, Environment, Pollers

-----------------------------------------------------------------------------
(* The refreshes, the handler of an edit and the rest.                     *)

LEMMA InitAll == Init => TypeInv
<1> SUFFICES ASSUME Init PROVE TypeInv
  OBVIOUS
<1>1. RowsOK
  <2>1. PICK some \in SUBSET (Servers \ {Local}), at \in [Directs -> Endpoints] :
          row = [s \in Servers |-> IF s \notin some \cup {Local} THEN NoRow
                                  ELSE IF s \in Directs THEN [FreshRow(s) EXCEPT !.host = at[s]]
                                  ELSE FreshRow(s)]
    BY DEF Init
  <2>2. ASSUME NEW s \in Servers
        PROVE  row[s] \in RowType /\ RowOK(s, row[s])
    <3>1. CASE s \notin some \cup {Local}
      BY <2>1, <3>1, Values
    <3>2. CASE s \in some \cup {Local} /\ s \in Directs
      <4>1. row[s] = [FreshRow(s) EXCEPT !.host = at[s]] /\ at[s] \in Hosts
        BY <2>1, <3>2 DEF Hosts
      <4>. QED BY <4>1, Values DEF RowType, RowOK
    <3>3. CASE s \in some \cup {Local} /\ s \notin Directs
      BY <2>1, <3>3, Values
    <3>. QED BY <3>1, <3>2, <3>3
  <2>. QED BY <2>1, <2>2 DEF RowsOK
<1>2. PollsOK
  BY Values DEF Init, PollsOK
<1>3. EditOK
  BY Values DEF Init, EditOK
<1>4. OthersOK
  BY Values, BoundAssumption DEF Init, OthersOK, Machines
<1>. QED BY <1>1, <1>2, <1>3, <1>4 DEF TypeInv

\* One poller goes on; nobody else's copy changes.
LEMMA OnePoll ==
  ASSUME PollsOK, NEW p \in Pollers, NEW new \in PollType, poll' = [poll EXCEPT ![p] = new], todo' = todo,
         new.at \in {"get", "take"} => new.copy.id \in Directs,
         new.at = "store" => new.copy.id \in Directs \cup {Local},
         new.at = "name" => new.copy.id = Local
  PROVE  PollsOK'
<1>1. poll'[p] = new /\ \A q \in Pollers : q # p => poll'[q] = poll[q]
  BY DEF PollsOK
<1>. QED BY <1>1 DEF PollsOK

\* Copies that are overtaken stay copies of the same rows.
LEMMA LateCopies ==
  ASSUME PollsOK, NEW s, NEW over \in SUBSET Pollers,
         todo' = {Overtaken(c, s) : c \in todo},
         poll' = [q \in Pollers |-> IF q \in over THEN Over(q)
                                    ELSE [poll[q] EXCEPT !.copy = Overtaken(poll[q].copy, s)]]
  PROVE  PollsOK'
<1>1. ASSUME NEW q \in Pollers
      PROVE  /\ poll'[q] \in PollType
             /\ poll'[q].at \in {"get", "take"} => poll'[q].copy.id \in Directs
             /\ poll'[q].at = "store" => poll'[q].copy.id \in Directs \cup {Local}
             /\ poll'[q].at = "name" => poll'[q].copy.id = Local
  <2>1. CASE q \in over
    <3>1. poll'[q] = Over(q)
      BY <2>1
    <3>2. Over(q) \in PollType /\ Over(q).at \in {"idle", "list"}
      BY Values DEF Over, PollType
    <3>. QED BY <3>1, <3>2
  <2>2. CASE q \notin over
    <3>1. poll[q] \in PollType /\ poll[q].copy \in CopyType
      BY DEF PollsOK, PollType
    <3>2. poll'[q] = [poll[q] EXCEPT !.copy = Overtaken(poll[q].copy, s)]
      BY <2>2
    <3>3. /\ poll'[q] \in PollType /\ poll'[q].at = poll[q].at
          /\ poll'[q].copy = Overtaken(poll[q].copy, s)
      BY <3>1, <3>2, Copies DEF PollType
    <3>4. poll'[q].copy.id = poll[q].copy.id
      BY <3>1, <3>3, Copies
    <3>. QED BY <3>3, <3>4 DEF PollsOK
  <2>. QED BY <2>1, <2>2
<1>2. todo' \subseteq CopyType /\ \A c \in todo' : c.id \in Directs
  BY Copies DEF PollsOK
<1>. QED BY <1>1, <1>2 DEF PollsOK

\* endpointPool.get: the client is for the address of the copy.
LEMMA GetPools ==
  ASSUME PollsOK, OthersOK, NEW p \in Pollers, Get(p)
  PROVE  pool' \in [Directs -> Client] /\ poll[p].copy.id \in Directs
<1> DEFINE c == poll[p].copy
<1>1. c.id \in Directs /\ c.host \in Hosts
  BY DEF Get, GetIf, PollsOK, PollType, CopyType
<1>2. PICK client \in Client : pool' = [pool EXCEPT ![c.id] = client]
  <2>1. [host |-> c.host, usable |-> c.host \in Endpoints \ broken] \in Client /\ pool[c.id] \in Client
    BY <1>1 DEF Client, OthersOK
  <2>2. pool' = [pool EXCEPT ![c.id] = pool[c.id]]
        \/ pool' = [pool EXCEPT ![c.id] = [host |-> c.host, usable |-> c.host \in Endpoints \ broken]]
    BY DEF Get, GetIf
  <2>. QED BY <2>1, <2>2
<1>. QED BY <1>1, <1>2 DEF OthersOK

\* Snapshot: what is not in its answer is what it missed.
LEMMA OneLook ==
  ASSUME PollsOK, OthersOK, NEW p \in Pollers, Take(p)
  PROVE  \/ poll' = [poll EXCEPT ![p] = Over(p)]
         \/ \E seen, missed \in SUBSET Containers :
              /\ seen \cup missed = RunsOn(poll[p].via) /\ RunsOn(poll[p].via) \subseteq there
              /\ poll' = [poll EXCEPT ![p] = [poll[p] EXCEPT !.at = "store", !.seen = seen, !.missed = missed]]
<1>1. CASE poll' = [poll EXCEPT ![p] = Over(p)]
  BY <1>1
<1>2. CASE poll' # [poll EXCEPT ![p] = Over(p)]
  <2>1. PICK seen \in SUBSET Containers :
          /\ Snapshot(poll[p].via, seen)
          /\ poll' = [poll EXCEPT ![p] = [poll[p] EXCEPT !.at = "store", !.seen = seen,
                                                        !.missed = Missed(poll[p].via, seen)]]
    BY <1>2 DEF Take, PollsOK
  <2>2. /\ Missed(poll[p].via, seen) \in SUBSET Containers
        /\ seen \cup Missed(poll[p].via, seen) = RunsOn(poll[p].via) /\ RunsOn(poll[p].via) \subseteq there
    BY <2>1 DEF Snapshot, Missed, RunsOn, OthersOK
  <2>. QED BY <2>1, <2>2
<1>. QED BY <1>1, <1>2

LEMMA StepPolls == TypeInv /\ [Next]_vars => PollsOK'
<1> SUFFICES ASSUME TypeInv, [Next]_vars PROVE PollsOK'
  OBVIOUS
<1>0. /\ PollsOK /\ RowsOK /\ Loop \in Pollers /\ Local \in Servers
      /\ \A m : RunsOn(m) \in SUBSET Containers
      /\ \A p \in Pollers : Over(p) \in PollType /\ Over(p).at \in {"idle", "list"}
  <2>1. \A p \in Pollers : Over(p) \in PollType /\ Over(p).at \in {"idle", "list"}
    BY Values DEF Over, PollType
  <2>. QED BY <2>1 DEF TypeInv, Pollers, Servers, RunsOn, OthersOK
<1>1. CASE StartPass
  <2>1. CASE Local \in up
    <3>1. PICK seen \in SUBSET Containers :
            poll' = [poll EXCEPT ![Loop] = [at |-> "name", copy |-> CopyOf(Local), via |-> Local,
                                            seen |-> seen, missed |-> Missed(Local, seen)]]
      BY <1>1, <2>1 DEF StartPass
    <3> DEFINE new == [at |-> "name", copy |-> CopyOf(Local), via |-> Local,
                       seen |-> seen, missed |-> Missed(Local, seen)]
    <3>2. new \in PollType /\ new.at = "name" /\ new.copy.id = Local
      BY <1>0, Copies DEF PollType, Machines, Missed
    <3>3. poll' = [poll EXCEPT ![Loop] = new] /\ todo' = todo
      BY <1>1, <3>1 DEF StartPass
    <3> HIDE DEF new
    <3>. QED BY <1>0, <3>2, <3>3, OnePoll
  <2>2. CASE Local \notin up
    <3>1. [Idle EXCEPT !.at = "list"] \in PollType /\ [Idle EXCEPT !.at = "list"].at = "list"
      BY Values DEF PollType
    <3>2. poll' = [poll EXCEPT ![Loop] = [Idle EXCEPT !.at = "list"]] /\ todo' = todo
      BY <1>1, <2>2 DEF StartPass
    <3>. QED BY <1>0, <3>1, <3>2, OnePoll
  <2>. QED BY <2>1, <2>2
<1>2. CASE ReadName
  <2> DEFINE n == IF row[Local].chosen THEN row[Local].name ELSE "hostname"
  <2>1. poll[Loop] \in PollType /\ poll[Loop].copy \in CopyType /\ poll[Loop].copy.id = Local /\ n \in Names
    BY <1>0, <1>2 DEF ReadName, PollsOK, PollType, RowsOK, RowType, Names
  <2>2. poll' = [poll EXCEPT ![Loop] = [poll[Loop] EXCEPT !.at = "store", !.copy.name = n]] /\ todo' = todo
    BY <1>0, <1>2 DEF ReadName, PollsOK
  <2> HIDE DEF n
  <2>3. [poll[Loop] EXCEPT !.at = "store", !.copy.name = n] \in PollType
        /\ [poll[Loop] EXCEPT !.at = "store", !.copy.name = n].at = "store"
        /\ [poll[Loop] EXCEPT !.at = "store", !.copy.name = n].copy.id = Local
    BY <2>1 DEF PollType, CopyType
  <2>. QED BY <1>0, <2>2, <2>3, OnePoll
<1>3. CASE List
  <2>1. todo' \subseteq CopyType /\ \A c \in todo' : c.id \in Directs
    BY <1>0, <1>3, Copies DEF List, Servers
  <2>2. poll' = [poll EXCEPT ![Loop] = Idle]
    BY <1>3 DEF List
  <2>. QED BY <1>0, <2>1, <2>2, Values DEF PollsOK
<1>4. CASE NextServer
  <2>1. PICK c \in todo : todo' = todo \ {c} /\ poll' = [poll EXCEPT ![Loop] = [Idle EXCEPT !.at = "get", !.copy = c]]
    BY <1>4 DEF NextServer
  <2>2. [Idle EXCEPT !.at = "get", !.copy = c] \in PollType /\ [Idle EXCEPT !.at = "get", !.copy = c].copy.id \in Directs
        /\ [Idle EXCEPT !.at = "get", !.copy = c].at = "get"
    BY <1>0, Values DEF PollType, PollsOK
  <2>. QED BY <1>0, <2>1, <2>2 DEF PollsOK
<1>5. ASSUME NEW p \in Pollers, Get(p) PROVE PollsOK'
  <2>1. PICK host \in Hosts : poll' = [poll EXCEPT ![p] = [poll[p] EXCEPT !.at = "take", !.via = host]]
                              \/ poll' = [poll EXCEPT ![p] = Over(p)]
    <3>1. pool' \in [Directs -> Client] /\ poll[p].copy.id \in Directs
      BY <1>5, GetPools DEF TypeInv
    <3>2. pool'[poll[p].copy.id].host \in Hosts
      BY <3>1 DEF Client
    <3>3. poll' = [poll EXCEPT ![p] = [poll[p] EXCEPT !.at = "take", !.via = pool'[poll[p].copy.id].host]]
          \/ poll' = [poll EXCEPT ![p] = Over(p)]
      BY <1>5 DEF Get, GetIf
    <3>. QED BY <3>2, <3>3
  <2>2. poll[p] \in PollType /\ poll[p].copy.id \in Directs /\ todo' = todo
    BY <1>5 DEF Get, GetIf, TypeInv, PollsOK
  <2>3. [poll[p] EXCEPT !.at = "take", !.via = host] \in PollType
        /\ [poll[p] EXCEPT !.at = "take", !.via = host].copy.id \in Directs
        /\ [poll[p] EXCEPT !.at = "take", !.via = host].at = "take"
    BY <2>2 DEF PollType, Hosts, Machines
  <2>. QED BY <1>0, <2>1, <2>2, <2>3, OnePoll
<1>6. ASSUME NEW p \in Pollers, Take(p) PROVE PollsOK'
  <2>1. poll[p] \in PollType /\ poll[p].copy.id \in Directs /\ todo' = todo
    BY <1>6 DEF Take, TypeInv, PollsOK
  <2>2. PICK seen \in SUBSET Containers, missed \in SUBSET Containers :
             poll' = [poll EXCEPT ![p] = [poll[p] EXCEPT !.at = "store", !.seen = seen, !.missed = missed]]
          \/ poll' = [poll EXCEPT ![p] = Over(p)]
    BY <1>0, <1>6, OneLook DEF TypeInv
  <2>3. [poll[p] EXCEPT !.at = "store", !.seen = seen, !.missed = missed] \in PollType
        /\ [poll[p] EXCEPT !.at = "store", !.seen = seen, !.missed = missed].copy.id \in Directs
        /\ [poll[p] EXCEPT !.at = "store", !.seen = seen, !.missed = missed].at = "store"
    BY <2>1 DEF PollType
  <2>. QED BY <1>0, <2>1, <2>2, <2>3, OnePoll
<1>7. ASSUME NEW p \in Pollers, Save(p) PROVE PollsOK'
  <2>0. PICK over \in SUBSET Pollers : over = {p}
    OBVIOUS
  <2>1. /\ todo' = {Overtaken(c, poll[p].copy.id) : c \in todo}
        /\ poll' = [q \in Pollers |-> IF q \in over THEN Over(q)
                                      ELSE [poll[q] EXCEPT !.copy = Overtaken(poll[q].copy, poll[p].copy.id)]]
    BY <1>7, <2>0 DEF Save
  <2>. QED BY <1>0, <2>1, LateCopies
<1>8. CASE EditEndpoint
  <2>1. CASE edit.host \in broken
    BY <1>0, <1>8, <2>1 DEF EditEndpoint, PollsOK
  <2>2. CASE edit.host \notin broken
    <3>0. PICK over \in SUBSET Pollers : over = {}
      OBVIOUS
    <3>1. /\ todo' = {Overtaken(c, edit.id) : c \in todo}
          /\ poll' = [q \in Pollers |-> IF q \in over THEN Over(q)
                                        ELSE [poll[q] EXCEPT !.copy = Overtaken(poll[q].copy, edit.id)]]
      BY <1>8, <2>2, <3>0 DEF EditEndpoint
    <3>. QED BY <1>0, <3>1, LateCopies
  <2>. QED BY <2>1, <2>2
<1>9. ASSUME NEW copy \in CopyType, copy.id \in Directs, Spawn(copy), todo' = todo PROVE PollsOK'
  <2>1. PICK g \in Goroutines : poll' = [poll EXCEPT ![g] = [Idle EXCEPT !.at = "get", !.copy = copy]]
    BY <1>9 DEF Spawn
  <2>2. [Idle EXCEPT !.at = "get", !.copy = copy] \in PollType /\ [Idle EXCEPT !.at = "get", !.copy = copy].at = "get"
        /\ [Idle EXCEPT !.at = "get", !.copy = copy].copy = copy
    BY Values DEF PollType
  <2>. QED BY <1>0, <1>9, <2>1, <2>2, OnePoll DEF Pollers
<1>10. CASE EditPrime
  <2>1. [id |-> edit.id, host |-> edit.host, name |-> edit.name, late |-> FALSE] \in CopyType /\ edit.id \in Directs
    BY <1>10 DEF EditPrime, TypeInv, EditOK, CopyType
  <2>. QED BY <1>9, <1>10, <2>1 DEF EditPrime
<1>11. ASSUME NEW s \in Directs, NEW e \in Endpoints, CreateDirect(s, e) PROVE PollsOK'
  <2>1. [id |-> s, host |-> e, name |-> "first", late |-> FALSE] \in CopyType
    BY DEF CopyType, Servers, Hosts, Names
  <2>. QED BY <1>9, <1>11, <2>1 DEF CreateDirect
<1>12. CASE Restart
  BY <1>12, Values DEF Restart, PollsOK
<1>13. CASE poll' = poll /\ todo' = todo
  BY <1>0, <1>13 DEF PollsOK
<1>14. ASSUME NEW s \in Servers,
              Mark(s) \/ Forget(s) \/ Delete(s) \/ Age(s) \/ (\E e \in Hosts : Edit(s, "second", e))
              \/ \E c \in Containers, pinned \in BOOLEAN : SetPin(s, c, pinned)
       PROVE PollsOK'
  BY <1>13, <1>14 DEF Mark, Forget, Delete, Age, Edit, SetPin, handlers
<1>15. ASSUME NEW a \in Agents, Agent(a) \/ CreateAgent(a) PROVE PollsOK'
  BY <1>13, <1>15 DEF Agent, Report, Authenticate, SaveReport, CreateAgent, handlers
<1>16. CASE MarkList \/ EditName \/ UNCHANGED vars
  BY <1>13, <1>16 DEF MarkList, EditName, vars, handlers
<1>17. ASSUME (\E c \in Containers : Appear(c) \/ Vanish(c)) \/ (\E m \in Machines : Toggle(m))
              \/ (\E e \in Endpoints : Reload(e))
       PROVE PollsOK'
  BY <1>13, <1>17 DEF Appear, Vanish, Toggle, Reload, handlers
<1>. QED BY <1>0, <1>1, <1>2, <1>3, <1>4, <1>5, <1>6, <1>7, <1>8, <1>10, <1>11, <1>12, <1>14, <1>15, <1>16, <1>17
     DEF Next, Pass, Poll, Editing, Operator, Environment, Pollers

LEMMA StepEdit == TypeInv /\ [Next]_vars => EditOK'
<1> SUFFICES ASSUME TypeInv, [Next]_vars PROVE EditOK'
  OBVIOUS
<1>1. ASSUME NEW s \in Servers, NEW e \in Hosts, Edit(s, "second", e) PROVE EditOK'
  BY <1>1 DEF Edit, EditOK, Names, Hosts
<1>2. CASE EditName
  <2>1. edit' = NoEdit \/ (edit.host # NoHost /\ edit' = [edit EXCEPT !.at = "endpoint"])
    BY <1>2 DEF EditName
  <2>. QED BY <2>1, Values DEF TypeInv, EditOK
<1>3. CASE EditEndpoint
  <2>1. edit' = NoEdit \/ edit' = [edit EXCEPT !.at = "prime"]
    BY <1>3 DEF EditEndpoint
  <2>. QED BY <1>3, <2>1, Values DEF EditEndpoint, TypeInv, EditOK
<1>4. CASE EditPrime \/ Restart
  BY <1>4, Values DEF EditPrime, Restart, EditOK
<1>5. CASE edit' = edit
  BY <1>5 DEF TypeInv, EditOK
<1>6. CASE (\E p \in Pollers : Poll(p)) \/ Pass \/ MarkList \/ UNCHANGED vars
  BY <1>5, <1>6 DEF Poll, Get, GetIf, Take, Save, Pass, StartPass, List, NextServer, ReadName, MarkList,
                    vars, handlers, Pollers
<1>7. ASSUME NEW a \in Agents, Agent(a) \/ CreateAgent(a) PROVE EditOK'
  BY <1>5, <1>7 DEF Agent, Report, Authenticate, SaveReport, CreateAgent, handlers
<1>8. ASSUME NEW s \in Servers,
             Mark(s) \/ Forget(s) \/ Delete(s) \/ Age(s) \/ (\E e \in Endpoints : CreateDirect(s, e))
             \/ \E c \in Containers, pinned \in BOOLEAN : SetPin(s, c, pinned)
      PROVE EditOK'
  BY <1>5, <1>8 DEF Mark, Forget, Delete, Age, CreateDirect, SetPin, handlers
<1>9. CASE (\E c \in Containers : Appear(c) \/ Vanish(c)) \/ (\E m \in Machines : Toggle(m))
           \/ (\E e \in Endpoints : Reload(e))
  BY <1>5, <1>9 DEF Appear, Vanish, Toggle, Reload, handlers
<1>. QED BY <1>1, <1>2, <1>3, <1>4, <1>6, <1>7, <1>8, <1>9
     DEF Next, Editing, Operator, Environment, Pollers, Servers

LEMMA StepOthers == TypeInv /\ [Next]_vars => OthersOK'
<1> SUFFICES ASSUME TypeInv, [Next]_vars PROVE OthersOK'
  OBVIOUS
<1>0. /\ OthersOK /\ (Change => changes' \in 0..MaxChanges)
      /\ \A m : RunsOn(m) \in SUBSET Containers
      /\ \A m, seen : Snapshot(m, seen) => changes' \in 0..MaxChanges
  BY BoundAssumption DEF TypeInv, OthersOK, Change, RunsOn, Snapshot
<1>1. ASSUME NEW p \in Pollers, Poll(p) PROVE OthersOK'
  <2>1. CASE Get(p)
    BY <1>0, <2>1, GetPools DEF Get, GetIf, TypeInv, OthersOK, world
  <2>2. CASE Take(p)
    <3>1. changes' \in 0..MaxChanges
      BY <1>0, <2>2 DEF Take, OthersOK
    <3>. QED BY <1>0, <2>2, <3>1 DEF Take, OthersOK, world
  <2>3. CASE Save(p)
    BY <1>0, <2>3 DEF Save, OthersOK, world
  <2>. QED BY <1>1, <2>1, <2>2, <2>3 DEF Poll
<1>p. CASE StartPass
  <2>1. changes' \in 0..MaxChanges
    BY <1>0, <1>p DEF StartPass, OthersOK
  <2>. QED BY <1>0, <1>p, <2>1 DEF StartPass, OthersOK, world
<1>2. CASE List \/ NextServer \/ ReadName \/ EditName
  BY <1>0, <1>2 DEF List, NextServer, ReadName, EditName, OthersOK, world
<1>3. CASE EditEndpoint
  BY <1>0, <1>3 DEF EditEndpoint, OthersOK, world
<1>4. CASE EditPrime
  BY <1>0, <1>4, Values DEF EditPrime, OthersOK, world
<1>5. ASSUME NEW a \in Agents, Agent(a) PROVE OthersOK'
  <2>1. report' \in [Agents -> ReportType]
    <3>1. CASE Report(a)
      <4>1. PICK new \in ReportType : report' = [report EXCEPT ![a] = new]
        <5>1. PICK seen \in SUBSET Containers :
                report' = [report EXCEPT ![a] = [at |-> "sent", seen |-> seen, missed |-> Missed(a, seen)]]
          BY <3>1 DEF Report
        <5>2. [at |-> "sent", seen |-> seen, missed |-> Missed(a, seen)] \in ReportType
          BY <1>0 DEF ReportType, Missed
        <5>. QED BY <5>1, <5>2
      <4>. QED BY <1>0, <4>1 DEF OthersOK
    <3>2. CASE Authenticate(a)
      <4>1. \A l \in {"idle", "read"} : [report[a] EXCEPT !.at = l]
                                          \in ReportType
        BY <1>0 DEF OthersOK, ReportType
      <4>. QED BY <1>0, <3>2, <4>1 DEF Authenticate, OthersOK
    <3>3. CASE SaveReport(a)
      BY <1>0, <3>3, Values DEF SaveReport, OthersOK
    <3>. QED BY <1>5, <3>1, <3>2, <3>3 DEF Agent
  <2>2. changes' \in 0..MaxChanges
    BY <1>0, <1>5 DEF Agent, Report, Authenticate, SaveReport, OthersOK
  <2>. QED BY <1>0, <1>5, <2>1, <2>2 DEF Agent, Report, Authenticate, SaveReport, OthersOK, world
<1>6. CASE MarkList
  BY <1>0, <1>6 DEF MarkList, OthersOK, world
<1>7. ASSUME NEW s \in Servers, Mark(s) \/ Forget(s) \/ Delete(s) \/ Age(s) PROVE OthersOK'
  <2>1. CASE Mark(s)
    BY <1>0, <2>1 DEF Mark, OthersOK, world
  <2>2. CASE Forget(s)
    BY <1>0, <2>2, Values DEF Forget, OthersOK, world
  <2>3. CASE Delete(s)
    BY <1>0, <2>3 DEF Delete, OthersOK, world, Servers
  <2>4. CASE Age(s)
    BY <1>0, <2>4 DEF Age, OthersOK, world, handlers
  <2>. QED BY <1>7, <2>1, <2>2, <2>3, <2>4
<1>8. ASSUME NEW s \in Servers,
             \/ \E e \in Hosts : Edit(s, "second", e)
             \/ s \in Directs /\ \E e \in Endpoints : CreateDirect(s, e)
             \/ s \in Agents /\ CreateAgent(s)
             \/ \E c \in Containers, pinned \in BOOLEAN : SetPin(s, c, pinned)
      PROVE OthersOK'
  BY <1>0, <1>8 DEF Edit, CreateDirect, CreateAgent, SetPin, OthersOK, world, handlers
<1>9. ASSUME NEW c \in Containers, Appear(c) \/ Vanish(c) PROVE OthersOK'
  BY <1>0, <1>9 DEF Appear, Vanish, OthersOK, handlers
<1>10. ASSUME (\E m \in Machines : Toggle(m)) \/ (\E e \in Endpoints : Reload(e)) PROVE OthersOK'
  BY <1>0, <1>10 DEF Toggle, Reload, OthersOK, handlers
<1>11. CASE Restart
  <2>1. report' \in [Agents -> ReportType]
    BY <1>0, <1>11, Values DEF Restart, OthersOK
  <2>. QED BY <1>0, <1>11, <2>1, Values DEF Restart, OthersOK, world
<1>12. CASE UNCHANGED vars
  BY <1>0, <1>12 DEF vars, handlers, world, OthersOK
<1>. QED BY <1>p, <1>1, <1>2, <1>3, <1>4, <1>5, <1>6, <1>7, <1>8, <1>9, <1>10, <1>11, <1>12
     DEF Next, Pass, Editing, Operator, Environment, Pollers, Servers

LEMMA StepAll == TypeInv /\ [Next]_vars => TypeInv'
BY StepRows, StepPolls, StepEdit, StepOthers DEF TypeInv, RowStep

-----------------------------------------------------------------------------
\* Every variable keeps its type, a pinned container is one of its row's, and a
\* row, whoever inserts it, has the kind its id was given.
THEOREM TypeCorrect == Spec => []TypeOK
<1>1. TypeInv => TypeOK
  BY DEF TypeInv, RowsOK, RowOK, PollsOK, EditOK, OthersOK, ReportType, TypeOK, KindOf
<1>. QED BY <1>1, InitAll, StepAll, PTL DEF Spec

\* A deleted server never has an endpoint or a token again, whichever refresh or
\* report of it was under way and inserts its row anew (entities.go:542-600).
THEOREM DeletedStaysOut == Spec => []DeletedLosesAccess
<1>1. Init => DeletedLosesAccess
  BY DEF Init, DeletedLosesAccess
<1>2. TypeInv /\ DeletedLosesAccess /\ [Next]_vars => DeletedLosesAccess'
  <2> SUFFICES ASSUME TypeInv, DeletedLosesAccess, [Next]_vars, NEW s \in deleted'
               PROVE  row'[s].host = NoHost /\ ~row'[s].token
    BY DEF DeletedLosesAccess
  <2>1. RowStep /\ s \in Servers
    BY StepRows, StepAll DEF TypeInv, OthersOK, Servers
  <2>2. CASE Deletes(s)
    BY <2>2, Values DEF Deletes
  <2>3. CASE ~Deletes(s)
    <3>1. s \in deleted /\ (Leaves(s) \/ Inserts(s))
      BY <2>1, <2>3 DEF RowStep, Creates, Moves
    <3>. QED BY <3>1 DEF Leaves, Inserts, DeletedLosesAccess
  <2>. QED BY <2>2, <2>3
<1>. QED BY <1>1, <1>2, InitAll, StepAll, PTL DEF Spec

\* However old the copy of a row is that a refresh works on, it does not change the
\* kind of the row, and nobody but an edit changes the endpoint; a name changes by an
\* edit alone, but for the local host and an agent whose server was never renamed:
\* those take the host's name (entities.go:542-600, server.go:440-470).
THEOREM OperatorsChoose == Spec => ChoicesStay
<1>1. TypeInv /\ [Next]_vars =>
        [\A s \in Servers :
           /\ (Exists(s) /\ row'[s].kind # "none")
              => /\ row'[s].kind = row[s].kind
                 /\ (row'[s].host # row[s].host => edit.at = "endpoint")
           /\ Renamed(s) => edit.at = "name" \/ (s \in Agents \cup {Local} /\ ~row[s].chosen)]_vars
  <2> SUFFICES ASSUME TypeInv, [Next]_vars, NEW s \in Servers, Exists(s), row'[s].kind # "none"
               PROVE  /\ row'[s].kind = row[s].kind
                      /\ row'[s].host # row[s].host => edit.at = "endpoint"
                      /\ row'[s].name # row[s].name => edit.at = "name" \/ (s \in Agents \cup {Local} /\ ~row[s].chosen)
    BY DEF Renamed
  <2>1. Leaves(s) \/ Moves(s)
    BY StepRows, Values DEF RowStep, Inserts, Creates, Deletes
  <2>2. s \in Directs => row[s].chosen
    BY ServerAssumption DEF TypeInv, RowsOK, RowOK, KindOf, Exists
  <2>. QED BY <2>1, <2>2 DEF Leaves, Moves, Servers
<1>. QED BY <1>1, InitAll, StepAll, PTL DEF Spec, ChoicesStay

-----------------------------------------------------------------------------
(* Why a refresh that nobody overtook knows every pinned container that    *)
(* runs where the row says: its copy names the row's host, what the row    *)
(* shows has not changed since, and what it did not look at was not there. *)

Looked(q) == q.seen \cup q.missed

HostIn(rows, s) == IF s \in Directs THEN rows[s].host ELSE s

Sees(seen, rows, s, here) == \A c \in rows[s].shows \cap here : Home[c] = HostIn(rows, s) => c \in seen

CopyFits(c, rows, dead) ==
  /\ rows[c.id].kind # "none" \/ c.id \in dead
  /\ c.id \in Directs /\ ~c.late /\ rows[c.id].kind # "none" => rows[c.id].host \in {c.host, NoHost}

PollFits(q, rows, dead, here, past) ==
  /\ CopyFits(q.copy, rows, dead)
  /\ q.at = "take" => q.via = q.copy.host
  /\ q.seen \subseteq here \cup past
  /\ q.at \in {"name", "store"} /\ ~q.copy.late => Sees(Looked(q), rows, q.copy.id, here)

RowFits(s, rows, here, past) ==
  (rows[s].kind = "none" => rows[s].shows = {}) /\ rows[s].shows \subseteq here \cup past

RowsFit == Exists(Local) /\ \A s \in Servers : RowFits(s, row, there, gone)

PollsFit ==
  /\ \A c \in todo : CopyFits(c, row, deleted)
  /\ \A p \in Pollers : PollFits(poll[p], row, deleted, there, gone)

ReportsFit ==
  \A a \in Agents : /\ report[a].seen \subseteq there \cup gone
                    /\ report[a].at # "idle" => Sees(Looked(report[a]), row, a, there)

EditFits ==
  /\ edit.at # "idle" => Exists(edit.id) \/ edit.id \in deleted
  /\ edit.at = "prime" /\ Exists(edit.id) => row[edit.id].host \in {edit.host, NoHost}

PinInv == RowsFit /\ PollsFit /\ ReportsFit /\ EditFits

\* What a step does to a row it does not refresh or move, and to the containers
\* there are: one that is removed does not come back.
Quiet(s, rows, dead, rows2, dead2) ==
  \/ /\ rows2[s].kind = rows[s].kind /\ rows2[s].host = rows[s].host /\ rows2[s].shows = rows[s].shows
     /\ s \in dead => s \in dead2
  \/ rows[s].kind = "none" /\ s \notin dead /\ rows2[s].kind # "none" /\ rows2[s].shows = {}
  \/ rows2[s].kind = "none" /\ rows2[s].shows = {} /\ s \in dead2 /\ s # Local

Ages(here, past, here2, past2) ==
  here \cup past \subseteq here2 \cup past2 /\ (here2 \ here) \cap (here \cup past) = {}

LEMMA UpsertShows ==
  ASSUME NEW old \in RowType, NEW copy \in CopyType, NEW kind \in {"local", "direct", "agent"},
         NEW seen \in SUBSET Containers
  PROVE  LET new == Upsert(old, copy, kind, seen) IN
         /\ new.kind # "none" /\ new.shows = seen
         /\ old.kind # "none" => new.pins = old.pins \cap seen
<1>1. CASE old.kind = "none"
  BY <1>1 DEF Upsert, UpsertNamed, NoRow
<1>2. CASE old.kind # "none"
  BY <1>2 DEF Upsert, UpsertNamed, RowType
<1>. QED BY <1>1, <1>2

LEMMA CopyStaysFit ==
  ASSUME NEW c, NEW rows, NEW dead, NEW rows2, NEW dead2,
         CopyFits(c, rows, dead), Quiet(c.id, rows, dead, rows2, dead2)
  PROVE  CopyFits(c, rows2, dead2)
BY DEF CopyFits, Quiet

LEMMA SeesStill ==
  ASSUME NEW seen, NEW rows, NEW dead, NEW rows2, NEW dead2, NEW s, NEW here, NEW past, NEW here2, NEW past2,
         Sees(seen, rows, s, here), RowFits(s, rows, here, past),
         Quiet(s, rows, dead, rows2, dead2), Ages(here, past, here2, past2)
  PROVE  Sees(seen, rows2, s, here2)
<1> SUFFICES ASSUME NEW c \in rows2[s].shows \cap here2, Home[c] = HostIn(rows2, s) PROVE c \in seen
  BY DEF Sees
<1>1. rows2[s].host = rows[s].host /\ rows2[s].shows = rows[s].shows
  BY DEF Quiet
<1>2. c \in here
  BY <1>1 DEF RowFits, Ages
<1>. QED BY <1>1, <1>2 DEF Sees, HostIn

LEMMA PollStaysFit ==
  ASSUME NEW q, NEW rows, NEW dead, NEW rows2, NEW dead2, NEW here, NEW past, NEW here2, NEW past2,
         PollFits(q, rows, dead, here, past), RowFits(q.copy.id, rows, here, past),
         Quiet(q.copy.id, rows, dead, rows2, dead2), Ages(here, past, here2, past2)
  PROVE  PollFits(q, rows2, dead2, here2, past2)
<1>1. CopyFits(q.copy, rows2, dead2)
  BY CopyStaysFit DEF PollFits
<1>2. q.seen \subseteq here2 \cup past2
  BY DEF PollFits, Ages
<1>3. q.at \in {"name", "store"} /\ ~q.copy.late => Sees(Looked(q), rows2, q.copy.id, here2)
  BY SeesStill DEF PollFits
<1>. QED BY <1>1, <1>2, <1>3 DEF PollFits

\* A copy that was overtaken only has to name a row there is or was.
LEMMA LateFits ==
  ASSUME NEW c \in CopyType, NEW s, NEW rows, NEW dead, NEW rows2, NEW dead2,
         CopyFits(c, rows, dead), rows2[s].kind # "none" \/ Quiet(s, rows, dead, rows2, dead2),
         c.id # s => Quiet(c.id, rows, dead, rows2, dead2)
  PROVE  CopyFits(Overtaken(c, s), rows2, dead2)
<1>1. CASE c.id = s
  BY <1>1 DEF CopyFits, Overtaken, CopyType, Quiet
<1>2. CASE c.id # s
  BY <1>2, CopyStaysFit DEF Overtaken
<1>. QED BY <1>1, <1>2

-----------------------------------------------------------------------------
(* The rows.                                                               *)

AllQuiet == \A s \in Servers : Quiet(s, row, deleted, row', deleted')

QuietBut(t) == \A s \in Servers \ {t} : Quiet(s, row, deleted, row', deleted')

Aged == Ages(there, gone, there', gone')

LEMMA OneQuiet ==
  ASSUME RowsOK, NEW t \in Servers, NEW new, row' = [row EXCEPT ![t] = new],
         \A s \in Servers : s \in deleted => s \in deleted' \/ s = t
  PROVE  row'[t] = new /\ QuietBut(t) /\ (Quiet(t, row, deleted, row', deleted') => AllQuiet)
BY DEF RowsOK, QuietBut, AllQuiet, Quiet

LEMMA CreateQuiet ==
  ASSUME RowsOK, NEW s \in Servers,
         (\E e \in Endpoints : s \in Directs /\ CreateDirect(s, e)) \/ (s \in Agents /\ CreateAgent(s))
  PROVE  AllQuiet
<1>1. FreshRow(s) \in RowType /\ FreshRow(s).kind # "none" /\ FreshRow(s).shows = {}
  BY Values, ServerAssumption DEF FreshRow, NoRow, Servers
<1>2. PICK new : /\ row' = [row EXCEPT ![s] = new] /\ new.kind # "none" /\ new.shows = {}
                 /\ ~Exists(s) /\ s \notin deleted /\ deleted' = deleted
  <2>1. ASSUME NEW e \in Endpoints
        PROVE [FreshRow(s) EXCEPT !.host = e].kind # "none" /\ [FreshRow(s) EXCEPT !.host = e].shows = {}
    BY <1>1 DEF RowType
  <2>. QED BY <1>1, <2>1 DEF CreateDirect, CreateAgent
<1>3. row'[s] = new /\ (Quiet(s, row, deleted, row', deleted') => AllQuiet)
  BY <1>2, OneQuiet
<1>. QED BY <1>2, <1>3 DEF Quiet, Exists

LEMMA RowsQuiet ==
  TypeInv /\ [Next]_vars =>
    \/ AllQuiet
    \/ \E p \in Pollers : Save(p)
    \/ \E a \in Agents : SaveReport(a)
    \/ EditEndpoint /\ edit.host \notin broken /\ Exists(edit.id)
<1> SUFFICES ASSUME TypeInv, [Next]_vars,
                    ~\E p \in Pollers : Save(p), ~\E a \in Agents : SaveReport(a),
                    ~(EditEndpoint /\ edit.host \notin broken /\ Exists(edit.id))
             PROVE  AllQuiet
  OBVIOUS
<1>0. RowsOK /\ \A s \in Servers : row[s] \in RowType
  BY DEF TypeInv, RowsOK
<1>1. ASSUME row' = row, deleted' = deleted PROVE AllQuiet
  BY <1>1 DEF AllQuiet, Quiet
<1>2. ASSUME NEW s \in Servers, NEW new \in RowType, row' = [row EXCEPT ![s] = new], deleted' = deleted,
             new.kind = row[s].kind, new.host = row[s].host, new.shows = row[s].shows
      PROVE AllQuiet
  <2>1. Quiet(s, row, deleted, row', deleted')
    <3>1. row'[s] = new
      BY <1>0, <1>2 DEF RowsOK
    <3>. QED BY <1>2, <3>1 DEF Quiet
  <2>. QED BY <1>0, <1>2, <2>1, OneQuiet
<1>3. ASSUME NEW s \in Servers, Mark(s) \/ Age(s) \/ \E c \in Containers, pinned \in BOOLEAN : SetPin(s, c, pinned)
      PROVE AllQuiet
  <2>1. CASE Mark(s)
    BY <1>0, <1>2, <2>1 DEF Mark, RowType
  <2>2. CASE Age(s)
    BY <1>0, <1>2, <2>2 DEF Age, RowType
  <2>3. ASSUME NEW c \in Containers, NEW pinned \in BOOLEAN, SetPin(s, c, pinned) PROVE AllQuiet
    <3>1. PICK pins \in SUBSET Containers : row' = [row EXCEPT ![s] = [row[s] EXCEPT !.pins = pins]]
      <4>1. row[s].pins \cup {c} \in SUBSET Containers /\ row[s].pins \ {c} \in SUBSET Containers
        BY <1>0 DEF RowType
      <4>2. row' = [row EXCEPT ![s] = [row[s] EXCEPT !.pins = row[s].pins \cup {c}]]
            \/ row' = [row EXCEPT ![s] = [row[s] EXCEPT !.pins = row[s].pins \ {c}]]
        BY <2>3 DEF SetPin
      <4>. QED BY <4>1, <4>2
    <3>2. [row[s] EXCEPT !.pins = pins] \in RowType
      BY <1>0 DEF RowType
    <3>. QED BY <1>0, <1>2, <2>3, <3>1, <3>2 DEF SetPin, RowType
  <2>. QED BY <1>3, <2>1, <2>2, <2>3
<1>4. CASE EditName
  <2>1. edit.id \in Servers /\ edit.name \in Names /\ deleted' = deleted
    BY <1>4 DEF EditName, TypeInv, EditOK
  <2>2. CASE Exists(edit.id)
    BY <1>0, <1>2, <1>4, <2>1, <2>2 DEF EditName, RowType
  <2>3. CASE ~Exists(edit.id)
    BY <1>0, <1>2, <1>4, <2>1, <2>3 DEF EditName
  <2>. QED BY <2>2, <2>3
<1>5. CASE EditEndpoint
  <2>1. CASE edit.host \in broken
    BY <1>1, <1>5, <2>1 DEF EditEndpoint
  <2>2. CASE edit.host \notin broken /\ ~Exists(edit.id)
    <3>1. edit.id \in Servers
      BY DEF TypeInv, EditOK
    <3>2. row' = [row EXCEPT ![edit.id] = [row[edit.id] EXCEPT !.host = row[edit.id].host]] /\ deleted' = deleted
      BY <1>5, <2>2 DEF EditEndpoint
    <3>3. row[edit.id] \in RowType
      BY <1>0, <3>1
    <3>4. [row[edit.id] EXCEPT !.host = row[edit.id].host] = row[edit.id]
      BY <3>3 DEF RowType
    <3>. QED BY <1>2, <3>1, <3>2, <3>3, <3>4
  <2>. QED BY <1>5, <2>1, <2>2
<1>6. ASSUME NEW s \in Servers, Delete(s) PROVE AllQuiet
  <2>1. row' = [row EXCEPT ![s] = NoRow] /\ deleted' = deleted \cup {s} /\ s # Local
    BY <1>6 DEF Delete
  <2>2. row'[s] = NoRow /\ s \in deleted' /\ \A t \in Servers : t \in deleted => t \in deleted' \/ t = s
    BY <1>0, <2>1, Zenon DEF RowsOK
  <2>3. Quiet(s, row, deleted, row', deleted')
    BY <2>1, <2>2 DEF Quiet, NoRow
  <2>. QED BY <1>0, <2>1, <2>2, <2>3, OneQuiet
<1>7. ASSUME NEW s \in Servers, (\E e \in Endpoints : s \in Directs /\ CreateDirect(s, e)) \/ (s \in Agents /\ CreateAgent(s))
      PROVE AllQuiet
  BY <1>0, <1>7, CreateQuiet
<1>8. CASE Restart
  <2>1. deleted' = deleted /\ row' = [s \in Servers |-> IF s = Local THEN row[s] ELSE [row[s] EXCEPT !.online = FALSE]]
    BY <1>8 DEF Restart
  <2>2. ASSUME NEW s \in Servers PROVE Quiet(s, row, deleted, row', deleted')
    <3>1. row[s] \in RowType /\ (row'[s] = row[s] \/ row'[s] = [row[s] EXCEPT !.online = FALSE])
      BY <1>0, <2>1
    <3>2. row'[s].kind = row[s].kind /\ row'[s].host = row[s].host /\ row'[s].shows = row[s].shows
      BY <3>1 DEF RowType
    <3>. QED BY <2>1, <3>2 DEF Quiet
  <2>. QED BY <2>2 DEF AllQuiet
<1>9. CASE StartPass \/ List \/ NextServer \/ ReadName \/ EditPrime \/ MarkList \/ UNCHANGED vars
  BY <1>1, <1>9 DEF StartPass, List, NextServer, ReadName, EditPrime, MarkList, vars
<1>10. ASSUME NEW p \in Pollers, Poll(p) PROVE AllQuiet
  BY <1>1, <1>10 DEF Poll, Get, GetIf, Take
<1>11. ASSUME NEW a \in Agents, Agent(a) PROVE AllQuiet
  BY <1>1, <1>11 DEF Agent, Report, Authenticate
<1>12. ASSUME NEW s \in Servers, Forget(s) \/ \E e \in Hosts : Edit(s, "second", e) PROVE AllQuiet
  BY <1>1, <1>12 DEF Forget, Edit
<1>13. CASE (\E c \in Containers : Appear(c) \/ Vanish(c)) \/ (\E m \in Machines : Toggle(m))
            \/ (\E e \in Endpoints : Reload(e))
  BY <1>1, <1>13 DEF Appear, Vanish, Toggle, Reload
<1>. QED BY <1>3, <1>4, <1>5, <1>6, <1>7, <1>8, <1>9, <1>10, <1>11, <1>12, <1>13
     DEF Next, Pass, Editing, Operator, Environment, Pollers, Servers

LEMMA StepAges == TypeInv /\ [Next]_vars => Aged
<1> SUFFICES ASSUME TypeInv, [Next]_vars PROVE Aged
  OBVIOUS
<1>1. CASE UNCHANGED <<there, gone>>
  BY <1>1 DEF Aged, Ages
<1>2. ASSUME NEW c \in Containers, Appear(c) \/ Vanish(c) PROVE Aged
  BY <1>2 DEF Appear, Vanish, Aged, Ages
<1>3. CASE Pass \/ Editing \/ MarkList \/ Restart \/ UNCHANGED vars
  BY <1>1, <1>3
     DEF Pass, StartPass, List, NextServer, ReadName, Poll, Get, GetIf, Take, Save, Editing, EditName,
         EditEndpoint, EditPrime, MarkList, Restart, vars, world
<1>4. ASSUME NEW p \in Pollers, Poll(p) PROVE Aged
  BY <1>1, <1>4 DEF Poll, Get, GetIf, Take, Save, world
<1>5. ASSUME NEW a \in Agents, Agent(a) \/ CreateAgent(a) PROVE Aged
  BY <1>1, <1>5 DEF Agent, Report, Authenticate, SaveReport, CreateAgent, world
<1>6. ASSUME NEW s \in Servers,
             \/ Mark(s) \/ Forget(s) \/ Delete(s) \/ Age(s)
             \/ \E e \in Hosts : Edit(s, "second", e)
             \/ \E e \in Endpoints : CreateDirect(s, e)
             \/ \E c \in Containers, pinned \in BOOLEAN : SetPin(s, c, pinned)
      PROVE Aged
  BY <1>1, <1>6 DEF Mark, Forget, Delete, Age, Edit, CreateDirect, SetPin, world
<1>7. CASE (\E m \in Machines : Toggle(m)) \/ (\E e \in Endpoints : Reload(e))
  BY <1>1, <1>7 DEF Toggle, Reload
<1>. QED BY <1>2, <1>3, <1>4, <1>5, <1>6, <1>7 DEF Next, Operator, Environment, Pollers, Servers

\* A row that was refreshed shows what was there.
LEMMA StepRowsFit == TypeInv /\ PinInv /\ [Next]_vars => RowsFit'
<1> SUFFICES ASSUME TypeInv, PinInv, [Next]_vars PROVE RowsFit'
  OBVIOUS
<1>0. RowsOK /\ RowsFit /\ Aged
  BY StepAges DEF TypeInv, PinInv
<1>1. ASSUME NEW s \in Servers, Quiet(s, row, deleted, row', deleted')
      PROVE RowFits(s, row', there', gone') /\ (s = Local => Exists(s)')
  BY <1>0, <1>1 DEF RowsFit, RowFits, Quiet, Aged, Ages, Exists
<1>2. CASE AllQuiet
  BY <1>1, <1>2 DEF AllQuiet, RowsFit, Servers
<1>3. ASSUME NEW t \in Servers, NEW copy \in CopyType, NEW kind \in {"local", "direct", "agent"},
             NEW seen \in SUBSET Containers, Store(t, copy, kind, seen), seen \subseteq there \cup gone,
             deleted' = deleted
      PROVE RowsFit'
  <2>1. row' = [row EXCEPT ![t] = Upsert(row[t], copy, kind, seen)] /\ row[t] \in RowType
    BY <1>0, <1>3 DEF Store, RowsOK
  <2>2. QuietBut(t) /\ row'[t] = Upsert(row[t], copy, kind, seen)
    BY <1>0, <1>3, <2>1, OneQuiet
  <2>3. Exists(t)' /\ row'[t].shows = seen
    BY <2>1, <2>2, UpsertShows DEF Exists
  <2>4. RowFits(t, row', there', gone')
    BY <1>0, <1>3, <2>3 DEF RowFits, Aged, Ages, Exists
  <2>. QED BY <1>1, <2>2, <2>3, <2>4 DEF QuietBut, RowsFit, Servers
<1>4. ASSUME NEW p \in Pollers, Save(p) PROVE RowsFit'
  <2>1. /\ poll[p].copy.id \in Servers /\ poll[p].copy \in CopyType /\ poll[p].seen \in SUBSET Containers
        /\ poll[p].seen \subseteq there \cup gone
    BY <1>4 DEF TypeInv, PollsOK, PollType, CopyType, PinInv, PollsFit, PollFits
  <2>2. PICK kind \in {"local", "direct", "agent"} : Store(poll[p].copy.id, poll[p].copy, kind, poll[p].seen)
    BY <1>4 DEF Save
  <2>. QED BY <1>3, <1>4, <2>1, <2>2 DEF Save
<1>5. ASSUME NEW a \in Agents, SaveReport(a) PROVE RowsFit'
  <2> DEFINE copy == [id |-> a, host |-> NoHost, name |-> "hostname", late |-> FALSE]
  <2>1. a \in Servers /\ copy \in CopyType /\ report[a].seen \in SUBSET Containers
        /\ report[a].seen \subseteq there \cup gone
    BY DEF CopyType, Servers, Hosts, Names, TypeInv, OthersOK, ReportType, PinInv, ReportsFit
  <2>2. Store(a, copy, "agent", report[a].seen) /\ deleted' = deleted
    BY <1>5 DEF SaveReport
  <2> HIDE DEF copy
  <2>. QED BY <1>3, <2>1, <2>2
<1>6. CASE EditEndpoint /\ edit.host \notin broken /\ Exists(edit.id)
  <2>1. /\ edit.id \in Servers /\ row[edit.id] \in RowType
        /\ row' = [row EXCEPT ![edit.id] = [row[edit.id] EXCEPT !.host = edit.host]]
        /\ deleted' = deleted \ {edit.id}
    BY <1>0, <1>6 DEF EditEndpoint, TypeInv, EditOK, RowsOK
  <2>2. QuietBut(edit.id) /\ row'[edit.id] = [row[edit.id] EXCEPT !.host = edit.host]
    BY <1>0, <2>1, OneQuiet
  <2>3. row'[edit.id].kind = row[edit.id].kind /\ row'[edit.id].shows = row[edit.id].shows
    BY <2>1, <2>2 DEF RowType
  <2>4. RowFits(edit.id, row', there', gone') /\ row'[edit.id].kind # "none"
    BY <1>0, <1>6, <2>1, <2>3 DEF RowsFit, RowFits, Aged, Ages, Exists
  <2>5. ASSUME NEW s \in Servers PROVE RowFits(s, row', there', gone') /\ (s = Local => Exists(s)')
    BY <1>1, <2>2, <2>4 DEF QuietBut, Exists
  <2>. QED BY <2>5 DEF RowsFit, Servers
<1>7. \/ AllQuiet \/ (\E p \in Pollers : Save(p)) \/ (\E a \in Agents : SaveReport(a))
      \/ EditEndpoint /\ edit.host \notin broken /\ Exists(edit.id)
  BY RowsQuiet
<1>. QED BY <1>2, <1>4, <1>5, <1>6, <1>7

-----------------------------------------------------------------------------
(* The refreshes.                                                          *)

LEMMA IdleFits ==
  ASSUME NEW rows, NEW dead, NEW here, NEW past, rows[Local].kind # "none", NEW at \in {"idle", "list"}
  PROVE  PollFits([Idle EXCEPT !.at = at], rows, dead, here, past)
<1>1. /\ [Idle EXCEPT !.at = at].at = at /\ [Idle EXCEPT !.at = at].seen = {}
      /\ [Idle EXCEPT !.at = at].copy = [id |-> Local, host |-> NoHost, name |-> "hostname", late |-> FALSE]
  BY DEF Idle
<1>2. Local \notin Directs
  BY ServerAssumption
<1>. QED BY <1>1, <1>2 DEF PollFits, CopyFits

\* A copy that was just read, or an endpoint that was just written.
LEMMA GetsFit ==
  ASSUME NEW c \in CopyType, NEW rows, NEW dead, NEW here, NEW past, CopyFits(c, rows, dead)
  PROVE  PollFits([Idle EXCEPT !.at = "get", !.copy = c], rows, dead, here, past)
<1>1. /\ [Idle EXCEPT !.at = "get", !.copy = c].at = "get" /\ [Idle EXCEPT !.at = "get", !.copy = c].seen = {}
      /\ [Idle EXCEPT !.at = "get", !.copy = c].copy = c
  BY DEF Idle
<1>. QED BY <1>1 DEF PollFits

\* What Snapshot looks at is all that the row shows of the containers there are.
LEMMA TakenFits ==
  ASSUME NEW q \in PollType, q.copy.id \in Directs, NEW rows, NEW dead, NEW here, NEW past, NEW seen, NEW missed,
         PollFits(q, rows, dead, here, past), RowFits(q.copy.id, rows, here, past), q.at = "take",
         here \subseteq Containers, seen \cup missed = {c \in here : Home[c] = q.via}
  PROVE  PollFits([q EXCEPT !.at = "store", !.seen = seen, !.missed = missed], rows, dead, here, past)
<1> DEFINE new == [q EXCEPT !.at = "store", !.seen = seen, !.missed = missed]
<1>1. new.at = "store" /\ new.seen = seen /\ new.missed = missed /\ new.copy = q.copy
  BY DEF PollType
<1>2. ASSUME ~q.copy.late PROVE Sees(seen \cup missed, rows, q.copy.id, here)
  <2> SUFFICES ASSUME NEW c \in rows[q.copy.id].shows \cap here, Home[c] = HostIn(rows, q.copy.id)
               PROVE  c \in seen \cup missed
    BY DEF Sees
  <2>1. rows[q.copy.id].host \in {q.via, NoHost} /\ Home[c] = rows[q.copy.id].host
    BY <1>2 DEF PollFits, CopyFits, RowFits, HostIn
  <2>2. Home[c] # NoHost
    BY HomeAssumption, HostAssumption
  <2>. QED BY <2>1, <2>2
<1> HIDE DEF new
<1>3. PollFits(new, rows, dead, here, past)
  BY <1>1, <1>2 DEF PollFits, Looked
<1>. QED BY <1>3 DEF new

LEMMA StepPollsFit == TypeInv /\ PinInv /\ [Next]_vars => PollsFit'
<1> SUFFICES ASSUME TypeInv, PinInv, [Next]_vars PROVE PollsFit'
  OBVIOUS
<1>0. /\ RowsOK /\ PollsOK /\ EditOK /\ RowsFit /\ PollsFit /\ RowsFit' /\ Aged
      /\ there \subseteq Containers
  BY StepAges, StepRowsFit DEF TypeInv, PinInv, OthersOK
<1>p. ASSUME NEW p \in Pollers
      PROVE  /\ poll[p] \in PollType /\ poll[p].copy \in CopyType /\ poll[p].copy.id \in Servers
             /\ PollFits(poll[p], row, deleted, there, gone) /\ RowFits(poll[p].copy.id, row, there, gone)
  BY <1>0 DEF PollsOK, PollType, CopyType, PollsFit, RowsFit
<1>c. ASSUME NEW c \in todo PROVE c \in CopyType /\ c.id \in Servers /\ CopyFits(c, row, deleted)
  BY <1>0 DEF PollsOK, CopyType, PollsFit
<1>l. row[Local].kind # "none" /\ row'[Local].kind # "none"
  BY <1>0 DEF RowsFit, Exists
\* What nobody goes on with stays as it was.
<1>q. ASSUME AllQuiet
      PROVE  /\ \A c \in todo : CopyFits(c, row', deleted')
             /\ \A p \in Pollers : PollFits(poll[p], row', deleted', there', gone')
  <2>1. ASSUME NEW c \in todo PROVE CopyFits(c, row', deleted')
    BY <1>c, <1>q, CopyStaysFit DEF AllQuiet
  <2>2. ASSUME NEW p \in Pollers PROVE PollFits(poll[p], row', deleted', there', gone')
    BY <1>0, <1>p, <1>q, PollStaysFit DEF AllQuiet, Aged
  <2>. QED BY <2>1, <2>2
<1>1. CASE AllQuiet /\ poll' = poll /\ todo' = todo
  BY <1>1, <1>q DEF PollsFit
\* One of them goes on, and the rows stay.
<1>2. ASSUME NEW p \in Pollers, NEW q, poll' = [poll EXCEPT ![p] = q], AllQuiet,
             PollFits(q, row', deleted', there', gone'), \A c \in todo' : CopyFits(c, row', deleted')
      PROVE PollsFit'
  <2>1. \A r \in Pollers : poll'[r] = IF r = p THEN q ELSE poll[r]
    BY <1>0, <1>2 DEF PollsOK
  <2>2. \A r \in Pollers : PollFits(poll'[r], row', deleted', there', gone')
    BY <1>2, <1>q, <2>1
  <2>. QED BY <1>2, <2>2 DEF PollsFit
<1>3. ASSUME row' = row, deleted' = deleted PROVE AllQuiet
  BY <1>3 DEF AllQuiet, Quiet
<1>4. CASE StartPass
  <2>1. row' = row /\ deleted' = deleted /\ there' = there /\ gone' = gone /\ todo' = todo /\ Loop \in Pollers
    BY <1>4 DEF StartPass, world, Pollers
  <2>2. CASE Local \in up
    <3>0. PICK seen \in SUBSET Containers :
            /\ Snapshot(Local, seen)
            /\ poll' = [poll EXCEPT ![Loop] = [at |-> "name", copy |-> CopyOf(Local), via |-> Local,
                                               seen |-> seen, missed |-> Missed(Local, seen)]]
      BY <1>4, <2>2 DEF StartPass
    <3> DEFINE q == [at |-> "name", copy |-> CopyOf(Local), via |-> Local,
                     seen |-> seen, missed |-> Missed(Local, seen)]
    <3>1. poll' = [poll EXCEPT ![Loop] = q]
      BY <3>0
    <3>2. PollFits(q, row, deleted, there, gone)
      BY <1>l, <3>0, ServerAssumption DEF PollFits, CopyFits, CopyOf, RunsOn, Sees, HostIn, Looked, Snapshot, Missed
    <3> HIDE DEF q
    <3>. QED BY <1>2, <1>3, <1>q, <2>1, <3>1, <3>2
  <2>3. CASE Local \notin up
    <3>1. poll' = [poll EXCEPT ![Loop] = [Idle EXCEPT !.at = "list"]]
      BY <1>4, <2>3 DEF StartPass
    <3>2. PollFits([Idle EXCEPT !.at = "list"], row, deleted, there, gone)
      BY <1>l, IdleFits
    <3>. QED BY <1>2, <1>3, <1>q, <2>1, <3>1, <3>2
  <2>. QED BY <2>2, <2>3
<1>5. CASE ReadName
  <2>1. row' = row /\ deleted' = deleted /\ there' = there /\ gone' = gone /\ todo' = todo /\ Loop \in Pollers
    BY <1>5 DEF ReadName, world, Pollers
  <2>2. PICK n : poll' = [poll EXCEPT ![Loop] = [poll[Loop] EXCEPT !.at = "store", !.copy.name = n]]
    BY <1>0, <1>5 DEF ReadName, PollsOK
  <2> DEFINE q == [poll[Loop] EXCEPT !.at = "store", !.copy.name = n]
  <2>3. /\ q.at = "store" /\ q.seen = poll[Loop].seen /\ q.missed = poll[Loop].missed
        /\ q.copy.id = poll[Loop].copy.id
        /\ q.copy.host = poll[Loop].copy.host /\ q.copy.late = poll[Loop].copy.late
    BY <1>p, <2>1 DEF PollType, CopyType
  <2>4. poll[Loop].at = "name"
    BY <1>5 DEF ReadName
  <2>5. poll' = [poll EXCEPT ![Loop] = q]
    BY <2>2
  <2> HIDE DEF q
  <2>6. PollFits(q, row, deleted, there, gone)
    BY <1>p, <2>1, <2>3, <2>4 DEF PollFits, CopyFits, Looked
  <2>. QED BY <1>2, <1>3, <1>q, <2>1, <2>5, <2>6
<1>6. CASE List
  <2>1. row' = row /\ deleted' = deleted /\ there' = there /\ gone' = gone /\ Loop \in Pollers
        /\ poll' = [poll EXCEPT ![Loop] = Idle] /\ todo' = {CopyOf(s) : s \in {d \in Directs : Exists(d)}}
    BY <1>6 DEF List, world, Pollers
  <2>2. PollFits(Idle, row, deleted, there, gone)
    BY <1>l, ServerAssumption DEF PollFits, CopyFits, Idle
  <2>3. \A c \in todo' : CopyFits(c, row, deleted)
    BY <2>1 DEF CopyFits, CopyOf, Exists
  <2>. QED BY <1>2, <1>3, <2>1, <2>2, <2>3
<1>7. CASE NextServer
  <2>1. row' = row /\ deleted' = deleted /\ there' = there /\ gone' = gone /\ Loop \in Pollers
    BY <1>7 DEF NextServer, world, Pollers
  <2>2. PICK c \in todo : todo' = todo \ {c} /\ poll' = [poll EXCEPT ![Loop] = [Idle EXCEPT !.at = "get", !.copy = c]]
    BY <1>7 DEF NextServer
  <2>3. PollFits([Idle EXCEPT !.at = "get", !.copy = c], row, deleted, there, gone)
    BY <1>c, GetsFit
  <2>. QED BY <1>2, <1>3, <1>c, <2>1, <2>2, <2>3
<1>8. ASSUME NEW p \in Pollers, poll' = [poll EXCEPT ![p] = Over(p)], todo' = todo, AllQuiet PROVE PollsFit'
  <2>1. PICK at \in {"idle", "list"} : Over(p) = [Idle EXCEPT !.at = at]
    BY DEF Over
  <2>2. PollFits([Idle EXCEPT !.at = at], row', deleted', there', gone')
    BY <1>l, IdleFits
  <2>. QED BY <1>2, <1>8, <1>q, <2>1, <2>2
<1>9. ASSUME NEW p \in Pollers, Get(p) PROVE PollsFit'
  <2>1. row' = row /\ deleted' = deleted /\ there' = there /\ gone' = gone /\ todo' = todo
    BY <1>9 DEF Get, GetIf, world
  <2>2. CASE poll' = [poll EXCEPT ![p] = Over(p)]
    BY <1>3, <1>8, <2>1, <2>2
  <2>3. CASE poll' # [poll EXCEPT ![p] = Over(p)]
    <3> DEFINE c == poll[p].copy
               q == [poll[p] EXCEPT !.at = "take", !.via = c.host]
    <3>1. pool'[c.id].host = c.host
      <4>1. c.id \in Directs /\ pool \in [Directs -> Client]
        BY <1>9, GetPools DEF TypeInv, OthersOK
      <4>2. \/ pool' = [pool EXCEPT ![c.id] = pool[c.id]] /\ pool[c.id].host = c.host
            \/ pool' = [pool EXCEPT ![c.id] = [host |-> c.host, usable |-> c.host \in Endpoints \ broken]]
        BY <1>9 DEF Get, GetIf
      <4>. QED BY <4>1, <4>2
    <3>2. poll' = [poll EXCEPT ![p] = q]
      BY <1>9, <2>3, <3>1 DEF Get, GetIf
    <3>3. q.at = "take" /\ q.via = q.copy.host /\ q.seen = poll[p].seen /\ q.copy = c
      BY <1>p DEF PollType
    <3>4. PollFits(q, row, deleted, there, gone)
      BY <1>p, <3>3 DEF PollFits
    <3> HIDE DEF q
    <3>. QED BY <1>2, <1>3, <1>q, <2>1, <3>2, <3>4
  <2>. QED BY <2>2, <2>3
<1>10. ASSUME NEW p \in Pollers, Take(p) PROVE PollsFit'
  <2>1. row' = row /\ deleted' = deleted /\ there' = there /\ gone' = gone /\ todo' = todo /\ poll[p].at = "take"
    BY <1>10 DEF Take, world
  <2>2. CASE poll' = [poll EXCEPT ![p] = Over(p)]
    BY <1>3, <1>8, <2>1, <2>2
  <2>3. CASE poll' # [poll EXCEPT ![p] = Over(p)]
    <3>1. poll[p].copy.id \in Directs
      BY <1>0, <2>1 DEF PollsOK
    <3>2. PICK seen, missed \in SUBSET Containers :
            /\ seen \cup missed = RunsOn(poll[p].via)
            /\ poll' = [poll EXCEPT ![p] = [poll[p] EXCEPT !.at = "store", !.seen = seen, !.missed = missed]]
      BY <1>0, <1>10, <2>3, OneLook DEF TypeInv
    <3>3. PollFits([poll[p] EXCEPT !.at = "store", !.seen = seen, !.missed = missed], row, deleted, there, gone)
      BY <1>0, <1>p, <2>1, <3>1, <3>2, TakenFits DEF RunsOn
    <3>. QED BY <1>2, <1>3, <1>q, <2>1, <3>2, <3>3
  <2>. QED BY <2>2, <2>3
\* A row is written: every other copy of it is overtaken.
<1>11. ASSUME NEW s \in Servers, AllQuiet \/ (QuietBut(s) /\ row'[s].kind # "none"), NEW over \in SUBSET Pollers,
              todo' = {Overtaken(c, s) : c \in todo},
              poll' = [r \in Pollers |-> IF r \in over THEN Over(r)
                                         ELSE [poll[r] EXCEPT !.copy = Overtaken(poll[r].copy, s)]]
       PROVE PollsFit'
  <2>1. ASSUME NEW c \in CopyType, c.id \in Servers, CopyFits(c, row, deleted)
        PROVE CopyFits(Overtaken(c, s), row', deleted')
    BY <1>11, <2>1, LateFits DEF QuietBut, AllQuiet
  <2>2. \A c \in todo' : CopyFits(c, row', deleted')
    BY <1>11, <1>c, <2>1
  <2>3. ASSUME NEW r \in Pollers PROVE PollFits(poll'[r], row', deleted', there', gone')
    <3>1. CASE r \in over
      <4>1. PICK at \in {"idle", "list"} : poll'[r] = [Idle EXCEPT !.at = at]
        BY <1>11, <3>1 DEF Over
      <4>. QED BY <1>l, <4>1, IdleFits
    <3>2. CASE r \notin over
      <4> DEFINE c == poll[r].copy
                 q == [poll[r] EXCEPT !.copy = Overtaken(c, s)]
      <4>1. poll'[r] = q
        BY <1>11, <3>2
      <4>2. /\ q.at = poll[r].at /\ q.via = poll[r].via /\ q.seen = poll[r].seen
            /\ Looked(q) = Looked(poll[r]) /\ q.copy = Overtaken(c, s)
        BY <1>p DEF PollType, Looked
      <4>3. CopyFits(Overtaken(c, s), row', deleted')
        BY <1>p, <2>1 DEF PollFits
      <4>4. /\ Overtaken(c, s).id = c.id /\ Overtaken(c, s).host = c.host
            /\ Overtaken(c, s).late \/ (c.id # s /\ Overtaken(c, s) = c)
        BY <1>p DEF Overtaken, CopyType
      <4>5. c.id # s => PollFits(poll[r], row', deleted', there', gone')
        BY <1>0, <1>11, <1>p, PollStaysFit DEF QuietBut, AllQuiet, Aged
      <4>6. q.seen \subseteq there' \cup gone' /\ (q.at = "take" => q.via = q.copy.host)
        BY <1>0, <1>p, <4>2, <4>4 DEF PollFits, Aged, Ages
      <4>7. q.at \in {"name", "store"} /\ ~q.copy.late => Sees(Looked(q), row', q.copy.id, there')
        BY <4>2, <4>4, <4>5 DEF PollFits
      <4> HIDE DEF q
      <4>. QED BY <4>1, <4>2, <4>3, <4>6, <4>7 DEF PollFits
    <3>. QED BY <3>1, <3>2
  <2>. QED BY <2>2, <2>3 DEF PollsFit
<1>12. ASSUME NEW p \in Pollers, Save(p) PROVE PollsFit'
  <2>0. PICK over \in SUBSET Pollers, s \in Servers : over = {p} /\ s = poll[p].copy.id
    BY <1>p
  <2>1. /\ todo' = {Overtaken(c, s) : c \in todo} /\ deleted' = deleted
        /\ poll' = [r \in Pollers |-> IF r \in over THEN Over(r)
                                      ELSE [poll[r] EXCEPT !.copy = Overtaken(poll[r].copy, s)]]
    BY <1>12, <2>0 DEF Save
  <2>2. PICK kind \in {"local", "direct", "agent"} : row' = [row EXCEPT ![s] = Upsert(row[s], poll[p].copy, kind, poll[p].seen)]
    BY <1>12, <2>0 DEF Save, Store
  <2>3. QuietBut(s) /\ row'[s] = Upsert(row[s], poll[p].copy, kind, poll[p].seen)
    BY <1>0, <2>1, <2>2, OneQuiet
  <2>4. row'[s].kind # "none"
    <3>1. row[s] \in RowType /\ poll[p].copy \in CopyType /\ poll[p].seen \in SUBSET Containers
      BY <1>0, <1>p DEF RowsOK, PollType
    <3>. QED BY <2>3, <3>1, UpsertShows
  <2>. QED BY <1>11, <2>1, <2>3, <2>4
<1>13. CASE EditEndpoint /\ edit.host \notin broken /\ Exists(edit.id)
  <2>0. PICK over \in SUBSET Pollers, s \in Servers : over = {} /\ s = edit.id
    BY <1>0 DEF EditOK
  <2>1. /\ row' = [row EXCEPT ![s] = [row[s] EXCEPT !.host = edit.host]] /\ deleted' = deleted \ {s}
        /\ todo' = {Overtaken(c, s) : c \in todo}
        /\ poll' = [r \in Pollers |-> IF r \in over THEN Over(r)
                                      ELSE [poll[r] EXCEPT !.copy = Overtaken(poll[r].copy, s)]]
    BY <1>13, <2>0 DEF EditEndpoint
  <2>2. QuietBut(s) /\ row'[s] = [row[s] EXCEPT !.host = edit.host]
    BY <1>0, <2>1, OneQuiet
  <2>3. row'[s].kind # "none"
    BY <1>0, <1>13, <2>0, <2>2 DEF RowsOK, RowType, Exists
  <2>. QED BY <1>11, <2>1, <2>2, <2>3
<1>14. ASSUME NEW c \in CopyType, AllQuiet, CopyFits(c, row', deleted'), Spawn(c), todo' = todo PROVE PollsFit'
  <2>1. PICK g \in Goroutines : poll' = [poll EXCEPT ![g] = [Idle EXCEPT !.at = "get", !.copy = c]]
    BY <1>14 DEF Spawn
  <2>2. PollFits([Idle EXCEPT !.at = "get", !.copy = c], row', deleted', there', gone')
    BY <1>14, GetsFit
  <2>. QED BY <1>2, <1>14, <1>q, <2>1, <2>2 DEF Pollers
<1>15. CASE EditPrime
  <2> DEFINE c == [id |-> edit.id, host |-> edit.host, name |-> edit.name, late |-> FALSE]
  <2>1. row' = row /\ deleted' = deleted /\ todo' = todo /\ Spawn(c) /\ edit.at = "prime"
    BY <1>15 DEF EditPrime
  <2>2. c \in CopyType
    BY <1>0 DEF EditOK, CopyType
  <2>3. CopyFits(c, row, deleted)
    BY <2>1 DEF PinInv, EditFits, CopyFits, Exists
  <2> HIDE DEF c
  <2>. QED BY <1>3, <1>14, <2>1, <2>2, <2>3
<1>16. ASSUME NEW s \in Directs, NEW e \in Endpoints, CreateDirect(s, e) PROVE PollsFit'
  <2> DEFINE c == [id |-> s, host |-> e, name |-> "first", late |-> FALSE]
  <2>1. todo' = todo /\ Spawn(c) /\ row' = [row EXCEPT ![s] = [FreshRow(s) EXCEPT !.host = e]] /\ s \in Servers
    BY <1>16 DEF CreateDirect, Servers
  <2>2. c \in CopyType
    BY DEF CopyType, Servers, Hosts, Names
  <2>3. FreshRow(s) = [NoRow EXCEPT !.kind = "direct", !.name = "first", !.chosen = TRUE]
    BY ServerAssumption DEF FreshRow
  <2>4. row'[s] = [FreshRow(s) EXCEPT !.host = e] /\ row'[s].host = e /\ row'[s].kind = "direct"
    BY <1>0, <2>1, <2>3 DEF RowsOK, NoRow
  <2>5. CopyFits(c, row', deleted')
    BY <2>4 DEF CopyFits
  <2> HIDE DEF c
  <2>6. AllQuiet
    BY <1>0, <1>16, CreateQuiet DEF Servers
  <2>. QED BY <1>14, <2>1, <2>2, <2>5, <2>6
<1>17. CASE Restart
  <2>1. todo' = {} /\ poll' = [p \in Pollers |-> Idle]
    BY <1>17 DEF Restart
  <2>2. PollFits(Idle, row', deleted', there', gone')
    BY <1>l, ServerAssumption DEF PollFits, CopyFits, Idle
  <2>. QED BY <2>1, <2>2 DEF PollsFit
\* An agent's report writes the agent's row, which nobody refreshes.
<1>18. ASSUME NEW a \in Agents, SaveReport(a) PROVE PollsFit'
  <2>1. /\ poll' = poll /\ todo' = todo /\ deleted' = deleted /\ a \in Servers
        /\ row' = [row EXCEPT ![a] = Upsert(row[a], [id |-> a, host |-> NoHost, name |-> "hostname", late |-> FALSE], "agent", report[a].seen)]
    BY <1>18 DEF SaveReport, Store, Servers
  <2>2. QuietBut(a)
    BY <1>0, <2>1, OneQuiet
  <2>3. row'[a].kind # "none"
    <3>1. /\ [id |-> a, host |-> NoHost, name |-> "hostname", late |-> FALSE] \in CopyType
          /\ row[a] \in RowType /\ report[a].seen \in SUBSET Containers
      BY <1>0, <2>1 DEF CopyType, Hosts, Names, RowsOK, TypeInv, OthersOK, ReportType
    <3>2. row'[a] = Upsert(row[a], [id |-> a, host |-> NoHost, name |-> "hostname", late |-> FALSE], "agent", report[a].seen)
      BY <1>0, <2>1 DEF RowsOK
    <3>. QED BY <3>1, <3>2, UpsertShows
  <2>4. a # Local /\ a \notin Directs
    BY ServerAssumption
  <2>5. ASSUME NEW c \in todo PROVE CopyFits(c, row', deleted')
    <3>1. c.id # a
      BY <1>0, <2>4 DEF PollsOK
    <3>. QED BY <1>c, <2>2, <3>1, CopyStaysFit DEF QuietBut
  <2>6. ASSUME NEW p \in Pollers PROVE PollFits(poll[p], row', deleted', there', gone')
    <3>1. CASE poll[p].copy.id # a
      BY <1>0, <1>p, <2>2, <3>1, PollStaysFit DEF QuietBut, Aged
    <3>2. CASE poll[p].copy.id = a
      <4>1. poll[p].at \in {"idle", "list"}
        BY <1>0, <1>p, <2>4, <3>2 DEF PollsOK, PollType
      <4>. QED BY <1>0, <1>p, <2>3, <2>4, <3>2, <4>1 DEF PollFits, CopyFits, Aged, Ages
    <3>. QED BY <3>1, <3>2
  <2>. QED BY <2>1, <2>5, <2>6 DEF PollsFit
<1>19. CASE EditEndpoint /\ AllQuiet
  <2>1. CASE edit.host \in broken
    BY <1>1, <1>19, <2>1 DEF EditEndpoint
  <2>2. CASE edit.host \notin broken
    <3>0. PICK over \in SUBSET Pollers, s \in Servers : over = {} /\ s = edit.id
      BY <1>0 DEF EditOK
    <3>1. /\ todo' = {Overtaken(c, s) : c \in todo}
          /\ poll' = [r \in Pollers |-> IF r \in over THEN Over(r)
                                        ELSE [poll[r] EXCEPT !.copy = Overtaken(poll[r].copy, s)]]
      BY <1>19, <2>2, <3>0 DEF EditEndpoint
    <3>. QED BY <1>11, <1>19, <3>1
  <2>. QED BY <2>1, <2>2
<1>20. ASSUME AllQuiet, NEW s \in Servers,
              \/ Mark(s) \/ Forget(s) \/ Delete(s) \/ Age(s) \/ CreateAgent(s)
              \/ \E e \in Hosts : Edit(s, "second", e)
              \/ \E c \in Containers, pinned \in BOOLEAN : SetPin(s, c, pinned)
       PROVE PollsFit'
  BY <1>1, <1>20 DEF Mark, Forget, Delete, Age, CreateAgent, Edit, SetPin, handlers
<1>21. CASE AllQuiet /\ (MarkList \/ EditName \/ UNCHANGED vars)
  BY <1>1, <1>21 DEF MarkList, EditName, vars, handlers
<1>22. ASSUME AllQuiet, NEW a \in Agents, Report(a) \/ Authenticate(a) PROVE PollsFit'
  BY <1>1, <1>22 DEF Report, Authenticate
<1>23. ASSUME AllQuiet,
              \/ \E c \in Containers : Appear(c) \/ Vanish(c)
              \/ \E m \in Machines : Toggle(m)
              \/ \E e \in Endpoints : Reload(e)
       PROVE PollsFit'
  BY <1>1, <1>23 DEF Appear, Vanish, Toggle, Reload, handlers
<1>24. CASE AllQuiet
  <2>1. CASE Pass \/ Editing \/ MarkList \/ \E g \in Goroutines : Poll(g)
    BY <1>24, <2>1, <1>4, <1>5, <1>6, <1>7, <1>9, <1>10, <1>12, <1>15, <1>19, <1>21 DEF Pass, Editing, Poll, Pollers
  <2>2. CASE (\E a \in Agents : Agent(a)) \/ \E s \in Servers : Mark(s) \/ Forget(s)
    BY <1>24, <2>2, <1>18, <1>20, <1>22 DEF Agent
  <2>3. CASE Operator
    BY <1>24, <2>3, <1>16, <1>20 DEF Operator, Servers
  <2>4. CASE Environment
    BY <1>24, <2>4, <1>17, <1>20, <1>23 DEF Environment
  <2>. QED BY <2>1, <2>2, <2>3, <2>4, <1>21, <1>24 DEF Next
<1>25. \/ AllQuiet \/ (\E p \in Pollers : Save(p)) \/ (\E a \in Agents : SaveReport(a))
       \/ EditEndpoint /\ edit.host \notin broken /\ Exists(edit.id)
  BY RowsQuiet
<1>. QED BY <1>12, <1>13, <1>18, <1>24, <1>25

-----------------------------------------------------------------------------
(* The reports, the edit, and the theorem.                                 *)

LEMMA StepReportsFit == TypeInv /\ PinInv /\ [Next]_vars => ReportsFit'
<1> SUFFICES ASSUME TypeInv, PinInv, [Next]_vars, NEW a \in Agents
             PROVE  /\ report'[a].seen \subseteq there' \cup gone'
                    /\ report'[a].at # "idle" => Sees(Looked(report'[a]), row', a, there')
  BY DEF ReportsFit
<1>0. /\ RowsOK /\ OthersOK /\ Aged /\ a \in Servers /\ a \notin Directs /\ a # Local
      /\ report \in [Agents -> ReportType] /\ report[a] \in ReportType
      /\ RowFits(a, row, there, gone) /\ report[a].seen \subseteq there \cup gone
      /\ report[a].at # "idle" => Sees(Looked(report[a]), row, a, there)
  BY StepAges, ServerAssumption DEF TypeInv, OthersOK, PinInv, ReportsFit, RowsFit, Servers
\* What was reported is still all that the row shows of the containers there are.
<1>1. ASSUME Quiet(a, row, deleted, row', deleted'),
              report'[a].seen = report[a].seen, report'[a].missed = report[a].missed,
             report'[a].at # "idle" => report[a].at # "idle"
      PROVE  /\ report'[a].seen \subseteq there' \cup gone'
             /\ report'[a].at # "idle" => Sees(Looked(report'[a]), row', a, there')
  <2>1. report[a].at # "idle" => Sees(Looked(report[a]), row', a, there')
    BY <1>0, <1>1, SeesStill DEF Aged
  <2>2. Looked(report'[a]) = Looked(report[a])
    BY <1>1 DEF Looked
  <2>. QED BY <1>0, <1>1, <2>1, <2>2 DEF Aged, Ages
<1>2. ASSUME report'[a].seen = {}, report'[a].at = "idle"
      PROVE  /\ report'[a].seen \subseteq there' \cup gone'
             /\ report'[a].at # "idle" => Sees(Looked(report'[a]), row', a, there')
  BY <1>2
<1>3. CASE Report(a)
  <2>1. PICK seen \in SUBSET Containers :
          /\ Snapshot(a, seen)
          /\ report' = [report EXCEPT ![a] = [at |-> "sent", seen |-> seen, missed |-> Missed(a, seen)]]
    BY <1>3 DEF Report
  <2>2. report'[a] = [at |-> "sent", seen |-> seen, missed |-> Missed(a, seen)]
    BY <1>0, <2>1
  <2>3. report'[a].seen \subseteq RunsOn(a) /\ Looked(report'[a]) = RunsOn(a) /\ UNCHANGED <<row, there, gone>>
    BY <1>3, <2>1, <2>2 DEF Report, world, Looked, Snapshot, Missed
  <2>. QED BY <2>3, <1>0 DEF Sees, HostIn, RunsOn
<1>4. CASE Authenticate(a)
  <2>1. PICK l \in {"idle", "read"} : report' = [report EXCEPT ![a] = [report[a] EXCEPT !.at = l]]
    BY <1>4 DEF Authenticate
  <2>2. /\ report'[a].seen = report[a].seen /\ report'[a].missed = report[a].missed
        /\ report[a].at = "sent" /\ row' = row /\ deleted' = deleted
    BY <1>0, <1>4, <2>1 DEF Authenticate, ReportType
  <2>. QED BY <1>1, <2>2 DEF Quiet
<1>5. CASE SaveReport(a)
  <2>1. report'[a] = NoReport
    BY <1>0, <1>5 DEF SaveReport
  <2>. QED BY <1>2, <2>1, Values
<1>6. CASE Restart
  <2>1. report'[a] = IF report[a].at = "read" THEN NoReport ELSE report[a]
    BY <1>6 DEF Restart
  <2>2. row'[a] = [row[a] EXCEPT !.online = FALSE] /\ row[a] \in RowType /\ deleted' = deleted
    BY <1>0, <1>6 DEF Restart, RowsOK
  <2>3. Quiet(a, row, deleted, row', deleted')
    BY <2>2 DEF RowType, Quiet
  <2>. QED BY <1>1, <1>2, <2>1, <2>3, Values
<1>7. ASSUME NEW b \in Agents \ {a}, Agent(b) PROVE report'[a] = report[a]
  BY <1>0, <1>7 DEF Agent, Report, Authenticate, SaveReport
\* Nobody else writes the row of an agent but to create or delete it.
<1>8. ASSUME report'[a] = report[a], ~SaveReport(a)
      PROVE Quiet(a, row, deleted, row', deleted')
  <2>1. CASE AllQuiet
    BY <1>0, <2>1 DEF AllQuiet
  <2>2. ASSUME NEW t \in Servers, t # a, QuietBut(t) PROVE Quiet(a, row, deleted, row', deleted')
    BY <1>0, <2>2 DEF QuietBut
  <2>3. ASSUME NEW p \in Pollers, Save(p) PROVE Quiet(a, row, deleted, row', deleted')
    <3>1. poll[p].copy.id \in Servers /\ poll[p].copy.id # a
      BY <1>0, <2>3 DEF Save, TypeInv, PollsOK, PollType, CopyType
    <3>2. PICK new : row' = [row EXCEPT ![poll[p].copy.id] = new]
      BY <2>3 DEF Save, Store
    <3>3. deleted' = deleted
      BY <2>3 DEF Save
    <3>. QED BY <1>0, <2>2, <3>1, <3>2, <3>3, OneQuiet
  <2>4. ASSUME NEW b \in Agents \ {a}, SaveReport(b) PROVE Quiet(a, row, deleted, row', deleted')
    <3>1. b \in Servers
      BY DEF Servers
    <3>2. PICK new : row' = [row EXCEPT ![b] = new]
      BY <2>4 DEF SaveReport, Store
    <3>3. deleted' = deleted
      BY <2>4 DEF SaveReport
    <3>. QED BY <1>0, <2>2, <3>1, <3>2, <3>3, OneQuiet
  <2>5. CASE EditEndpoint /\ edit.host \notin broken /\ Exists(edit.id)
    <3>1. edit.id \in Directs /\ edit.id \in Servers
      BY <2>5 DEF EditEndpoint, TypeInv, EditOK
    <3>2. /\ row' = [row EXCEPT ![edit.id] = [row[edit.id] EXCEPT !.host = edit.host]]
          /\ deleted' = deleted \ {edit.id}
      BY <2>5 DEF EditEndpoint
    <3>. QED BY <1>0, <2>2, <3>1, <3>2, OneQuiet
  <2>6. \/ AllQuiet \/ (\E p \in Pollers : Save(p)) \/ (\E b \in Agents : SaveReport(b))
        \/ EditEndpoint /\ edit.host \notin broken /\ Exists(edit.id)
    BY RowsQuiet
  <2>. QED BY <1>8, <2>1, <2>3, <2>4, <2>5, <2>6
<1>9. CASE report' = report /\ ~SaveReport(a)
  BY <1>1, <1>8, <1>9
<1>10. (\E b \in Agents : Agent(b)) \/ Restart \/ report' = report
  <2>1. ASSUME NEW p \in Pollers, Poll(p) PROVE report' = report
    BY <2>1 DEF Poll, Get, GetIf, Take, Save
  <2>2. ASSUME NEW s \in Servers,
               \/ Mark(s) \/ Forget(s) \/ Delete(s) \/ Age(s) \/ CreateAgent(s)
               \/ \E e \in Hosts : Edit(s, "second", e)
               \/ \E e \in Endpoints : CreateDirect(s, e)
               \/ \E c \in Containers, pinned \in BOOLEAN : SetPin(s, c, pinned)
        PROVE report' = report
    BY <2>2 DEF Mark, Forget, Delete, Age, CreateAgent, Edit, CreateDirect, SetPin, handlers
  <2>3. CASE StartPass \/ List \/ NextServer \/ ReadName \/ Editing \/ MarkList \/ UNCHANGED vars
    BY <2>3 DEF StartPass, List, NextServer, ReadName, Editing, EditName, EditEndpoint, EditPrime, MarkList,
                vars, handlers
  <2>4. CASE (\E c \in Containers : Appear(c) \/ Vanish(c)) \/ (\E m \in Machines : Toggle(m))
             \/ (\E e \in Endpoints : Reload(e))
    BY <2>4 DEF Appear, Vanish, Toggle, Reload, handlers
  <2>. QED BY <2>1, <2>2, <2>3, <2>4 DEF Next, Pass, Operator, Environment, Pollers, Servers
<1>11. CASE Agent(a)
  BY <1>3, <1>4, <1>5, <1>11 DEF Agent
<1>. QED BY <1>1, <1>6, <1>7, <1>8, <1>9, <1>10, <1>11 DEF Agent

LEMMA StepEditFits == TypeInv /\ PinInv /\ [Next]_vars => EditFits'
<1> SUFFICES ASSUME TypeInv, PinInv, [Next]_vars PROVE EditFits'
  OBVIOUS
<1>0. RowsOK /\ EditOK /\ EditFits /\ PollsOK /\ edit.id \in Servers
  BY DEF TypeInv, EditOK, PinInv
<1>1. CASE edit'.at = "idle"
  BY <1>1 DEF EditFits
\* A row that is refreshed keeps its endpoint, or is inserted without one.
<1>2. ASSUME NEW t \in Servers, NEW copy \in CopyType, NEW kind \in {"local", "direct", "agent"},
             NEW seen \in SUBSET Containers, Store(t, copy, kind, seen), deleted' = deleted, edit' = edit
      PROVE EditFits'
  <2>1. row' = [row EXCEPT ![t] = Upsert(row[t], copy, kind, seen)] /\ row[t] \in RowType
    BY <1>0, <1>2 DEF Store, RowsOK
  <2>2. row'[t] = Upsert(row[t], copy, kind, seen) /\ \A s \in Servers \ {t} : row'[s] = row[s]
    BY <1>0, <2>1 DEF RowsOK
  <2>3. /\ row'[t].kind # "none"
        /\ row[t].kind = "none" => row'[t].host = NoHost
        /\ row[t].kind # "none" => row'[t].host = row[t].host
    BY <2>1, <2>2, UpsertKeeps, UpsertShows
  <2>. QED BY <1>0, <1>2, <2>2, <2>3 DEF EditFits, Exists
<1>3. ASSUME edit' = edit, Quiet(edit.id, row, deleted, row', deleted') PROVE EditFits'
  BY <1>0, <1>3 DEF EditFits, Exists, Quiet
<1>4. ASSUME edit' = edit PROVE EditFits'
  <2>1. CASE AllQuiet
    BY <1>0, <1>3, <1>4, <2>1 DEF AllQuiet
  <2>2. ASSUME NEW p \in Pollers, Save(p) PROVE EditFits'
    <3>1. /\ poll[p].copy.id \in Servers /\ poll[p].copy \in CopyType /\ poll[p].seen \in SUBSET Containers
      BY <1>0 DEF PollsOK, PollType, CopyType
    <3>2. PICK kind \in {"local", "direct", "agent"} : Store(poll[p].copy.id, poll[p].copy, kind, poll[p].seen)
      BY <2>2 DEF Save
    <3>. QED BY <1>2, <1>4, <2>2, <3>1, <3>2 DEF Save
  <2>3. ASSUME NEW a \in Agents, SaveReport(a) PROVE EditFits'
    <3> DEFINE copy == [id |-> a, host |-> NoHost, name |-> "hostname", late |-> FALSE]
    <3>1. a \in Servers /\ copy \in CopyType /\ report[a].seen \in SUBSET Containers
      BY DEF CopyType, Servers, Hosts, Names, TypeInv, OthersOK, ReportType
    <3>2. Store(a, copy, "agent", report[a].seen) /\ deleted' = deleted
      BY <2>3 DEF SaveReport
    <3> HIDE DEF copy
    <3>. QED BY <1>2, <1>4, <3>1, <3>2
  <2>4. CASE EditEndpoint
    <3>1. edit' = NoEdit \/ edit' = [edit EXCEPT !.at = "prime"]
      BY <2>4 DEF EditEndpoint
    <3>. QED BY <1>0, <1>1, <1>4, <2>4, <3>1, Values DEF EditEndpoint, EditOK
  <2>5. \/ AllQuiet \/ (\E p \in Pollers : Save(p)) \/ (\E b \in Agents : SaveReport(b))
        \/ EditEndpoint /\ edit.host \notin broken /\ Exists(edit.id)
    BY RowsQuiet
  <2>. QED BY <2>1, <2>2, <2>3, <2>4, <2>5
<1>5. ASSUME NEW s \in Servers, NEW e \in Hosts, Edit(s, "second", e) PROVE EditFits'
  BY <1>5 DEF Edit, EditFits, Exists
<1>6. CASE EditName
  <2>1. edit' = NoEdit \/ edit' = [edit EXCEPT !.at = "endpoint"]
    BY <1>6 DEF EditName
  <2>2. CASE edit' = NoEdit
    BY <1>1, <2>2, Values
  <2>3. CASE edit' = [edit EXCEPT !.at = "endpoint"]
    <3>1. edit'.at = "endpoint" /\ edit'.id = edit.id /\ edit.at = "name" /\ deleted' = deleted
      BY <1>0, <1>6, <2>3 DEF EditName, EditOK
    <3>2. row'[edit.id].kind = row[edit.id].kind
      <4>1. row[edit.id] \in RowType
        BY <1>0 DEF RowsOK
      <4>2. row' = [row EXCEPT ![edit.id] = row[edit.id]]
            \/ row' = [row EXCEPT ![edit.id] = [row[edit.id] EXCEPT !.name = edit.name, !.chosen = TRUE]]
        BY <1>6 DEF EditName
      <4>3. row'[edit.id] = row[edit.id]
            \/ row'[edit.id] = [row[edit.id] EXCEPT !.name = edit.name, !.chosen = TRUE]
        <5>1. edit.id \in Servers /\ DOMAIN row = Servers
          BY <1>0 DEF RowsOK
        <5>. QED BY <4>2, <5>1
      <4>4. [row[edit.id] EXCEPT !.name = edit.name, !.chosen = TRUE].kind = row[edit.id].kind
        BY <4>1 DEF RowType
      <4>. QED BY <4>3, <4>4
    <3>. QED BY <1>0, <3>1, <3>2 DEF EditFits, Exists
  <2>. QED BY <2>1, <2>2, <2>3
<1>7. CASE EditEndpoint
  <2>1. CASE edit' = NoEdit
    BY <1>1, <2>1, Values
  <2>2. CASE edit' = [edit EXCEPT !.at = "prime"] /\ edit.host \notin broken
    <3>1. edit'.at = "prime" /\ edit'.id = edit.id /\ edit'.host = edit.host /\ edit.at = "endpoint"
      BY <1>0, <1>7, <2>2 DEF EditEndpoint, EditOK
    <3>2. row[edit.id] \in RowType
      BY <1>0 DEF RowsOK
    <3>3. CASE Exists(edit.id)
      <4>1. row' = [row EXCEPT ![edit.id] = [row[edit.id] EXCEPT !.host = edit.host]]
        BY <1>7, <2>2, <3>3 DEF EditEndpoint
      <4>2. row'[edit.id].host = edit.host /\ row'[edit.id].kind = row[edit.id].kind
        BY <1>0, <3>2, <4>1 DEF RowsOK, RowType
      <4>. QED BY <3>1, <3>3, <4>2 DEF EditFits, Exists
    <3>4. CASE ~Exists(edit.id)
      <4>1. row' = [row EXCEPT ![edit.id] = [row[edit.id] EXCEPT !.host = row[edit.id].host]] /\ deleted' = deleted
        BY <1>7, <2>2, <3>4 DEF EditEndpoint
      <4>2. row'[edit.id].kind = row[edit.id].kind
        BY <1>0, <3>2, <4>1 DEF RowsOK, RowType
      <4>. QED BY <1>0, <3>1, <3>4, <4>1, <4>2 DEF EditFits, Exists
    <3>. QED BY <3>3, <3>4
  <2>. QED BY <1>7, <2>1, <2>2 DEF EditEndpoint
<1>8. CASE EditPrime \/ Restart
  BY <1>1, <1>8, Values DEF EditPrime, Restart
<1>9. CASE (\E p \in Pollers : Poll(p)) \/ Pass \/ MarkList \/ UNCHANGED vars
  BY <1>4, <1>9 DEF Poll, Get, GetIf, Take, Save, Pass, StartPass, List, NextServer, ReadName, MarkList,
                    vars, handlers, Pollers
<1>10. ASSUME NEW a \in Agents, Agent(a) \/ CreateAgent(a) PROVE EditFits'
  BY <1>4, <1>10 DEF Agent, Report, Authenticate, SaveReport, CreateAgent, handlers
<1>11. ASSUME NEW s \in Servers,
              Mark(s) \/ Forget(s) \/ Delete(s) \/ Age(s) \/ (\E e \in Endpoints : CreateDirect(s, e))
              \/ \E c \in Containers, pinned \in BOOLEAN : SetPin(s, c, pinned)
       PROVE EditFits'
  BY <1>4, <1>11 DEF Mark, Forget, Delete, Age, CreateDirect, SetPin, handlers
<1>12. CASE (\E c \in Containers : Appear(c) \/ Vanish(c)) \/ (\E m \in Machines : Toggle(m))
            \/ (\E e \in Endpoints : Reload(e))
  BY <1>4, <1>12 DEF Appear, Vanish, Toggle, Reload, handlers
<1>. QED BY <1>5, <1>6, <1>7, <1>8, <1>9, <1>10, <1>11, <1>12
     DEF Next, Editing, Operator, Environment, Pollers, Servers

LEMMA InitPins == Init => PinInv
<1> SUFFICES ASSUME Init PROVE PinInv
  OBVIOUS
<1>1. TypeInv /\ todo = {} /\ edit.at = "idle" /\ deleted = {}
  BY InitAll, Values DEF Init
<1>2. ASSUME NEW s \in Servers PROVE row[s].shows = {} /\ (s = Local => Exists(s))
  <2>1. NoRow.shows = {} /\ \A d \in Servers : FreshRow(d).shows = {}
    BY ServerAssumption DEF NoRow, FreshRow, Servers
  <2>2. \A d \in Servers : FreshRow(d) \in RowType
    BY Values
  <2>3. PICK some \in SUBSET (Servers \ {Local}), at \in [Directs -> Endpoints] :
          row = [d \in Servers |-> IF d \notin some \cup {Local} THEN NoRow
                                  ELSE IF d \in Directs THEN [FreshRow(d) EXCEPT !.host = at[d]]
                                  ELSE FreshRow(d)]
    BY DEF Init
  <2>4. row[s] = NoRow \/ row[s] = FreshRow(s) \/ row[s] = [FreshRow(s) EXCEPT !.host = at[s]]
    BY <2>3
  <2>5. row[s].shows = {}
    BY <2>1, <2>2, <2>4 DEF RowType
  <2>6. s = Local => row[s] = FreshRow(s) /\ FreshRow(s).kind = KindOf(s) /\ KindOf(s) # "none"
    BY <2>3, Values, ServerAssumption
  <2>. QED BY <2>5, <2>6 DEF Exists
<1>3. RowsFit
  BY <1>2 DEF RowsFit, RowFits, Servers
<1>4. PollsFit
  <2>1. PollFits(Idle, row, deleted, there, gone)
    BY <1>3, ServerAssumption DEF RowsFit, Exists, PollFits, CopyFits, Idle
  <2>. QED BY <1>1, <2>1 DEF PollsFit, Init
<1>5. ReportsFit
  BY Values DEF Init, ReportsFit
<1>. QED BY <1>1, <1>3, <1>4, <1>5 DEF PinInv, EditFits

LEMMA StepPins == TypeInv /\ PinInv /\ [Next]_vars => PinInv'
BY StepRowsFit, StepPollsFit, StepReportsFit, StepEditFits DEF PinInv

\* A pinned container that runs on the host its row names stays pinned until an
\* operator unpins it or deletes the server, however the refreshes, the edits and the
\* restarts interleave, unless the refresh that is stored was overtaken by another one
\* of the same row or could not inspect that container (entities.go:542-600, 676-685,
\* dockerx.go:106-110).
THEOREM PinsSurvive == Spec => PinsStay
<1>1. TypeInv /\ PinInv /\ [Next]_vars =>
        [\A s \in Servers :
           Unpinned(s) \ Skipped(s) # {}
           => row'[s].kind = "none" \/ Unpins(s) \/ Overtakes(s)]_vars
  <2> SUFFICES ASSUME TypeInv, PinInv, [Next]_vars, NEW s \in Servers, Unpinned(s) \ Skipped(s) # {},
                      row'[s].kind # "none", ~Unpins(s)
               PROVE  Overtakes(s)
    OBVIOUS
  <2>0. RowsOK /\ RowsFit /\ PollsFit /\ ReportsFit /\ row[s] \in RowType /\ row[s].pins \subseteq row[s].shows
    BY DEF TypeInv, PinInv, RowsOK, RowOK
  <2>1. PICK c : /\ c \in row[s].pins /\ c \notin row'[s].pins /\ c \in there /\ Home[c] = HostIn(row, s)
                 /\ c \notin Skipped(s)
    BY DEF Unpinned, RunsOn, HostOf, HostIn
  <2>2. Exists(s) /\ c \in row[s].shows
    BY <2>0, <2>1 DEF RowsFit, RowFits, Exists
  \* Of what is stored, only what misses the container can unpin it.
  <2>3. ASSUME NEW copy \in CopyType, NEW kind \in {"local", "direct", "agent"},
               NEW seen \in SUBSET Containers, Store(s, copy, kind, seen)
        PROVE c \notin seen
    <3>1. row'[s] = Upsert(row[s], copy, kind, seen)
      BY <2>0, <2>3 DEF Store, RowsOK
    <3>2. row'[s].pins = row[s].pins \cap seen
      BY <2>0, <2>2, <3>1, UpsertShows DEF Exists
    <3>. QED BY <2>1, <3>2
  <2>4. ASSUME NEW p \in Pollers, Save(p), poll[p].copy.id = s PROVE Overtakes(s)
    <3>1. poll[p].copy \in CopyType /\ poll[p].seen \in SUBSET Containers /\ poll[p].at = "store"
          /\ PollFits(poll[p], row, deleted, there, gone)
      BY <2>0, <2>4 DEF Save, TypeInv, PollsOK, PollType, PollsFit
    <3>2. PICK kind \in {"local", "direct", "agent"} : Store(s, poll[p].copy, kind, poll[p].seen)
      BY <2>4 DEF Save
    <3>3. c \notin poll[p].seen
      BY <2>3, <3>1, <3>2
    <3>s. c \notin poll[p].missed
      BY <2>1, <2>4 DEF Skipped
    <3>4. poll[p].copy.late
      BY <2>1, <2>2, <2>4, <3>1, <3>3, <3>s DEF PollFits, Sees, Looked
    <3>. QED BY <2>4, <3>4 DEF Overtakes
  <2>5. ~SaveReport(s) \/ s \notin Agents
    <3> SUFFICES ASSUME s \in Agents, SaveReport(s) PROVE FALSE
      OBVIOUS
    <3> DEFINE copy == [id |-> s, host |-> NoHost, name |-> "hostname", late |-> FALSE]
    <3>1. copy \in CopyType /\ report[s].seen \in SUBSET Containers
      BY DEF CopyType, Hosts, Names, TypeInv, OthersOK, ReportType
    <3>2. Store(s, copy, "agent", report[s].seen) /\ report[s].at = "read"
      BY DEF SaveReport
    <3>3. Sees(Looked(report[s]), row, s, there)
      BY <2>0, <3>2 DEF ReportsFit
    <3> HIDE DEF copy
    <3>4. c \notin report[s].seen
      BY <2>3, <3>1, <3>2
    <3>5. c \notin report[s].missed
      BY <2>1 DEF Skipped
    <3>. QED BY <2>1, <2>2, <3>3, <3>4, <3>5 DEF Sees, Looked
  <2>6. ASSUME NEW t \in Servers, NEW new, row' = [row EXCEPT ![t] = new], t # s \/ c \in new.pins PROVE FALSE
    BY <2>0, <2>1, <2>6 DEF RowsOK
  <2>7. ASSUME row' = row PROVE FALSE
    BY <2>1, <2>7
  <2>r. \A t \in Servers : row[t] \in RowType
    BY <2>0 DEF RowsOK
  <2>8. ASSUME NEW p \in Pollers, Poll(p) PROVE Overtakes(s)
    <3>1. CASE Save(p)
      <4>1. CASE poll[p].copy.id = s
        BY <2>4, <3>1, <4>1
      <4>2. CASE poll[p].copy.id # s
        <5>1. poll[p].copy.id \in Servers
          BY DEF TypeInv, PollsOK, PollType, CopyType
        <5>2. PICK new : row' = [row EXCEPT ![poll[p].copy.id] = new]
          BY <3>1 DEF Save, Store
        <5>. QED BY <2>6, <4>2, <5>1, <5>2
      <4>. QED BY <4>1, <4>2
    <3>2. CASE Get(p) \/ Take(p)
      BY <2>7, <3>2 DEF Get, GetIf, Take
    <3>. QED BY <2>8, <3>1, <3>2 DEF Poll
  <2>9. ASSUME NEW a \in Agents, Agent(a) PROVE FALSE
    <3>1. CASE SaveReport(a)
      <4>1. a \in Servers /\ a # s
        BY <2>5, <3>1 DEF Servers
      <4>2. PICK new : row' = [row EXCEPT ![a] = new]
        BY <3>1 DEF SaveReport, Store
      <4>. QED BY <2>6, <4>1, <4>2
    <3>2. CASE Report(a) \/ Authenticate(a)
      BY <2>7, <3>2 DEF Report, Authenticate
    <3>. QED BY <2>9, <3>1, <3>2 DEF Agent
  <2>10. ASSUME NEW t \in Servers, Mark(t) \/ Age(t) PROVE FALSE
    <3>1. \/ row' = [row EXCEPT ![t] = [row[t] EXCEPT !.online = FALSE]]
          \/ row' = [row EXCEPT ![t] = [row[t] EXCEPT !.recent = FALSE]]
      BY <2>10 DEF Mark, Age
    <3>2. /\ [row[t] EXCEPT !.online = FALSE].pins = row[t].pins
          /\ [row[t] EXCEPT !.recent = FALSE].pins = row[t].pins
      BY <2>r DEF RowType
    <3>. QED BY <2>1, <2>6, <3>1, <3>2
  <2>11. ASSUME NEW t \in Servers, Forget(t) \/ \E e \in Hosts : Edit(t, "second", e) PROVE FALSE
    BY <2>7, <2>11 DEF Forget, Edit
  <2>12. ASSUME NEW t \in Servers, Delete(t) PROVE FALSE
    <3>1. row' = [row EXCEPT ![t] = NoRow]
      BY <2>12 DEF Delete
    <3>2. t # s
      BY <2>0, <3>1, Values DEF RowsOK
    <3>. QED BY <2>6, <3>1, <3>2
  <2>13. ASSUME NEW t \in Servers, (\E e \in Endpoints : CreateDirect(t, e)) \/ CreateAgent(t) PROVE FALSE
    <3>1. t # s
      BY <2>2, <2>13 DEF CreateDirect, CreateAgent
    <3>2. PICK new : row' = [row EXCEPT ![t] = new]
      BY <2>13 DEF CreateDirect, CreateAgent
    <3>. QED BY <2>6, <3>1, <3>2
  <2>14. ASSUME NEW t \in Servers, NEW d \in Containers, NEW pinned \in BOOLEAN, SetPin(t, d, pinned) PROVE FALSE
    <3>1. t # s \/ pinned = TRUE
      BY <2>14 DEF Unpins
    <3>2. CASE pinned = TRUE
      <4>1. row' = [row EXCEPT ![t] = [row[t] EXCEPT !.pins = row[t].pins \cup {d}]]
        BY <2>14, <3>2 DEF SetPin
      <4>2. [row[t] EXCEPT !.pins = row[t].pins \cup {d}].pins = row[t].pins \cup {d}
        BY <2>r DEF RowType
      <4>. QED BY <2>1, <2>6, <4>1, <4>2
    <3>3. CASE pinned = FALSE
      <4>1. row' = [row EXCEPT ![t] = [row[t] EXCEPT !.pins = row[t].pins \ {d}]]
        BY <2>14, <3>3 DEF SetPin
      <4>. QED BY <2>6, <3>1, <3>3, <4>1
    <3>. QED BY <3>2, <3>3
  <2>15. CASE Editing
    <3>1. edit.id \in Servers
      BY DEF TypeInv, EditOK
    <3>2. CASE EditName
      <4>1. \/ row' = [row EXCEPT ![edit.id] = row[edit.id]]
            \/ row' = [row EXCEPT ![edit.id] = [row[edit.id] EXCEPT !.name = edit.name, !.chosen = TRUE]]
        BY <3>2 DEF EditName
      <4>2. [row[edit.id] EXCEPT !.name = edit.name, !.chosen = TRUE].pins = row[edit.id].pins
        BY <2>r, <3>1 DEF RowType
      <4>. QED BY <2>1, <2>6, <3>1, <4>1, <4>2
    <3>3. CASE EditEndpoint
      <4>1. \/ row' = row
            \/ \E h : row' = [row EXCEPT ![edit.id] = [row[edit.id] EXCEPT !.host = h]]
        BY <3>3 DEF EditEndpoint
      <4>2. ASSUME NEW h, row' = [row EXCEPT ![edit.id] = [row[edit.id] EXCEPT !.host = h]] PROVE FALSE
        <5>1. [row[edit.id] EXCEPT !.host = h].pins = row[edit.id].pins
          BY <2>r, <3>1 DEF RowType
        <5>2. edit.id # s \/ c \in [row[edit.id] EXCEPT !.host = h].pins
          BY <2>1, <5>1
        <5>. QED BY <2>6, <3>1, <4>2, <5>2
      <4>. QED BY <2>7, <4>1, <4>2
    <3>. QED BY <2>7, <2>15, <3>2, <3>3 DEF Editing, EditPrime
  <2>16. CASE Restart
    <3>1. row'[s] = row[s] \/ row'[s] = [row[s] EXCEPT !.online = FALSE]
      BY <2>16 DEF Restart
    <3>. QED BY <2>0, <2>1, <3>1 DEF RowType
  <2>17. CASE StartPass \/ List \/ NextServer \/ ReadName \/ MarkList \/ UNCHANGED vars
    BY <2>7, <2>17 DEF StartPass, List, NextServer, ReadName, MarkList, vars
  <2>18. CASE (\E k \in Containers : Appear(k) \/ Vanish(k)) \/ (\E m \in Machines : Toggle(m))
              \/ (\E e \in Endpoints : Reload(e))
    BY <2>7, <2>18 DEF Appear, Vanish, Toggle, Reload
  <2>. QED BY <2>8, <2>9, <2>10, <2>11, <2>12, <2>13, <2>14, <2>15, <2>16, <2>17, <2>18
       DEF Next, Pass, Operator, Environment, Pollers, Servers
<1>. QED BY <1>1, InitAll, StepAll, InitPins, StepPins, PTL DEF Spec, PinsStay
=============================================================================
