------------------------------- MODULE Catalog -------------------------------
(***************************************************************************)
(* The application catalog: how the processes of one PC become applications *)
(* and sightings (agent/appmeta.go, agent/metrics.go, server/catalog.go),   *)
(* how installations do (server/events.go) and how an admin's verdict on an *)
(* application spreads (db.go).  One executable, present under several      *)
(* paths.  Handlers of two connections of the PC run at the same time; each *)
(* statement is a step.                                                     *)
(***************************************************************************)
EXTENDS Naturals, Sequences, FiniteSets

CONSTANTS
  Paths,        \* where the executable lies
  Links,        \* connections of the PC; a later one can overlap an earlier one
  MaxReports,   \* bound on reports
  MaxQueue,     \* bound on reports under way on a connection
  MaxVerdicts   \* bound on the admin's changes

ASSUME CatalogAssumptions == {MaxReports, MaxQueue, MaxVerdicts} \subseteq Nat

\* applications: a process row carries the executable's name and the company, or
\* no company when the report had no metadata; an install row has no executable.
\* Rows with metadata and install rows name the product.
Rows == {"exe+company", "exe", "install"}
SameProduct(r) == IF r = "exe" THEN {} ELSE {"exe+company", "install"} \ {r}
AppStatuses == {"pending_review", "blocked"}
NoRow == "none"

VARIABLES
  extracted,  \* the agent's metaExtracted
  queue,      \* per connection: reports not handled yet
  serving,    \* per connection: the handler's step and locals
  apps,       \* status per row of applications, or NoRow
  sightings,  \* app_sightings: pairs of a path and a row
  admin,      \* PATCH /applications/{id}: step, row, status
  overlapped, \* history: paths that two handlers resolved at the same time
  reports, verdicts

catVars == <<extracted, queue, serving, apps, sightings, admin, overlapped, reports, verdicts>>

Waiting == [pc |-> "idle", path |-> NoRow, meta |-> FALSE, row |-> NoRow]

CatTypeOK ==
  /\ extracted \subseteq Paths /\ overlapped \subseteq Paths
  /\ apps \in [Rows -> AppStatuses \cup {NoRow}]
  /\ sightings \subseteq Paths \X Rows
  /\ \A s \in sightings : apps[s[2]] # NoRow
  /\ \A c \in Links : serving[c].pc \in {"idle", "upsert", "sight"} /\ Len(queue[c]) <= MaxQueue
  /\ admin.pc \in {"idle", "read", "spread"}
  /\ reports \in 0..MaxReports /\ verdicts \in 0..MaxVerdicts

CatInit ==
  /\ extracted = {} /\ queue = [c \in Links |-> <<>>]
  /\ serving = [c \in Links |-> Waiting]
  /\ apps = [r \in Rows |-> NoRow] /\ sightings = {}
  /\ admin = [pc |-> "idle", row |-> "exe", status |-> "pending_review"]
  /\ overlapped = {} /\ reports = 0 /\ verdicts = 0

-----------------------------------------------------------------------------
(* The agent.                                                               *)

\* extractMetadataIfNew: a path is read once in the life of the agent's process.
IsNew(p) == p \notin extracted

\* collectMetrics attaches the metadata to the first process of a path it ever
\* lists.  The server looks at the first of the path in the report, which after
\* the sort by CPU may be another one.  The report, or the process with the sort's
\* cut, may be lost.
Collect(c, p, meta, lost) ==
  /\ reports < MaxReports /\ reports' = reports + 1
  /\ meta => IsNew(p)
  /\ extracted' = extracted \cup {p}
  /\ IF lost THEN UNCHANGED queue
     ELSE /\ Len(queue[c]) < MaxQueue
          /\ queue' = [queue EXCEPT ![c] = Append(@, [path |-> p, meta |-> meta])]
  /\ UNCHANGED <<serving, apps, sightings, admin, overlapped, verdicts>>

RestartAgent ==
  /\ extracted # {} /\ extracted' = {}
  /\ UNCHANGED <<queue, serving, apps, sightings, admin, overlapped, reports, verdicts>>

-----------------------------------------------------------------------------
(* The server.                                                              *)

Linked(p) == {r \in Rows : <<p, r>> \in sightings}

MutLookUp(c, ok) ==                    \* the identity is derived again each time
  /\ serving[c].pc = "idle" /\ queue[c] # <<>>
  /\ queue' = [queue EXCEPT ![c] = Tail(@)]
  /\ serving' = [serving EXCEPT ![c] =
        IF ok THEN [pc |-> "upsert", path |-> Head(queue[c]).path,
                    meta |-> Head(queue[c]).meta, row |-> NoRow] ELSE Waiting]
  /\ UNCHANGED <<extracted, apps, sightings, admin, overlapped, reports, verdicts>>

\* observeOne: GetSightingApplicationID, ...
LookUp(c, ok) ==
  LET m == Head(queue[c]) IN
  /\ serving[c].pc = "idle" /\ queue[c] # <<>>
  /\ queue' = [queue EXCEPT ![c] = Tail(@)]
  /\ \/ ~ok /\ UNCHANGED serving
     \/ /\ ok /\ Linked(m.path) = {}
        /\ serving' = [serving EXCEPT ![c] = [pc |-> "upsert", path |-> m.path,
                                              meta |-> m.meta, row |-> NoRow]]
     \/ /\ ok
        /\ \E r \in Linked(m.path) :
             serving' = [serving EXCEPT ![c] = [pc |-> "sight", path |-> m.path,
                                                meta |-> m.meta, row |-> r]]
  /\ overlapped' = overlapped \cup
       {p \in {m.path} : ok /\ \E d \in Links \ {c} : serving[d].pc # "idle" /\ serving[d].path = p}
  /\ UNCHANGED <<extracted, apps, sightings, admin, reports, verdicts>>

Insert(r) == apps' = [apps EXCEPT ![r] = IF @ = NoRow THEN "pending_review" ELSE @]

MutUpsertApplication(c, ok) ==         \* the sighting is written without its row
  /\ serving[c].pc = "upsert"
  /\ serving' = [serving EXCEPT ![c].pc = "sight", ![c].row = "exe"]
  /\ UNCHANGED <<extracted, queue, apps, sightings, admin, overlapped, reports, verdicts>>

\* ... UpsertApplication by (exe_name, company) ...
UpsertApplication(c, ok) ==
  LET r == IF serving[c].meta THEN "exe+company" ELSE "exe" IN
  /\ serving[c].pc = "upsert"
  /\ IF ok THEN Insert(r) /\ serving' = [serving EXCEPT ![c].pc = "sight", ![c].row = r]
           ELSE serving' = [serving EXCEPT ![c] = Waiting] /\ UNCHANGED apps
  /\ UNCHANGED <<extracted, queue, sightings, admin, overlapped, reports, verdicts>>

\* ... and UpsertSighting.
UpsertSighting(c, ok) ==
  /\ serving[c].pc = "sight"
  /\ sightings' = IF ok THEN sightings \cup {<<serving[c].path, serving[c].row>>} ELSE sightings
  /\ serving' = [serving EXCEPT ![c] = Waiting]
  /\ UNCHANGED <<extracted, queue, apps, admin, overlapped, reports, verdicts>>

\* integrateCatalog, UpsertApplicationByProduct: a row of that product and company,
\* be it the process row, absorbs the installation.
RecordInstall ==
  /\ apps["exe+company"] = NoRow /\ apps["install"] = NoRow
  /\ Insert("install")
  /\ UNCHANGED <<extracted, queue, serving, sightings, admin, overlapped, reports, verdicts>>

\* UpdateApplicationStatus: the row, ...
SetStatus(r, status) ==
  /\ admin.pc = "idle" /\ verdicts < MaxVerdicts /\ verdicts' = verdicts + 1
  /\ apps[r] # NoRow
  /\ apps' = [apps EXCEPT ![r] = status]
  /\ admin' = [pc |-> "read", row |-> r, status |-> status]
  /\ UNCHANGED <<extracted, queue, serving, sightings, overlapped, reports>>

\* ... its product, without which there is nothing to spread, ...
ReadProduct ==
  /\ admin.pc = "read"
  /\ admin' = [admin EXCEPT !.pc = IF admin.row = "exe" THEN "idle" ELSE "spread"]
  /\ UNCHANGED <<extracted, queue, serving, apps, sightings, overlapped, reports, verdicts>>

\* ... and the other rows of the product and company.
Spread ==
  /\ admin.pc = "spread"
  /\ apps' = [r \in Rows |-> IF r \in SameProduct(admin.row) /\ apps[r] # NoRow
                             THEN admin.status ELSE apps[r]]
  /\ admin' = [admin EXCEPT !.pc = "idle"]
  /\ UNCHANGED <<extracted, queue, serving, sightings, overlapped, reports, verdicts>>

CatNext ==
  \/ \E c \in Links, p \in Paths, meta, lost \in BOOLEAN : Collect(c, p, meta, lost)
  \/ RestartAgent \/ RecordInstall \/ ReadProduct \/ Spread
  \/ \E c \in Links, ok \in BOOLEAN :
       LookUp(c, ok) \/ UpsertApplication(c, ok) \/ UpsertSighting(c, ok)
  \/ \E r \in Rows, status \in AppStatuses : SetStatus(r, status)

CatSpec == CatInit /\ [][CatNext]_catVars

-----------------------------------------------------------------------------
(* Properties.                                                              *)

\* "once a path is linked to an application, every later sighting of that exact
\* path reuses the link" (catalog.go:44-56): whatever metadata a report carries,
\* is lost with or is sent again after a restart of the agent, a path of a PC
\* belongs to one application, unless two connections' handlers resolved it at
\* the same time.
PathLinkedOnce ==
  \A p \in Paths \ overlapped : Cardinality(Linked(p)) <= 1
=============================================================================
