------------------------------ MODULE Inventory ------------------------------
(***************************************************************************)
(* The software inventory of one PC: the agent's snapshots of the registry  *)
(* (agent/softwareinventory.go), the table the server reconciles with them  *)
(* (server/software.go) and the uninstall jobs made from its rows.  The     *)
(* periodic loop and the snapshot after an uninstall build their messages   *)
(* concurrently: a scan, the swap of the local map and the send are steps.  *)
(***************************************************************************)
EXTENDS Naturals, Sequences, FiniteSets

CONSTANTS
  Products,      \* identity keys
  Msi,           \* the products of tier A, with an MSI product code
  Versions,      \* an entry's data: what a version writes to the registry
  NotInstalled,
  MaxChanges,    \* bound on installations, upgrades and removals by others
  MaxUninstalls, \* bound on uninstall requests
  MaxWire,       \* bound on snapshots under way
  MaxMishaps     \* bound on lost connections, incomplete scans and deletions of the PC

ASSUME InventoryAssumptions ==
  /\ Msi \subseteq Products /\ NotInstalled \notin Versions
  /\ {MaxChanges, MaxUninstalls, MaxWire, MaxMishaps} \subseteq Nat

Builders == {"loop", "trigger"}        \* the 6-hour loop; triggerImmediateSnapshot
Snapshots == [Products -> Versions \cup {NotInstalled}]

VARIABLES
  registry,   \* what is installed
  builder,    \* per builder: its step and what it scanned
  invByKey,   \* the agent's local map
  wire,       \* snapshots on the connection
  table,      \* software_inventory: version per product
  firstSeen,  \* software_inventory.first_seen, as the number of the reconciliation
  reconciled, \* number of reconciliations so far, capped
  jobs,       \* uninstall jobs the agent has not run: product and payload
  scans,      \* history: every snapshot that was scanned
  changes, uninstalls, mishaps

invVars == <<registry, builder, invByKey, wire, table, firstSeen, reconciled, jobs,
             scans, changes, uninstalls, mishaps>>
agentSide == <<registry, builder, invByKey, scans, changes>>

Nothing == [p \in Products |-> NotInstalled]
MaxReconciled == 3

InvTypeOK ==
  /\ registry \in Snapshots /\ invByKey \in Snapshots /\ table \in Snapshots
  /\ builder \in [Builders -> [pc : {"idle", "due", "swap", "send"}, snap : Snapshots]]
  /\ wire \in Seq(Snapshots) /\ Len(wire) <= MaxWire
  /\ firstSeen \in [Products -> 0..MaxReconciled] /\ reconciled \in 0..MaxReconciled
  /\ \A p \in Products : table[p] = NotInstalled <=> firstSeen[p] = 0
  /\ jobs \subseteq [product : Products, payload : Versions]
  /\ changes \in 0..MaxChanges /\ uninstalls \in 0..MaxUninstalls
  /\ mishaps \in 0..MaxMishaps

InvInit ==
  /\ registry \in Snapshots
  /\ builder = [b \in Builders |-> [pc |-> IF b = "loop" THEN "due" ELSE "idle", snap |-> Nothing]]
  /\ invByKey = Nothing /\ wire = <<>>
  /\ table = Nothing /\ firstSeen = [p \in Products |-> 0] /\ reconciled = 0
  /\ jobs = {} /\ scans = {Nothing}
  /\ changes = 0 /\ uninstalls = 0 /\ mishaps = 0

-----------------------------------------------------------------------------
(* The agent.                                                               *)

\* Someone installs, upgrades or removes software on the PC.
Change(p, v) ==
  /\ changes < MaxChanges /\ changes' = changes + 1
  /\ v # registry[p]
  /\ registry' = [registry EXCEPT ![p] = v]
  /\ UNCHANGED <<builder, invByKey, wire, table, firstSeen, reconciled, jobs, scans,
                 uninstalls, mishaps>>

LoopTicks ==
  /\ builder["loop"].pc = "idle"
  /\ builder' = [builder EXCEPT !["loop"].pc = "due"]
  /\ UNCHANGED <<registry, invByKey, wire, table, firstSeen, reconciled, jobs, scans,
                 changes, uninstalls, mishaps>>

\* buildAndSendSnapshot: scanFullInventory, which passes over a root or a key it
\* cannot read without a word, and the winget columns, which never drop an entry ...
Scan(b, missed) ==
  /\ builder[b].pc = "due"
  /\ IF missed = {} THEN UNCHANGED mishaps
     ELSE mishaps < MaxMishaps /\ mishaps' = mishaps + 1
  /\ LET seen == [p \in Products |-> IF p \in missed THEN NotInstalled ELSE registry[p]]
     IN  /\ builder' = [builder EXCEPT ![b] = [pc |-> "swap", snap |-> seen]]
         /\ scans' = scans \cup {seen}
  /\ UNCHANGED <<registry, invByKey, wire, table, firstSeen, reconciled, jobs,
                 changes, uninstalls>>

\* ... replaceInventorySnapshot ...
SwapMap(b) ==
  /\ builder[b].pc = "swap"
  /\ invByKey' = builder[b].snap
  /\ builder' = [builder EXCEPT ![b].pc = "send"]
  /\ UNCHANGED <<registry, wire, table, firstSeen, reconciled, jobs, scans,
                 changes, uninstalls, mishaps>>

\* ... and wsSend.
SendSnapshot(b) ==
  /\ builder[b].pc = "send" /\ Len(wire) < MaxWire
  /\ wire' = Append(wire, builder[b].snap)
  /\ builder' = [builder EXCEPT ![b].pc = "idle"]
  /\ UNCHANGED <<registry, invByKey, table, firstSeen, reconciled, jobs, scans,
                 changes, uninstalls, mishaps>>

\* The connection is lost with what is on it.
CutConnection ==
  /\ mishaps < MaxMishaps /\ mishaps' = mishaps + 1
  /\ wire' = <<>>
  /\ UNCHANGED <<agentSide, table, firstSeen, reconciled, jobs, uninstalls>>

\* What executeMsiexecUninstall and executeQuietUninstall check: the product code
\* alone, or that the agent's own last scan has this very command and its file
\* exists.
Runnable(job) ==
  job.product \in Msi \/ /\ invByKey[job.product] = job.payload
                         /\ registry[job.product] = job.payload

\* The worker runs the job or refuses it; after a run, whatever its result, a
\* snapshot is due.
RunUninstall(job, works) ==
  /\ job \in jobs /\ jobs' = jobs \ {job}
  /\ IF Runnable(job)
     THEN /\ registry' = IF works THEN [registry EXCEPT ![job.product] = NotInstalled]
                         ELSE registry
          /\ builder["trigger"].pc = "idle"
          /\ builder' = [builder EXCEPT !["trigger"].pc = "due"]
     ELSE UNCHANGED <<registry, builder>>
  /\ UNCHANGED <<invByKey, wire, table, firstSeen, reconciled, scans, changes, uninstalls,
                 mishaps>>

-----------------------------------------------------------------------------
(* The server.                                                              *)

MutReconcile(s) ==                     \* absent products are left in the table
  /\ table' = [p \in Products |-> IF s[p] = NotInstalled THEN table[p] ELSE s[p]]
  /\ firstSeen' = [p \in Products |-> IF s[p] # NotInstalled /\ table[p] = NotInstalled
                                      THEN reconciled' ELSE firstSeen[p]]

MutUpsert(s) ==                        \* first_seen in the ON CONFLICT list
  /\ table' = s
  /\ firstSeen' = [p \in Products |-> IF s[p] = NotInstalled THEN 0 ELSE reconciled']

\* One transaction: every item is upserted, every other row of the agent deleted;
\* first_seen is set on insert alone.
ReconcileSoftwareInventory(s) ==
  /\ table' = s
  /\ firstSeen' = [p \in Products |-> IF s[p] = NotInstalled THEN 0
                                      ELSE IF table[p] = NotInstalled THEN reconciled'
                                      ELSE firstSeen[p]]

\* A failing transaction leaves the table alone; the snapshot is gone.
HandleSoftwareInventory(ok) ==
  /\ wire # <<>>
  /\ wire' = Tail(wire)
  /\ reconciled' = IF reconciled = MaxReconciled THEN MaxReconciled ELSE reconciled + 1
  /\ IF ok THEN ReconcileSoftwareInventory(Head(wire)) ELSE UNCHANGED <<table, firstSeen>>
  /\ UNCHANGED <<agentSide, jobs, uninstalls, mishaps>>

\* The deletion of the PC takes its rows along.
DeleteInventory ==
  /\ mishaps < MaxMishaps /\ mishaps' = mishaps + 1
  /\ table' = Nothing /\ firstSeen' = [p \in Products |-> 0]
  /\ UNCHANGED <<agentSide, wire, reconciled, jobs, uninstalls>>

\* POST /software/uninstall: the command comes from the stored row.
PostSoftwareUninstall(p) ==
  /\ uninstalls < MaxUninstalls /\ uninstalls' = uninstalls + 1
  /\ table[p] # NotInstalled
  /\ jobs' = jobs \cup {[product |-> p, payload |-> table[p]]}
  /\ UNCHANGED <<agentSide, wire, table, firstSeen, reconciled, mishaps>>

BuilderStep(b) == \/ \E missed \in SUBSET Products : Scan(b, missed)
                  \/ SwapMap(b) \/ SendSnapshot(b)

InvNext ==
  \/ \E p \in Products, v \in Versions \cup {NotInstalled} : Change(p, v)
  \/ \E b \in Builders : BuilderStep(b)
  \/ LoopTicks \/ CutConnection \/ DeleteInventory
  \/ \E job \in jobs, works \in BOOLEAN : RunUninstall(job, works)
  \/ \E ok \in BOOLEAN : HandleSoftwareInventory(ok)
  \/ \E p \in Products : PostSoftwareUninstall(p)

InvSpec == InvInit /\ [][InvNext]_invVars

-----------------------------------------------------------------------------
(* Properties.                                                              *)

\* The table always shows the PC as one scan saw it (which may have passed over an
\* unreadable key), or nothing, never a mixture of two, whatever snapshots
\* overlapped, were lost or failed, and a product that stays listed keeps its
\* first_seen (software.go:94-160).
TableIsOneScan ==
  [][/\ table' \in scans
     /\ \A p \in Products : table[p] # NotInstalled /\ table'[p] # NotInstalled
                              => firstSeen'[p] = firstSeen[p]]_invVars

\* Once nothing is installed or removed any more and every scan is complete, the
\* table comes to agree with the PC: an uninstall that worked disappears from it,
\* also when an older scan was sent last (softwareinventory.go:353-363).
InventoryConverges == <>[](table = registry)
=============================================================================
