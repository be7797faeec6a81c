---------------------------- MODULE SoftwareRules ----------------------------
(***************************************************************************)
(* What the server concludes from the inventory rows of one product over    *)
(* the fleet (server/software.go, shared/software.go): how versions         *)
(* compare, which update is the newest and whether one is available.  A     *)
(* version is the sequence of its numbers; one without digits is the empty  *)
(* sequence.  How the rows come about is Inventory.                         *)
(***************************************************************************)
EXTENDS Naturals, Sequences

CONSTANTS
  VersionNumbers,  \* the versions that occur
  MaxFleet         \* bound on the endpoints that have the product

ASSUME SoftwareAssumptions ==
  /\ \A v \in VersionNumbers : v \in Seq(Nat)
  /\ MaxFleet \in Nat

NoUpdate == [none |-> TRUE]            \* winget names no available version
Update(v) == [version |-> v]
Updates == {NoUpdate} \cup {Update(v) : v \in VersionNumbers}

\* A row of software_inventory: the installed version and what winget offers.
FleetRows == [version : VersionNumbers, available : Updates]

VARIABLE fleet   \* the rows of one identity key, in the order of the query

softVars == <<fleet>>

SoftTypeOK == fleet \in Seq(FleetRows) /\ Len(fleet) <= MaxFleet

SoftInit == fleet = <<>>

\* A PC's inventory adds its row, a change of its version alters it (Inventory).
AddEndpoint(row) ==
  /\ Len(fleet) < MaxFleet
  /\ fleet' = Append(fleet, row)

UpgradeEndpoint(i, v) == fleet' = [fleet EXCEPT ![i].version = v]

SoftNext ==
  \/ \E row \in FleetRows : AddEndpoint(row)
  \/ \E i \in DOMAIN fleet, v \in VersionNumbers : UpgradeEndpoint(i, v)

SoftSpec == SoftInit /\ [][SoftNext]_softVars

-----------------------------------------------------------------------------
(* Versions.                                                                *)

Longer(a, b) == IF Len(a) >= Len(b) THEN Len(a) ELSE Len(b)
Part(v, i) == IF i <= Len(v) THEN v[i] ELSE 0

MutCompareVersions(a, b) ==            \* missing parts are not taken for 0
  IF a = <<>> \/ b = <<>> THEN "unknown"
  ELSE LET cmp[i \in 1..(Longer(a, b) + 1)] ==
             IF i > Len(a) /\ i > Len(b) THEN "equal"
             ELSE IF i > Len(a) THEN "less"
             ELSE IF i > Len(b) THEN "greater"
             ELSE IF a[i] < b[i] THEN "less"
             ELSE IF a[i] > b[i] THEN "greater"
             ELSE cmp[i + 1]
       IN  cmp[1]

\* CompareVersions, part by part; "unknown" when one has no digits.
CompareVersions(a, b) ==
  IF a = <<>> \/ b = <<>> THEN "unknown"
  ELSE LET cmp[i \in 1..(Longer(a, b) + 1)] ==
             IF i > Longer(a, b) THEN "equal"
             ELSE IF Part(a, i) < Part(b, i) THEN "less"
             ELSE IF Part(a, i) > Part(b, i) THEN "greater"
             ELSE cmp[i + 1]
       IN  cmp[1]

\* computeUpdateStatus of a row.
UpdateStatus(row) ==
  IF row.available = NoUpdate THEN "unknown"
  ELSE LET cmp == CompareVersions(row.version, row.available.version)
       IN  IF cmp = "less" THEN "update_available"
           ELSE IF cmp = "unknown" THEN "unknown" ELSE "up_to_date"

-----------------------------------------------------------------------------
(* The fleet's row: aggregateOneSoftwareGroup.                              *)

\* One turn of the loop over the rows.
Newer(newest, row) ==
  IF row.available = NoUpdate THEN newest
  ELSE IF newest = NoUpdate THEN row.available
  ELSE IF CompareVersions(newest.version, row.available.version) = "less"
       THEN row.available ELSE newest

NewestUpdate ==
  LET newest[i \in 0..Len(fleet)] ==
        IF i = 0 THEN NoUpdate ELSE Newer(newest[i - 1], fleet[i])
  IN  newest[Len(fleet)]

Statuses == {UpdateStatus(fleet[i]) : i \in DOMAIN fleet}
FleetStatus ==
  IF "update_available" \in Statuses THEN "update_available"
  ELSE IF Statuses = {"up_to_date"} THEN "up_to_date" ELSE "unknown"

-----------------------------------------------------------------------------
(* Properties.                                                              *)

\* The numbers a version stands for, "1.2" and "1.2.0" being one.
Behind(a, b) ==
  \E i \in 1..Longer(a, b) :
    Part(a, i) < Part(b, i) /\ \A j \in 1..(i - 1) : Part(a, j) = Part(b, j)

\* The aggregate is right whatever the order of the rows (software.go:287-355):
\* the newest update is offered to some endpoint and none is offered a newer one,
\* provided every version offered has digits; the fleet has an "update_available"
\* exactly when "any endpoint needs an update", and is "up_to_date" only if every
\* endpoint was compared with an offer and is not behind it.
NewestIsMax ==
  LET offered   == {fleet[i].available : i \in DOMAIN fleet} \ {NoUpdate}
      Compared(r) == r.available # NoUpdate /\ r.version # <<>> /\ r.available.version # <<>>
      Needs(r)    == Compared(r) /\ Behind(r.version, r.available.version)
  IN  /\ (\A u \in offered : u.version # <<>>) =>
           IF offered = {} THEN NewestUpdate = NoUpdate
           ELSE /\ NewestUpdate \in offered
                /\ \A u \in offered : ~Behind(NewestUpdate.version, u.version)
      /\ FleetStatus = "update_available" <=> \E i \in DOMAIN fleet : Needs(fleet[i])
      /\ FleetStatus = "up_to_date" =>
           \A i \in DOMAIN fleet : Compared(fleet[i]) /\ ~Needs(fleet[i])
=============================================================================
