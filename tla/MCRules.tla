------------------------------ MODULE MCRules ------------------------------
(***************************************************************************)
(* The policy matcher, the kill, the command API, the catalog, the version  *)
(* rules and the watchers, checked in one run the way MCServices checks the *)
(* server's services: a behaviour is one of a single part.                  *)
(***************************************************************************)
EXTENDS PolicyMatch, KillByIdentity, CommandApi, SoftwareRules, Catalog, Watchers

CONSTANTS ag1, ag2

MCDims == {"status", "location"}
MCVersionNumbers == {<<>>, <<1>>, <<1, 0>>, <<1, 1>>, <<2>>}

\* "pc" is the host name of one agent and the group of the other; they share a floor.
MCDirectory ==
  [a \in {ag1, ag2} |->
     IF a = ag1 THEN [id |-> "id1", host |-> "pc", group |-> "lab", floor |-> "first"]
                ELSE [id |-> "id2", host |-> "pc2", group |-> "pc", floor |-> "first"]]
MCTargets == {"all", "id2", "pc", "lab", "first", "nobody"}

VARIABLE part

rules == <<part, matchVars, killVars, cmdVars, softVars, catVars, watchVars>>

Init ==
  /\ part \in {"match", "kill", "command", "software", "catalog", "watch"}
  /\ MatchInit /\ CmdInit /\ SoftInit /\ CatInit
  /\ KillInit /\ (part # "kill" => companyKnown)
  /\ WatchInit /\ (part # "watch" => watch = "usb" /\ present = {})

Next ==
  \/ /\ part = "match" /\ MatchNext
     /\ UNCHANGED <<part, killVars, cmdVars, softVars, catVars, watchVars>>
  \/ /\ part = "kill" /\ KillNext
     /\ UNCHANGED <<part, matchVars, cmdVars, softVars, catVars, watchVars>>
  \/ /\ part = "command" /\ CmdNext
     /\ UNCHANGED <<part, matchVars, killVars, softVars, catVars, watchVars>>
  \/ /\ part = "software" /\ SoftNext
     /\ UNCHANGED <<part, matchVars, killVars, cmdVars, catVars, watchVars>>
  \/ /\ part = "catalog" /\ CatNext
     /\ UNCHANGED <<part, matchVars, killVars, cmdVars, softVars, watchVars>>
  \/ /\ part = "watch" /\ WatchNext
     /\ UNCHANGED <<part, matchVars, killVars, cmdVars, softVars, catVars>>

Spec == Init /\ [][Next]_rules

RulesTypeOK ==
  MatchTypeOK /\ KillTypeOK /\ CmdTypeOK /\ SoftTypeOK /\ CatTypeOK /\ WatchTypeOK
=============================================================================
