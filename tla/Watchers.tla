------------------------------ MODULE Watchers ------------------------------
(***************************************************************************)
(* The agent's watchers: each compares what it sees of the PC with what it  *)
(* saw before and sends an event per difference.  Keyboards and mice        *)
(* (peripheralwatch.go), USB drives (usbwatch.go) and scheduled tasks       *)
(* (configwatch.go) are polled; registry keys (desktopwatch.go,             *)
(* configwatch.go, installwatch.go) and folders (downloadwatch.go) are      *)
(* waited on.  An event of a removed peripheral becomes a tamper alert      *)
(* (server/events.go, server/alert.go).                                     *)
(***************************************************************************)
EXTENDS Naturals, Sequences, FiniteSets

CONSTANTS
  Things,         \* what one watcher can see: devices, drives, tasks, values
  Keyboards,      \* the peripherals that the first of the two queries lists
  MissingStreak,  \* peripheralMissingStreak
  MaxFlips,       \* bound on things that come and go
  MaxEvents       \* bound on events under way

ASSUME WatcherAssumptions ==
  /\ Keyboards \subseteq Things /\ IsFiniteSet(Things)
  /\ MissingStreak \in Nat \ {0} /\ {MaxFlips, MaxEvents} \subseteq Nat

\* "peripheral", "usb", "tasks": polled.  "registry": waited on, diffed.  "folder":
\* told by the system, one record per change.
Watches == {"peripheral", "usb", "tasks", "registry", "folder"}

VARIABLES
  watch,     \* the watcher this behaviour is about
  present,   \* what there is
  known,     \* what the watcher last saw
  streak,    \* missingStreak
  ready,     \* the watcher has its baseline
  armed,     \* "registry": waiting; a change since wakes it
  woken,
  events,    \* events on the connection: [kind, thing, absent]
  alerts,    \* tamper alerts: [thing, absent]
  absent,    \* history: polls in a row that did not list the thing
  flips

watchVars == <<watch, present, known, streak, ready, armed, woken, events, alerts, absent, flips>>

WatchTypeOK ==
  /\ watch \in Watches /\ present \subseteq Things /\ known \subseteq Things
  /\ streak \in [Things -> 0..MissingStreak] /\ absent \in [Things -> 0..MissingStreak]
  /\ {ready, armed, woken} \subseteq BOOLEAN
  /\ Len(events) <= MaxEvents /\ flips \in 0..MaxFlips
  /\ \A t \in Things : streak[t] > 0 => watch = "peripheral" /\ t \in known

WatchInit ==
  /\ watch \in Watches /\ present \in SUBSET Things
  /\ known = {} /\ streak = [t \in Things |-> 0] /\ ready = FALSE
  /\ armed = FALSE /\ woken = FALSE
  /\ events = <<>> /\ alerts = {} /\ absent = [t \in Things |-> 0] /\ flips = 0

-----------------------------------------------------------------------------
(* The PC.                                                                  *)

\* sendEvent of every difference, in any order; a message that does not go out is
\* gone.
Emit(gone, new, lost) ==
  LET about(S, kind) == {[kind |-> kind, thing |-> t, absent |-> absent'[t]] : t \in S}
      all == about(gone, "removed") \cup about(new, "added")
  IN  /\ Len(events) + Cardinality(all) <= MaxEvents
      /\ IF lost THEN UNCHANGED events
         ELSE \E order \in [1..Cardinality(all) -> all] :
                /\ {order[i] : i \in DOMAIN order} = all
                /\ events' = events \o order

Flip(t, lost) ==
  /\ flips < MaxFlips /\ flips' = flips + 1
  /\ present' = IF t \in present THEN present \ {t} ELSE present \cup {t}
  /\ woken' = (woken \/ armed)
  /\ UNCHANGED absent
  /\ IF watch = "folder" /\ ready
     THEN Emit({t} \cap present, {t} \ present, lost)  \* handleFileEvent
     ELSE UNCHANGED events
  /\ UNCHANGED <<watch, known, streak, ready, armed, alerts>>

-----------------------------------------------------------------------------
(* The watchers.                                                            *)

\* The first look.  Tasks and registry keys start from it silently.
Baseline ==
  /\ watch \in {"tasks", "registry", "folder"} /\ ~ready /\ ready' = TRUE
  /\ \/ known' = present
     \/ watch = "tasks" /\ known' = {}           \* the query failed
  /\ UNCHANGED <<watch, present, streak, armed, woken, events, alerts, absent, flips>>

Count(listed) ==
  absent' = [t \in Things |-> IF t \in listed THEN 0
                              ELSE IF absent[t] = MissingStreak THEN MissingStreak ELSE absent[t] + 1]

\* queryPeripherals: a failing query lists nothing of its class.
PeripheralLists ==
  {present, present \ Keyboards, present \cap Keyboards, {}}

MutPollPeripherals(current, lost) ==   \* a device that is back keeps its count
  LET late(t) == IF t \in known \ current THEN streak[t] + 1 ELSE streak[t]
      gone    == {t \in known \ current : late(t) >= MissingStreak}
  IN
  /\ watch = "peripheral" /\ ready' = TRUE
  /\ Count(current)
  /\ Emit(gone, current \ known, lost)
  /\ known' = (known \cup current) \ gone
  /\ streak' = [t \in Things |-> IF t \in gone THEN 0 ELSE late(t)]
  /\ UNCHANGED <<watch, present, armed, woken, alerts, flips>>

\* startPeripheralWatch's poll: a device is reported gone after MissingStreak polls
\* without it.
PollPeripherals(current, lost) ==
  LET late(t) == IF t \in known \ current THEN streak[t] + 1 ELSE 0
      gone    == {t \in known \ current : late(t) >= MissingStreak}
  IN
  /\ watch = "peripheral" /\ ready' = TRUE
  /\ Count(current)
  /\ Emit(gone, current \ known, lost)
  /\ known' = (known \cup current) \ gone
  /\ streak' = [t \in Things |-> IF t \in gone THEN 0 ELSE late(t)]
  /\ UNCHANGED <<watch, present, armed, woken, alerts, flips>>

\* What a poll without a streak does with the list it got.
Compare(current, lost) ==
  /\ Count(current)
  /\ Emit(known \ current, current \ known, lost)
  /\ known' = current
  /\ UNCHANGED <<watch, present, streak, armed, woken, alerts, flips>>

\* startUSBWatch: a poll whose query fails is skipped; the drives of the first poll
\* are reported.
PollUSB(lost) ==
  /\ watch = "usb" /\ ready' = TRUE
  /\ Compare(present, lost)

\* watchScheduledTasks takes a failing query for an empty list.
PollTasks(lost) ==
  /\ watch = "tasks" /\ ready /\ UNCHANGED ready
  /\ \E current \in {present, {}} : Compare(current, lost)

\* watchRegistryValue, watchRunKey, watchUninstallKey: RegNotifyChangeKeyValue, ...
Arm ==
  /\ watch = "registry" /\ ready /\ ~armed
  /\ armed' = TRUE /\ woken' = FALSE
  /\ UNCHANGED <<watch, present, known, streak, ready, events, alerts, absent, flips>>

\* ... the values read again and compared.
ReadAgain(lost) ==
  /\ watch = "registry" /\ armed /\ woken
  /\ armed' = FALSE /\ woken' = FALSE
  /\ UNCHANGED absent
  /\ Emit(known \ present, present \ known, lost)
  /\ known' = present
  /\ UNCHANGED <<watch, present, streak, ready, alerts, flips>>

\* The server: EventRecorder.Record, and for a peripheral FireTamperAlert.
Record ==
  /\ events # <<>> /\ events' = Tail(events)
  /\ LET e == Head(events) IN
     alerts' = IF watch = "peripheral" /\ e.kind = "removed"
               THEN alerts \cup {[thing |-> e.thing, absent |-> e.absent]} ELSE alerts
  /\ UNCHANGED <<watch, present, known, streak, ready, armed, woken, absent, flips>>

WatchNext ==
  \/ \E t \in Things, lost \in BOOLEAN : Flip(t, lost)
  \/ Baseline \/ Arm \/ Record
  \/ \E current \in PeripheralLists, lost \in BOOLEAN : PollPeripherals(current, lost)
  \/ \E lost \in BOOLEAN : PollUSB(lost) \/ PollTasks(lost) \/ ReadAgain(lost)

WatchSpec == WatchInit /\ [][WatchNext]_watchVars

-----------------------------------------------------------------------------
(* Properties.                                                              *)

\* A tamper alert is fired only for a device that was missing from MissingStreak
\* polls in a row, with no poll in between that listed it: a single bad poll never
\* makes one, nor do two that are apart (peripheralwatch.go:12-18).
RemovalSustained == \A a \in alerts : a.absent >= MissingStreak
=============================================================================
