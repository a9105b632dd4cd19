-------------------------- MODULE RestartCoordinator --------------------------
(***************************************************************************)
(* The restart coordinator of the panel (services/restartCoordinator.js)    *)
(* and the settings routes that use it.  A settings route reads a setting,  *)
(* writes it and registers the change; the transaction that collects the    *)
(* changes is one JSON file that the operator cancels or confirms, that a    *)
(* confirmation hands over to the next panel process, and that the browser   *)
(* polls.                                                                    *)
(*                                                                          *)
(* The panel runs one handler at a time and changes handler only at an       *)
(* await, so an action is the code between two awaits.  Every handler keeps  *)
(* the copy of the file it read before its awaits and writes that copy back  *)
(* afterwards.  The process may stop between any two actions, and inside     *)
(* confirm between its first write and the restart of the server.            *)
(***************************************************************************)
EXTENDS Naturals, Sequences, FiniteSets

CONSTANTS
  Users,        \* operators who may change settings
  Keys,         \* settings whose change needs a restart
  Values,       \* values of a setting
  Calls,        \* slots for HTTP requests in progress
  MAX_CHANGES,  \* changes one transaction may hold
  MaxSaves,     \* bound: settings saved in a behaviour
  MaxBoots      \* bound: times the panel process is started

ASSUME BoundsAssumption ==
  /\ MAX_CHANGES \in Nat \ {0}
  /\ MaxSaves \in Nat /\ MaxBoots \in Nat \ {0}
  /\ Values # {}

VARIABLES
  file,     \* the transaction in .restart-transaction.json, or NoState
  setting,  \* the saved settings
  running,  \* the settings the server was last started with
  calls,    \* what each request in progress does next
  up,       \* is the panel process running?
  boot,     \* BOOT_ID of that process, in the order of the processes
  exiting,  \* has confirm armed the timer that ends the process?
  saves,    \* settings saved so far: the source of transaction ids
  accident  \* history: has one of the accidents of DriftHasCause happened?

vars == <<file, setting, running, calls, up, boot, exiting, saves, accident>>

Phases == {"absent", "pending", "restarting", "ready", "failed"}
NoState == [id |-> 0, user |-> "nobody", phase |-> "absent", changes |-> <<>>, boot |-> 0]
Idle == [op |-> "idle", state |-> NoState, left |-> <<>>, broken |-> FALSE]

ChangedKeys(changes) == {changes[i].key : i \in DOMAIN changes}
KeysOf(call) == ChangedKeys(call.state.changes)

(***************************************************************************)
(* A handler runs only while the process is up and no handler is between     *)
(* two statements that no await separates (the restart inside confirm).      *)
(***************************************************************************)
CanRun == up /\ \A c \in Calls : calls[c].op # "restart"

Enter(c, call) == calls[c] = Idle /\ calls' = [calls EXCEPT ![c] = call]
Leave(c) == calls' = [calls EXCEPT ![c] = Idle]

\* Another request in progress is about the same setting.
Contended(c, keys) == \E d \in Calls \ {c} : KeysOf(calls[d]) \cap keys # {}
Accident(holds) == accident' = (accident \/ holds)
Stale(c) == calls[c].state # file

Init ==
  /\ file = NoState
  /\ setting = [k \in Keys |-> CHOOSE v \in Values : TRUE]
  /\ running = setting
  /\ calls = [c \in Calls |-> Idle]
  /\ up = TRUE
  /\ boot = 1
  /\ exiting = FALSE
  /\ saves = 0
  /\ accident = FALSE

-----------------------------------------------------------------------------
(* Saving a setting: read the previous value, write, register.              *)

\* The settings route reads the value a rollback would have to restore.
SaveRead(c, u, k) ==
  /\ CanRun
  /\ saves < MaxSaves
  /\ saves' = saves + 1
  /\ Enter(c, [Idle EXCEPT !.op = "saving",
                 !.state = [id |-> saves + 1, user |-> u, phase |-> "pending", boot |-> 0,
                            changes |-> <<[key |-> k, old |-> setting[k]]>>]])
  /\ Accident(Contended(c, {k}))
  /\ UNCHANGED <<file, setting, running, up, boot, exiting>>

SaveWrite(c, v) ==
  /\ CanRun
  /\ calls[c].op = "saving"
  /\ setting' = [setting EXCEPT ![calls[c].state.changes[1].key] = v]
  /\ calls' = [calls EXCEPT ![c].op = "saved"]
  /\ Accident(Contended(c, KeysOf(calls[c])))
  /\ UNCHANGED <<file, running, up, boot, exiting, saves>>

(* Mutant of registerChange: the latest snapshot wins. *)
RegisteredLatest(fresh) ==
  IF file.phase # "pending" THEN fresh
  ELSE [file EXCEPT !.changes =
          SelectSeq(@, LAMBDA x : x.key \notin ChangedKeys(fresh.changes)) \o fresh.changes]

(* Mutant of registerChange: no look at the changes already there. *)
RegisteredTwice(fresh) ==
  IF file.phase # "pending" THEN fresh ELSE [file EXCEPT !.changes = @ \o fresh.changes]

\* registerChange adds to the pending transaction of the same operator, keeps
\* the first snapshot of a setting, and starts a new transaction over one that
\* is no longer pending.  It refuses after the setting has been written.
Registered(fresh) ==
  IF file.phase # "pending" THEN fresh
  ELSE IF ChangedKeys(fresh.changes) \subseteq ChangedKeys(file.changes) THEN file
  ELSE [file EXCEPT !.changes = @ \o fresh.changes]

Refused(fresh) ==
  /\ file.phase = "pending"
  /\ \/ file.user # fresh.user
     \/ Len(Registered(fresh).changes) > MAX_CHANGES

registerChange(c) ==
  /\ CanRun
  /\ calls[c].op = "saved"
  /\ LET fresh == calls[c].state IN
       /\ file' = IF Refused(fresh) THEN file ELSE Registered(fresh)
       /\ Accident(Refused(fresh))
  /\ Leave(c)
  /\ UNCHANGED <<setting, running, up, boot, exiting, saves>>

\* In a container the server takes the setting without a restart; the route
\* then dismisses a failed transaction that holds the setting.
dismissFailed(c) ==
  /\ CanRun
  /\ calls[c].op = "saved"
  /\ LET k == calls[c].state.changes[1].key IN
       /\ running' = [running EXCEPT ![k] = setting[k]]
       /\ file' = IF /\ file.phase = "failed"
                     /\ file.user = calls[c].state.user
                     /\ k \in ChangedKeys(file.changes)
                  THEN NoState ELSE file
       /\ Accident(Contended(c, {k}) \/ k \in ChangedKeys(file.changes))
  /\ Leave(c)
  /\ UNCHANGED <<setting, up, boot, exiting, saves>>

-----------------------------------------------------------------------------
(* Cancelling.                                                              *)

cancel(c, u) ==
  /\ CanRun
  /\ file.user = u
  /\ file.phase = "pending"
  /\ Enter(c, [op |-> "cancelling", state |-> file, left |-> file.changes, broken |-> FALSE])
  /\ Accident(Contended(c, ChangedKeys(file.changes)))
  /\ UNCHANGED <<file, setting, running, up, boot, exiting, saves>>

\* One round of the loops of cancel and rollbackStateChanges: the last change
\* not undone yet is undone, or fails and the loop goes on.
rollbackChange(c) ==
  /\ CanRun
  /\ calls[c].op \in {"cancelling", "undoing"}
  /\ calls[c].left # <<>>
  /\ LET n == Len(calls[c].left)
         change == calls[c].left[n]
         rest == SubSeq(calls[c].left, 1, n - 1)
     IN \/ /\ setting' = [setting EXCEPT ![change.key] = change.old]
           /\ calls' = [calls EXCEPT ![c].left = rest]
           /\ Accident(Contended(c, {change.key}))
        \/ /\ setting' = setting
           /\ calls' = [calls EXCEPT ![c].left = rest, ![c].broken = TRUE]
           /\ Accident(TRUE)
  /\ UNCHANGED <<file, running, up, boot, exiting, saves>>

\* A cancellation whose rollbacks all worked removes the file, any other one
\* writes its own copy back as failed.
CancelEnd(c) ==
  /\ CanRun
  /\ calls[c].op = "cancelling"
  /\ calls[c].left = <<>>
  /\ file' = IF calls[c].broken THEN [calls[c].state EXCEPT !.phase = "failed"] ELSE NoState
  /\ Accident(Stale(c))
  /\ Leave(c)
  /\ UNCHANGED <<setting, running, up, boot, exiting, saves>>

-----------------------------------------------------------------------------
(* Confirming.                                                              *)

confirm(c, u) ==
  /\ CanRun
  /\ boot + (IF exiting THEN 1 ELSE 0) < MaxBoots
  /\ file.user = u
  /\ file.phase \in {"pending", "failed"}
  /\ file' = [file EXCEPT !.phase = "restarting", !.boot = boot]
  /\ Enter(c, [op |-> "restart", state |-> file', left |-> file.changes, broken |-> FALSE])
  /\ Accident(Contended(c, ChangedKeys(file.changes)))
  /\ UNCHANGED <<setting, running, up, boot, exiting, saves>>

(* Mutant of confirm: the timer is not armed. *)
StayUp == exiting' = exiting

ArmExit == exiting' = TRUE

\* restartServer succeeds: the server runs with the saved settings and the
\* panel will exit.
RestartDone(c) ==
  /\ up
  /\ calls[c].op = "restart"
  /\ running' = setting
  /\ ArmExit
  /\ Accident(\E d \in Calls \ {c} : calls[d].op \notin {"idle", "polling"})
  /\ Leave(c)
  /\ UNCHANGED <<file, setting, up, boot, saves>>

\* restartServer reports a failure: the changes are rolled back. The command that
\* failed or timed out has started the server with the saved settings or it has
\* not; the rollback that follows does not start it again.
RestartFailed(c) ==
  /\ up
  /\ calls[c].op = "restart"
  /\ running' \in {running, setting}
  /\ calls' = [calls EXCEPT ![c].op = "undoing"]
  /\ Accident(running' # running)
  /\ UNCHANGED <<file, setting, up, boot, exiting, saves>>

\* restartServer throws (no way to restart on this deployment): the
\* transaction fails and nothing is rolled back.
RestartThrew(c) ==
  /\ up
  /\ calls[c].op = "restart"
  /\ file' = [calls[c].state EXCEPT !.phase = "failed"]
  /\ Accident(TRUE)
  /\ Leave(c)
  /\ UNCHANGED <<setting, running, up, boot, exiting, saves>>

UndoEnd(c) ==
  /\ CanRun
  /\ calls[c].op = "undoing"
  /\ calls[c].left = <<>>
  /\ file' = [calls[c].state EXCEPT !.phase = "failed"]
  /\ Accident(Stale(c))
  /\ Leave(c)
  /\ UNCHANGED <<setting, running, up, boot, exiting, saves>>

-----------------------------------------------------------------------------
(* After the restart.                                                       *)

(* Mutant of getPublicStatus: the boot id is not compared. *)
ConfirmedByAnyone == TRUE

ConfirmedByAnother == file.boot # boot

\* getPublicStatus asks the server for its health only for a transaction that
\* another process confirmed.
getPublicStatus(c) ==
  /\ CanRun
  /\ file.phase = "restarting"
  /\ ConfirmedByAnother
  /\ Enter(c, [Idle EXCEPT !.op = "polling", !.state = file])
  /\ UNCHANGED <<file, setting, running, up, boot, exiting, saves, accident>>

Healthy(c) ==
  /\ CanRun
  /\ calls[c].op = "polling"
  /\ file' = [calls[c].state EXCEPT !.phase = "ready"]
  /\ Accident(Stale(c))
  /\ Leave(c)
  /\ UNCHANGED <<setting, running, up, boot, exiting, saves>>

\* The server is not running yet: nothing is written, the browser asks again.
Unhealthy(c) ==
  /\ CanRun
  /\ calls[c].op = "polling"
  /\ Leave(c)
  /\ UNCHANGED <<file, setting, running, up, boot, exiting, saves, accident>>

(* Mutant of complete: a transaction of any phase is removed. *)
CompletesAlways == TRUE

Completes == file.phase \in {"ready", "failed"}

complete(u) ==
  /\ CanRun
  /\ file.user = u
  /\ Completes
  /\ file' = NoState
  /\ UNCHANGED <<setting, running, calls, up, boot, exiting, saves, accident>>

-----------------------------------------------------------------------------
(* The process ends, by its own timer or in a crash, and is started again.  *)

Stop ==
  /\ up' = FALSE
  /\ exiting' = FALSE
  /\ calls' = [c \in Calls |-> Idle]
  /\ Accident(\E c \in Calls : calls[c].op \notin {"idle", "saving", "polling"})
  /\ UNCHANGED <<file, setting, running, boot, saves>>

Exit == CanRun /\ exiting /\ Stop
Crash == up /\ boot < MaxBoots /\ Stop

Boot ==
  /\ ~up
  /\ up' = TRUE
  /\ boot' = boot + 1
  /\ UNCHANGED <<file, setting, running, calls, exiting, saves, accident>>

Next ==
  \/ \E c \in Calls, u \in Users, k \in Keys : SaveRead(c, u, k)
  \/ \E c \in Calls, v \in Values : SaveWrite(c, v)
  \/ \E c \in Calls : \/ registerChange(c) \/ dismissFailed(c)
                      \/ rollbackChange(c) \/ CancelEnd(c)
                      \/ RestartDone(c) \/ RestartFailed(c) \/ RestartThrew(c) \/ UndoEnd(c)
                      \/ getPublicStatus(c) \/ Healthy(c) \/ Unhealthy(c)
  \/ \E c \in Calls, u \in Users : cancel(c, u) \/ confirm(c, u)
  \/ \E u \in Users : complete(u)
  \/ Exit \/ Crash \/ Boot

(***************************************************************************)
(* The supervisor starts the panel again, the timer of confirm fires, a      *)
(* request in progress goes on, the browser keeps polling, and the server    *)
(* answers running in the end (restart-flow.js polls until it does).         *)
(***************************************************************************)
Resume(c) ==
  \/ registerChange(c) \/ rollbackChange(c) \/ CancelEnd(c) \/ UndoEnd(c) \/ Unhealthy(c)
  \/ RestartDone(c) \/ RestartFailed(c) \/ RestartThrew(c)
  \/ \E v \in Values : SaveWrite(c, v)

Fairness ==
  /\ WF_vars(Boot)
  /\ WF_vars(Exit)
  /\ \A c \in Calls : WF_vars(Resume(c)) /\ SF_vars(getPublicStatus(c)) /\ SF_vars(Healthy(c))

Spec == Init /\ [][Next]_vars
FairSpec == Spec /\ Fairness

-----------------------------------------------------------------------------
(* Properties.                                                              *)

Change == [key : Keys, old : Values]
Changes == UNION {[1..n -> Change] : n \in 0..MAX_CHANGES}
States == [id : 0..MaxSaves, user : Users \cup {"nobody"}, phase : Phases,
           changes : Changes, boot : 0..MaxBoots]

\* Every variable has its type, a transaction holds at most MAX_CHANGES changes
\* (registerChange) and no two of the same setting.
CoordinatorTypeOK ==
  /\ file \in States
  /\ Cardinality(ChangedKeys(file.changes)) = Len(file.changes)
  /\ setting \in [Keys -> Values]
  /\ running \in [Keys -> Values]
  /\ calls \in [Calls -> [op : {"idle", "saving", "saved", "cancelling", "restart",
                                "undoing", "polling"},
                          state : States, left : Changes, broken : BOOLEAN]]
  /\ up \in BOOLEAN
  /\ boot \in 1..MaxBoots
  /\ exiting \in BOOLEAN
  /\ saves \in 0..MaxSaves
  /\ accident \in BOOLEAN

\* The browser is told ready only by a process started after the one that
\* confirmed (getPublicStatus compares bootId): no stale copy that a suspended
\* handler writes back can make a process report its own restart.
ReadyAfterReboot == file.phase = "ready" => file.boot < boot

\* While none of the accidents (a refused registration, a rollback that failed,
\* a deployment that cannot restart, a restart reported as failed that had
\* started the server, a stop in the middle of a handler, or requests about one
\* setting that overlap) has happened, a setting that differs from what the
\* server runs with is in the hands of a request or in a transaction the
\* operator can still cancel: the first snapshot of registerChange is the value
\* of the running server, cancel and a failed restart go back to it, and a
\* transaction that is restarting, ready or failed leaves no difference.
DriftHasCause ==
  ~accident =>
    \A k \in Keys : setting[k] # running[k] =>
      \/ \E c \in Calls : calls[c].op # "polling" /\ k \in KeysOf(calls[c])
      \/ file.phase = "pending" /\ k \in ChangedKeys(file.changes)

\* A pending transaction goes away only through the cancellation that read it
\* or through a handler that writes back a copy older than the file: no other
\* operator and no other route removes or replaces it.
PendingKept ==
  [][file.phase = "pending" /\ file'.id # file.id
       => \E c \in Calls : /\ calls[c] # Idle /\ calls'[c] = Idle
                           /\ calls[c].op = "cancelling" \/ Stale(c)]_vars

\* A confirmed transaction does not stay restarting: the browser that polls is
\* told ready or failed, or the transaction has been replaced.
RestartConcludes ==
  \A n \in 1..MaxSaves :
    (file.id = n /\ file.phase = "restarting") ~> ~(file.id = n /\ file.phase = "restarting")

=============================================================================
