------------------------------ MODULE Catalog ------------------------------
(***************************************************************************)
(* The cached model catalog (src/internal/catalog/catalog.go, fetcher.go,  *)
(* snapshot.go): one snapshot in memory, loaded from disk or from what is  *)
(* built in, and replaced by up to three refreshers: a goroutine started   *)
(* at load when the snapshot is stale, a ticker, and a command.            *)
(*                                                                         *)
(* A snapshot is the version of the service's data it holds; its ETag is   *)
(* that version.  Version 0 is what is built in: it has no ETag.  The      *)
(* service is external: it publishes versions in order, and answers a      *)
(* request with its version of that moment, or that the client's is it.    *)
(* Other processes share the file and its temporary name, so at any time   *)
(* the file may hold another version, or be unreadable.                    *)
(***************************************************************************)
EXTENDS Integers

CONSTANTS
  MaxVersion,  \* bound on what the service publishes
  MaxStarts,   \* bound on the processes of a run, one after the other
  Interval     \* whether a refresh interval is configured

ASSUME VersionAssumption == MaxVersion \in Nat \ {0}
ASSUME StartsAssumption == MaxStarts \in Nat
ASSUME IntervalAssumption == Interval \in BOOLEAN

VARIABLES
  published,  \* external: the service's version
  file,       \* the version catalog.json holds, or Missing or Unreadable
  starts,     \* processes started so far
  snapshot,   \* Catalog.snapshot, or NotLoaded
  src,        \* Catalog.src
  mutex,      \* Catalog.refreshing: who holds it
  pc,         \* where a refresher is
  got,        \* what its request was answered with
  cancelled,  \* refreshers whose context is cancelled
  closePc     \* where Close is

vars == <<published, file, starts, snapshot, src, mutex, pc, got, cancelled,
          closePc>>

Refreshers == {"background", "ticker", "command"}
Goroutines == {"background", "ticker"}
Versions == 0 .. MaxVersion
Missing == -1
Unreadable == -2
NotLoaded == -3
NotModified == -4
Failed == -5
Nobody == "nobody"

TypeOK ==
  /\ published \in Versions \ {0}
  /\ file \in Versions \cup {Missing, Unreadable}
  /\ starts \in 0 .. MaxStarts
  /\ snapshot \in Versions \cup {NotLoaded}
  /\ src \in {"none", "embedded", "disk", "network"}
  /\ mutex \in Refreshers \cup {Nobody}
  /\ pc \in [Refreshers -> {"off", "idle", "lock", "request", "sent",
                            "answered", "save", "unlock"}]
  /\ got \in [Refreshers -> Versions \cup {NotModified, Failed}]
  /\ cancelled \subseteq Goroutines
  /\ closePc \in {"open", "background", "ticker", "closed"}

Init ==
  /\ published = 1
  /\ file \in {Missing, Unreadable, 1}
  /\ starts = 0 /\ snapshot = NotLoaded /\ src = "none"
  /\ mutex = Nobody
  /\ pc = [r \in Refreshers |-> "off"] /\ got = [r \in Refreshers |-> Failed]
  /\ cancelled = {} /\ closePc = "closed"

Goto(r, label) == pc' = [pc EXCEPT ![r] = label]

(***************************************************************************)
(* External.                                                               *)
(***************************************************************************)
Publish ==
  /\ published < MaxVersion
  /\ published' = published + 1
  /\ UNCHANGED <<file, starts, snapshot, src, mutex, pc, got, cancelled,
                 closePc>>

OtherProcess ==
  /\ file' \in 1 .. published \cup {Unreadable}
  /\ UNCHANGED <<published, starts, snapshot, src, mutex, pc, got, cancelled,
                 closePc>>

(***************************************************************************)
(* Load.  The built-in snapshot has no date and is always stale; whether   *)
(* the file's is old enough is left open.                                  *)
(***************************************************************************)
Load ==
  /\ snapshot = NotLoaded /\ starts < MaxStarts
  /\ starts' = starts + 1
  /\ IF file \in Versions THEN snapshot' = file /\ src' = "disk"
                          ELSE snapshot' = 0 /\ src' = "embedded"
  /\ \E stale \in BOOLEAN :
       /\ src' = "embedded" => stale
       /\ pc' = [r \in Refreshers |->
                   CASE r = "background" -> IF stale THEN "lock" ELSE "off"
                     [] r = "ticker" -> IF Interval THEN "idle" ELSE "off"
                     [] OTHER -> "idle"]
  /\ mutex' = Nobody /\ cancelled' = {} /\ closePc' = "open"
  /\ UNCHANGED <<published, file, got>>

(* The process dies, or ends after Close.                                  *)
Exit ==
  /\ snapshot # NotLoaded
  /\ snapshot' = NotLoaded /\ src' = "none" /\ mutex' = Nobody
  /\ pc' = [r \in Refreshers |-> "off"]
  /\ got' = [r \in Refreshers |-> Failed]
  /\ cancelled' = {} /\ closePc' = "closed"
  /\ UNCHANGED <<published, file, starts>>

(***************************************************************************)
(* Refresh.                                                                *)
(***************************************************************************)
(* The ticker's select, which takes either case when both are ready, and   *)
(* the command, which runs before Close is called.                         *)
Fire(r) ==
  /\ pc[r] = "idle" /\ (r = "command" => closePc = "open")
  /\ Goto(r, "lock")
  /\ UNCHANGED <<published, file, starts, snapshot, src, mutex, got, cancelled,
                 closePc>>

StopTicker ==
  /\ pc["ticker"] = "idle" /\ "ticker" \in cancelled
  /\ Goto("ticker", "off")
  /\ UNCHANGED <<published, file, starts, snapshot, src, mutex, got, cancelled,
                 closePc>>

(* Mutant: the mutex is not taken.                                         *)
LockNothing(r) ==
  /\ pc[r] = "lock" /\ Goto(r, "request")
  /\ UNCHANGED <<published, file, starts, snapshot, src, mutex, got, cancelled,
                 closePc>>

Lock(r) ==
  /\ pc[r] = "lock" /\ mutex = Nobody
  /\ mutex' = r /\ Goto(r, "request")
  /\ UNCHANGED <<published, file, starts, snapshot, src, got, cancelled,
                 closePc>>

(* FetchWithETag: the ETag of the snapshot goes out ...                    *)
Request(r) ==
  /\ pc[r] = "request" /\ r \notin cancelled
  /\ Goto(r, "sent") /\ got' = [got EXCEPT ![r] = snapshot]
  /\ UNCHANGED <<published, file, starts, snapshot, src, mutex, cancelled,
                 closePc>>

(* ... and the service has it, later.                                      *)
Answer(r) ==
  /\ pc[r] = "sent"
  /\ Goto(r, "answered")
  /\ got' = [got EXCEPT ![r] = IF @ = published THEN NotModified ELSE published]
  /\ UNCHANGED <<published, file, starts, snapshot, src, mutex, cancelled,
                 closePc>>

(* An error, a timeout or a cancelled context, until the body is read.     *)
RefreshFails(r) ==
  /\ pc[r] \in {"request", "sent", "answered"}
  /\ Goto(r, "unlock") /\ got' = [got EXCEPT ![r] = Failed]
  /\ UNCHANGED <<published, file, starts, snapshot, src, mutex, cancelled,
                 closePc>>

(* The answer has been read: the snapshot is replaced.                     *)
Store(r) ==
  /\ pc[r] = "answered"
  /\ IF got[r] = NotModified
     THEN Goto(r, "unlock") /\ UNCHANGED <<snapshot, src>>
     ELSE Goto(r, "save") /\ snapshot' = got[r] /\ src' = "network"
  /\ UNCHANGED <<published, file, starts, mutex, got, cancelled, closePc>>

(* writeSnapshotFile, whose failure is logged.  A rename replaces the file *)
(* at once; what another process does to the shared temporary name before  *)
(* or after is OtherProcess.                                               *)
Save(r) ==
  /\ pc[r] = "save" /\ Goto(r, "unlock")
  /\ file' \in {file, got[r]}
  /\ UNCHANGED <<published, starts, snapshot, src, mutex, got, cancelled,
                 closePc>>

Unlock(r) ==
  /\ pc[r] = "unlock"
  /\ mutex' = IF mutex = r THEN Nobody ELSE mutex
  /\ Goto(r, IF r = "ticker" THEN "idle" ELSE "off")
  /\ UNCHANGED <<published, file, starts, snapshot, src, got, cancelled,
                 closePc>>

(***************************************************************************)
(* Close: cancel and wait for the background goroutine, then the ticker.   *)
(* The command calls it when its refresh has returned.                     *)
(***************************************************************************)
Close ==
  /\ snapshot # NotLoaded /\ closePc = "open"
  /\ pc["command"] \in {"idle", "off"}
  /\ closePc' = "background" /\ cancelled' = {"background"}
  /\ UNCHANGED <<published, file, starts, snapshot, src, mutex, pc, got>>

(* Mutant: the ticker is waited for before it is told to stop.             *)
CloseWaitsForTicker ==
  /\ closePc = "background" /\ pc["background"] = "off"
  /\ closePc' = "ticker"
  /\ UNCHANGED <<published, file, starts, snapshot, src, mutex, pc, got,
                 cancelled>>

CloseTicker ==
  /\ closePc = "background" /\ pc["background"] = "off"
  /\ closePc' = "ticker" /\ cancelled' = cancelled \cup {"ticker"}
  /\ UNCHANGED <<published, file, starts, snapshot, src, mutex, pc, got>>

CloseReturn ==
  /\ closePc = "ticker" /\ pc["ticker"] = "off"
  /\ closePc' = "closed"
  /\ UNCHANGED <<published, file, starts, snapshot, src, mutex, pc, got,
                 cancelled>>

Refresh(r) ==
  \/ Fire(r) \/ Lock(r) \/ Request(r) \/ Answer(r) \/ RefreshFails(r)
  \/ Store(r) \/ Save(r) \/ Unlock(r)

Next ==
  \/ Publish \/ OtherProcess \/ Load \/ Exit
  \/ \E r \in Refreshers : Refresh(r)
  \/ StopTicker \/ Close \/ CloseTicker \/ CloseReturn

Spec == Init /\ [][Next]_vars

(* Fairness: a request ends (it has a deadline), the mutex goes to whoever *)
(* waits, and the ticker's select cannot prefer a timer that needs an      *)
(* interval to be ready again to a context that stays cancelled.           *)
Fairness ==
  /\ \A r \in Refreshers :
       /\ SF_vars(Lock(r))
       /\ WF_vars(Request(r) \/ Answer(r) \/ RefreshFails(r) \/ Store(r))
       /\ WF_vars(Save(r) \/ Unlock(r))
  /\ SF_vars(StopTicker)
  /\ WF_vars(CloseTicker \/ CloseReturn)

FairSpec == Spec /\ Fairness

(***************************************************************************)
(* Properties.                                                             *)
(***************************************************************************)
(* A snapshot in memory is never replaced by an older one, although three  *)
(* refreshers ask a service that moves on, and answers take any time.      *)
SnapshotNeverGoesBack ==
  [][snapshot # NotLoaded /\ snapshot' # NotLoaded => snapshot' >= snapshot]_vars

(* Close waits for the goroutines it has cancelled, one of which may wait  *)
(* for the mutex the other holds, and returns.                             *)
CloseReturns == closePc = "background" ~> closePc = "closed"
=============================================================================
