---------------------------- MODULE StatusWatch -----------------------------
(***************************************************************************)
(* The status of one application as the agent sees it                      *)
(* (elastic-agent/server/server.go): updateStatus, called by the handlers  *)
(* and receivers of its check-in streams, the watchdog that marks an       *)
(* application which misses its check-ins, SetStatus, and OnStatusChange,  *)
(* which is called when the lock has been released.                        *)
(*                                                                         *)
(* Time passes in ticks, and times are kept as ages.  The payload goes     *)
(* with the message.  Bad names what the next definition would be with a   *)
(* plausible fault in it.                                                  *)
(***************************************************************************)
EXTENDS Naturals, FiniteSets

CONSTANTS
  Limit,        \* checkInMinTimeout
  Patience,     \* an application is expected to check in this often
  Delay,        \* bound on the ticks a round of the watchdog takes
  Receiver,     \* the goroutines that call updateStatus
  Setter,       \* the threads that call SetStatus
  Reported      \* the statuses the application reports

ASSUME WatchAssumption ==
  /\ Limit \in Nat /\ Patience \in Nat /\ Delay \in Nat
  /\ Reported \subseteq {"healthy", "degraded", "failed"}

VARIABLES
  status, message,      \* guarded by checkinLock
  age,                  \* of statusTime
  silence,              \* ticks since the last check-in, for the properties
  due,                  \* the watchdog's timer has fired
  wd,                   \* "wait", "read", "lock", "notify"
  wdAge,                \* of the watchdog's now
  wdNote,               \* what it tells the handler
  recv, note,           \* per Receiver: "idle" or "notify", and what it tells
  setter, setting,      \* per Setter: "idle", "status" (written), "done"
  crossed,              \* SetStatus calls crossed since the record was last
                        \* written by one writer, for the properties
  heard                 \* the handler's last OnStatusChange

recVars  == <<status, message>>
timeVars == <<age, silence>>
wdVars   == <<due, wd, wdAge, wdNote>>
recvVars == <<recv, note>>
setVars  == <<setter, setting, crossed>>
vars     == <<recVars, timeVars, wdVars, recvVars, setVars, heard>>

Status == {"healthy", "degraded", "failed"}     \* "healthy" is any other

\* A message, by whom and of which status it tells.
Message == [by : {"client", "agent", "last", "two"}, of : Status]
Record  == [status : Status, message : Message]

MaxAge     == Limit + 1 + Delay
MaxSilence == 2 * (Limit + 1) + Delay + 1
Older(t, max) == IF t < max THEN t + 1 ELSE t

Text(by, st) == [by |-> by, of |-> st]
Now == [status |-> status, message |-> message]

\* The types; and the watchdog tells of what it has marked.
TypeOK ==
  /\ Now \in Record /\ heard \in Record
  /\ age \in 0..MaxAge /\ silence \in 0..MaxSilence
  /\ due \in BOOLEAN /\ wd \in {"wait", "read", "lock", "notify"}
  /\ wdAge \in 0..Delay /\ wdNote \in Record
  /\ wd = "notify" => wdNote.message.by \in {"last", "two"}
  /\ recv \in [Receiver -> {"idle", "notify"}] /\ note \in [Receiver -> Record]
  /\ setter \in [Setter -> {"idle", "status", "done"}]
  /\ setting \in [Setter -> Status] /\ crossed \in BOOLEAN

\* Register.
Init ==
  /\ status = "healthy" /\ message = Text("client", "healthy")
  /\ age = 0 /\ silence = 0
  /\ due = FALSE /\ wd = "wait" /\ wdAge = 0 /\ wdNote = Now
  /\ recv = [r \in Receiver |-> "idle"] /\ note = [r \in Receiver |-> Now]
  /\ setter = [x \in Setter |-> "idle"] /\ setting = [x \in Setter |-> "healthy"]
  /\ crossed = FALSE /\ heard = Now

\* A timer that fires while a round is under way starts the next one late.
Tick ==
  /\ wd = "wait" \/ wdAge < Delay
  /\ age' = Older(age, MaxAge) /\ silence' = Older(silence, MaxSilence)
  /\ wdAge' = IF wd = "wait" THEN wdAge ELSE wdAge + 1
  /\ due' = TRUE
  /\ UNCHANGED <<recVars, wd, wdNote, recvVars, setVars, heard>>

\* SetStatus holds the read lock while it writes.
ReadLocked == \E x \in Setter : setter[x] = "status"

-----------------------------------------------------------------------------
(* updateStatus: what it has to tell, it tells without the lock.           *)

Update(r) ==
  /\ recv[r] = "idle" /\ ~ReadLocked
  /\ \E st \in Reported :
       /\ status' = st /\ message' = Text("client", st)
       /\ IF Now # Now'
            THEN recv' = [recv EXCEPT ![r] = "notify"] /\ note' = [note EXCEPT ![r] = Now']
            ELSE UNCHANGED recvVars
  /\ age' = 0 /\ silence' = 0 /\ crossed' = FALSE
  /\ UNCHANGED <<wdVars, setter, setting, heard>>

Notify(r) ==
  /\ recv[r] = "notify"
  /\ heard' = note[r]
  /\ recv' = [recv EXCEPT ![r] = "idle"]
  /\ UNCHANGED <<recVars, timeVars, wdVars, note, setVars>>

-----------------------------------------------------------------------------
(* A round of the watchdog.                                                *)

WatchBegin ==
  /\ wd = "wait" /\ due
  /\ wd' = "read" /\ wdAge' = 0 /\ due' = FALSE
  /\ UNCHANGED <<recVars, timeVars, wdNote, recvVars, setVars, heard>>

\* now.Sub(statusTime) > checkInMinTimeout
Late == age > Limit + wdAge

WatchRead ==
  /\ wd = "read"
  /\ wd' = IF Late THEN "lock" ELSE "wait"
  /\ UNCHANGED <<recVars, timeVars, due, wdAge, wdNote, recvVars, setVars, heard>>

BadMark ==
  [status |-> "failed", message |-> Text("two", "failed")]

BadSecond ==
  IF status # "failed" THEN [status |-> "degraded", message |-> Text("last", "degraded")]
  ELSE Now

\* The record an application that is late gets.
Mark ==
  IF status = "degraded" THEN [status |-> "failed", message |-> Text("two", "failed")]
  ELSE IF status # "failed" THEN [status |-> "degraded", message |-> Text("last", "degraded")]
  ELSE Now

Told == Mark # Now

BadMayMark == TRUE

MayMark == ~ReadLocked

\* What was read of statusTime is not read again.
WatchMark ==
  /\ wd = "lock" /\ MayMark
  /\ status' = Mark.status /\ message' = Mark.message
  /\ age' = IF status = "failed" THEN age ELSE wdAge
  /\ wd' = IF Told THEN "notify" ELSE "wait"
  /\ wdNote' = Mark /\ crossed' = (crossed /\ ~Told)
  /\ UNCHANGED <<silence, due, wdAge, recvVars, setter, setting, heard>>

WatchNotify ==
  /\ wd = "notify"
  /\ heard' = wdNote
  /\ wd' = "wait"
  /\ UNCHANGED <<recVars, timeVars, due, wdAge, wdNote, recvVars, setVars>>

-----------------------------------------------------------------------------
(* SetStatus writes one field after the other, and may do so while another *)
(* SetStatus does.  The time of the status stays what it was.              *)

SetStatus(x) ==
  /\ setter[x] = "idle"
  /\ \E st \in Status : status' = st /\ setting' = [setting EXCEPT ![x] = st]
  /\ setter' = [setter EXCEPT ![x] = "status"]
  /\ crossed' = ReadLocked
  /\ UNCHANGED <<message, timeVars, wdVars, recvVars, heard>>

SetMessage(x) ==
  /\ setter[x] = "status"
  /\ message' = Text("agent", setting[x])
  /\ setter' = [setter EXCEPT ![x] = "done"]
  /\ UNCHANGED <<status, timeVars, wdVars, recvVars, setting, crossed, heard>>

-----------------------------------------------------------------------------
Watch == WatchBegin \/ WatchRead \/ WatchMark \/ WatchNotify

Work == \/ \E r \in Receiver : Update(r) \/ Notify(r)
        \/ Watch
        \/ \E x \in Setter : SetStatus(x) \/ SetMessage(x)

Next == Tick \/ Work

Spec == Init /\ [][Next]_vars

\* Nothing but a round of the watchdog takes a whole tick: the watchdog begins
\* a round when its timer fires and OnStatusChange returns at once.
Prompt ==
  /\ ~(wd = "wait" /\ due)
  /\ \A r \in Receiver : recv[r] = "idle"
  /\ \A x \in Setter : setter[x] # "status"

Timed == Init /\ [][(Tick /\ Prompt) \/ Work]_vars

\* The agent has not set the status.
Unset == \A x \in Setter : setter[x] = "idle"

-----------------------------------------------------------------------------

\* However many SetStatus calls there are, a record whose message tells of
\* another status than it stands beside is one that two of them wrote at once,
\* under the read lock that both may hold: no check-in and no watchdog gets
\* between anybody's fields, a call that has the lock to itself writes whole,
\* and what two calls tore is whole again when the next writer is done.
\* (server.go 678-683, 708-721, 858-880)
Whole == ~ReadLocked /\ message.of # status => crossed /\ message.by = "agent"

\* An application that says nothing is FAILED, and the handler has heard of
\* it, when two timeouts have passed and the watchdog has had its rounds.
\* (server.go 851-884)
SilentIsFailed ==
  Unset /\ Prompt /\ wd = "wait" /\ silence >= 2 * (Limit + 1) + Delay
    => status = "failed" /\ heard.status = "failed"

\* Where only the watchdog makes a status degraded, whom it fails has not
\* checked in for more than a timeout, less what a round takes: what is stale
\* of a round costs the application one mark, never both.
\* (server.go 857-879)
FailedWasSilent ==
  "degraded" \notin Reported /\ Unset /\ message.by = "two"
    => silence + Delay > Limit

-----------------------------------------------------------------------------
(* What comments, messages and documents say.                              *)

\* The record that SetStatus is to guard with the lock (server.go:675-684).
NeverTorn == ~ReadLocked => message.of = status

\* "Missed last check-in" (server.go:873)
LastWasMissed == message.by = "last" => silence > Limit

\* "Missed two check-ins" (server.go:865)
TwoWereMissed == message.by = "two" => silence > 2 * Limit

\* "at least every 30 seconds or it will result in the application be
\* automatically marked as FAILED" (control.proto:113)
FailedInTime == wd = "wait" /\ Prompt /\ silence > Patience => status = "failed"

\* "OnStatusChange called when a registered application observed status is
\* changed" (server.go:93): when nobody is about to tell the handler more,
\* what it heard last is the status.
HandlerKnows ==
  wd # "notify" /\ (\A r \in Receiver : recv[r] = "idle") => heard = Now
=============================================================================
