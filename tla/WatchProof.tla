----------------------------- MODULE WatchProof -----------------------------
(***************************************************************************)
(* What holds of the status of an application for any timeout, however     *)
(* long a round of the watchdog takes and however many goroutines write.   *)
(***************************************************************************)
EXTENDS StatusWatch, TLAPS

LEMMA TextType ==
  ASSUME NEW by \in {"client", "agent", "last", "two"}, NEW st \in Status
  PROVE  Text(by, st) \in Message
  BY DEF Text, Message

LEMMA StatusType ==
  /\ Reported \subseteq Status
  /\ {"healthy", "degraded", "failed"} \subseteq Status
  BY WatchAssumption DEF Status

LEMMA NowType == Now \in Record <=> status \in Status /\ message \in Message
  BY DEF Now, Record

LEMMA MarkType ==
  ASSUME Now \in Record
  PROVE  /\ Mark \in Record
         /\ Told => Mark.message.by \in {"last", "two"}
  <1>1. CASE status = "degraded"
    <2>1. Text("two", "failed") \in Message
      BY TextType, StatusType
    <2> QED BY <1>1, <2>1, StatusType DEF Mark, Record, Text
  <1>2. CASE status # "degraded" /\ status # "failed"
    <2>1. Text("last", "degraded") \in Message
      BY TextType, StatusType
    <2> QED BY <1>2, <2>1, StatusType DEF Mark, Record, Text
  <1>3. CASE status = "failed"
    BY <1>3 DEF Mark, Told
  <1> QED BY <1>1, <1>2, <1>3

-----------------------------------------------------------------------------
\* The variables have the types of TypeOK, whoever writes the status and
\* however the watchdog's rounds and the ticks interleave (server.go 655-744,
\* 839-889).
THEOREM WatchTypeCorrect == Spec => []TypeOK
<1> USE WatchAssumption
<1>1. Init => TypeOK
  <2> SUFFICES ASSUME Init PROVE TypeOK
    OBVIOUS
  <2>1. Now \in Record
    BY TextType, StatusType, NowType DEF Init
  <2>2. age \in 0..MaxAge /\ silence \in 0..MaxSilence /\ wdAge \in 0..Delay
    BY DEF Init, MaxAge, MaxSilence
  <2>3. wdNote \in Record /\ heard \in Record /\ note \in [Receiver -> Record]
    BY <2>1 DEF Init
  <2>4. setting \in [Setter -> Status]
    BY StatusType DEF Init
  <2> QED BY <2>1, <2>2, <2>3, <2>4 DEF Init, TypeOK
<1>2. TypeOK /\ [Next]_vars => TypeOK'
  <2> SUFFICES ASSUME TypeOK, [Next]_vars PROVE TypeOK'
    OBVIOUS
  <2>t. status \in Status /\ message \in Message
    BY NowType DEF TypeOK
  <2>1. CASE Tick
    BY <2>1 DEF Tick, TypeOK, Now, Older, MaxAge, MaxSilence, recVars, recvVars, setVars
  <2>2. ASSUME NEW r \in Receiver, Update(r) PROVE TypeOK'
    <3>1. Now' \in Record
      BY <2>2, TextType, StatusType DEF Update, Now, Record
    <3>2. recv' \in [Receiver -> {"idle", "notify"}] /\ note' \in [Receiver -> Record]
      BY <2>2, <3>1 DEF Update, TypeOK, recvVars
    <3>3. crossed' \in BOOLEAN
      BY <2>2 DEF Update
    <3>4. wd' = wd /\ wdNote' = wdNote /\ due' = due /\ wdAge' = wdAge
      BY <2>2 DEF Update, wdVars
    <3> QED BY <2>2, <3>1, <3>2, <3>3, <3>4 DEF Update, TypeOK, MaxAge, MaxSilence
  <2>3. ASSUME NEW r \in Receiver, Notify(r) PROVE TypeOK'
    BY <2>3 DEF Notify, TypeOK, Now, recVars, timeVars, wdVars, setVars
  <2>4. CASE WatchBegin
    <3>1. Now' = Now
      BY <2>4 DEF WatchBegin, Now, recVars
    <3>2. wdAge' \in 0..Delay
      BY <2>4 DEF WatchBegin
    <3> QED BY <2>4, <3>1, <3>2 DEF WatchBegin, TypeOK, MaxAge, MaxSilence, timeVars, recvVars, setVars
  <2>5. CASE WatchRead
    BY <2>5 DEF WatchRead, TypeOK, Now, recVars, timeVars, recvVars, setVars
  <2>6. CASE WatchMark
    <3>1. Now \in Record /\ Mark \in Record
      BY MarkType DEF TypeOK
    <3>2. Now' \in Record
      BY <2>6, <3>1 DEF WatchMark, Now, Record
    <3>3. age' \in 0..MaxAge
      BY <2>6 DEF WatchMark, TypeOK, MaxAge
    <3>4. wd' = "notify" => wdNote'.message.by \in {"last", "two"}
      BY <2>6, MarkType DEF WatchMark, TypeOK
    <3> QED BY <2>6, <3>1, <3>2, <3>3, <3>4 DEF WatchMark, TypeOK, recvVars, setVars
  <2>7. CASE WatchNotify
    BY <2>7 DEF WatchNotify, TypeOK, Now, recVars, timeVars, recvVars, setVars
  <2>8. ASSUME NEW x \in Setter, SetStatus(x) PROVE TypeOK'
    <3>1. Now' \in Record
      BY <2>8, <2>t DEF SetStatus, Now, Record
    <3>2. crossed' \in BOOLEAN
      BY <2>8 DEF SetStatus, ReadLocked
    <3> QED BY <2>8, <3>1, <3>2 DEF SetStatus, TypeOK, timeVars, wdVars, recvVars
  <2>9. ASSUME NEW x \in Setter, SetMessage(x) PROVE TypeOK'
    <3>1. Text("agent", setting[x]) \in Message
      BY TextType DEF TypeOK
    <3>2. Now' \in Record
      BY <2>9, <2>t, <3>1 DEF SetMessage, Now, Record
    <3> QED BY <2>9, <3>2 DEF SetMessage, TypeOK, timeVars, wdVars, recvVars
  <2>10. CASE UNCHANGED vars
    BY <2>10 DEF vars, recVars, timeVars, wdVars, recvVars, setVars, TypeOK, Now
  <2> QED
    BY <2>1, <2>2, <2>3, <2>4, <2>5, <2>6, <2>7, <2>8, <2>9, <2>10
       DEF Next, Work, Watch
<1> QED BY <1>1, <1>2, PTL DEF Spec

-----------------------------------------------------------------------------
(* Who tears the record.                                                   *)

\* Where no SetStatus crossed another since the record was last written, one
\* at most is under way, and it is the one that wrote the status.
WholeInv ==
  ~crossed => \A x, y \in Setter :
    setter[x] = "status" /\ setter[y] = "status" => x = y /\ setting[x] = status

\* For any number of SetStatus calls, the message of an application is the
\* message of its status, but for a record that two such calls wrote at once;
\* no receiver and no watchdog tears it, and the next of them mends it
\* (server.go 672-684, 708-721, 858-880).
THEOREM WatchRecordWhole == Spec => []Whole
<1>1. Init => WholeInv /\ Whole
  BY DEF Init, WholeInv, Whole, Text
<1>2. TypeOK /\ WholeInv /\ Whole /\ [Next]_vars => WholeInv' /\ Whole'
  <2> SUFFICES ASSUME TypeOK, WholeInv, Whole, [Next]_vars PROVE WholeInv' /\ Whole'
    OBVIOUS
  <2>1. CASE UNCHANGED <<recVars, setVars>>
    BY <2>1 DEF recVars, setVars, WholeInv, Whole, ReadLocked
  <2>2. ASSUME NEW r \in Receiver, Update(r) PROVE WholeInv' /\ Whole'
    <3>1. ~ReadLocked'
      BY <2>2 DEF Update, ReadLocked
    <3>2. message'.of = status'
      BY <2>2 DEF Update, Text
    <3> QED BY <3>1, <3>2 DEF WholeInv, Whole, ReadLocked
  <2>3. CASE WatchMark
    <3>1. ~ReadLocked /\ ~ReadLocked'
      BY <2>3 DEF WatchMark, MayMark, ReadLocked
    <3>2. CASE Told
      <4>1. Mark.message.of = Mark.status
        BY <3>2 DEF Mark, Told, Text
      <4> QED BY <2>3, <3>1, <4>1 DEF WatchMark, WholeInv, Whole, ReadLocked
    <3>3. CASE ~Told
      <4>1. Mark = Now
        BY <3>3 DEF Told
      <4>2. status' = status /\ message' = message /\ crossed' = (crossed /\ TRUE)
        BY <2>3, <3>3, <4>1 DEF WatchMark, Now
      <4> QED BY <3>1, <4>2 DEF WholeInv, Whole, ReadLocked
    <3> QED BY <3>2, <3>3
  <2>4. ASSUME NEW x \in Setter, SetStatus(x) PROVE WholeInv' /\ Whole'
    <3>1. setter'[x] = "status" /\ setting'[x] = status'
      BY <2>4 DEF SetStatus, TypeOK
    <3>2. \A y \in Setter : y # x => setter'[y] = setter[y]
      BY <2>4 DEF SetStatus, TypeOK
    <3>3. crossed' = ReadLocked
      BY <2>4 DEF SetStatus
    <3> QED BY <3>1, <3>2, <3>3 DEF WholeInv, Whole, ReadLocked
  <2>5. ASSUME NEW x \in Setter, SetMessage(x) PROVE WholeInv' /\ Whole'
    <3>1. /\ setter[x] = "status" /\ setter'[x] = "done"
          /\ status' = status /\ crossed' = crossed /\ setting' = setting
          /\ message' = Text("agent", setting[x])
      BY <2>5 DEF SetMessage, TypeOK
    <3>2. \A y \in Setter : setter'[y] = "status" => setter[y] = "status"
      BY <2>5 DEF SetMessage, TypeOK
    <3>3. message'.by = "agent" /\ message'.of = setting[x]
      BY <3>1 DEF Text
    <3>4. ~crossed => setting[x] = status
      BY <3>1 DEF WholeInv
    <3>5. Whole'
      BY <3>1, <3>3, <3>4 DEF Whole
    <3>6. WholeInv'
      BY <3>1, <3>2 DEF WholeInv
    <3> QED BY <3>5, <3>6
  <2>6. CASE Tick \/ WatchBegin \/ WatchRead \/ WatchNotify
    BY <2>1, <2>6 DEF Tick, WatchBegin, WatchRead, WatchNotify
  <2>7. ASSUME NEW r \in Receiver, Notify(r) PROVE WholeInv' /\ Whole'
    BY <2>1, <2>7 DEF Notify
  <2>8. CASE UNCHANGED vars
    BY <2>1, <2>8 DEF vars
  <2> QED
    BY <2>2, <2>3, <2>4, <2>5, <2>6, <2>7, <2>8 DEF Next, Work, Watch
<1> QED BY <1>1, <1>2, WatchTypeCorrect, PTL DEF Spec

-----------------------------------------------------------------------------
(* The watchdog marks on what it read before it took the lock.             *)

OnlyWatch == "degraded" \notin Reported

\* What makes FailedWasSilent inductive: the time of the status runs ahead of
\* the last check-in by no more than a round; where the watchdog is about to
\* lock and finds a degraded status, nobody has checked in since it read, so
\* that what it read is still so.
LateInv ==
  /\ age <= silence + Delay
  /\ Unset /\ wd = "lock" /\ status = "degraded" => Late
  /\ Unset /\ message.by = "two" => silence + Delay > Limit

LEMMA LateInvInit == Init => LateInv
  BY WatchAssumption DEF Init, LateInv, Text

LEMMA LateInvStep ==
  ASSUME OnlyWatch, TypeOK, LateInv, [Next]_vars
  PROVE  LateInv'
<1> USE WatchAssumption
<1>n. /\ age \in Nat /\ silence \in Nat /\ wdAge \in Nat /\ wdAge <= Delay
      /\ age <= MaxAge /\ silence <= MaxSilence
  BY DEF TypeOK, MaxAge, MaxSilence
<1>1. CASE Tick
  <2>1. age' <= silence' + Delay
    BY <1>1, <1>n DEF Tick, Older, LateInv, MaxAge, MaxSilence
  <2>2. Unset' => Unset
    BY <1>1 DEF Tick, Unset, setVars
  <2>3. ASSUME Unset, wd' = "lock", status' = "degraded" PROVE Late'
    <3>1. wd = "lock" /\ wdAge < Delay /\ wdAge' = wdAge + 1 /\ age > Limit + wdAge
      BY <1>1, <1>n, <2>3 DEF Tick, LateInv, Late, recVars
    <3> QED BY <1>1, <1>n, <3>1 DEF Tick, Older, Late, MaxAge
  <2>4. Unset /\ message'.by = "two" => silence' + Delay > Limit
    BY <1>1, <1>n DEF Tick, Older, LateInv, recVars
  <2> QED BY <2>1, <2>2, <2>3, <2>4 DEF LateInv
<1>2. ASSUME NEW r \in Receiver, Update(r) PROVE LateInv'
  <2>1. PICK st \in Reported : status' = st /\ message' = Text("client", st)
    BY <1>2 DEF Update
  <2>2. st # "degraded"
    BY DEF OnlyWatch
  <2>3. age' = 0 /\ silence' = 0
    BY <1>2 DEF Update
  <2> QED BY <2>1, <2>2, <2>3 DEF LateInv, Text
<1>3. CASE WatchRead
  BY <1>3, <1>n DEF WatchRead, LateInv, Late, Unset, recVars, timeVars, setVars
<1>4. CASE WatchMark
  <2>1. age' <= silence' + Delay
    BY <1>4, <1>n DEF WatchMark, LateInv
  <2>2. wd' # "lock" /\ (Unset' => Unset)
    BY <1>4 DEF WatchMark, Unset, setVars
  <2>3. ASSUME Unset, message'.by = "two" PROVE silence' + Delay > Limit
    <3>1. CASE status = "degraded"
      BY <1>4, <1>n, <2>3, <3>1 DEF WatchMark, LateInv, Late
    <3>2. CASE status # "degraded" /\ status # "failed"
      BY <1>4, <2>3, <3>2 DEF WatchMark, Mark, Text
    <3>3. CASE status = "failed"
      BY <1>4, <2>3, <3>3 DEF WatchMark, Mark, Now, LateInv
    <3> QED BY <3>1, <3>2, <3>3
  <2> QED BY <2>1, <2>2, <2>3 DEF LateInv
<1>5. CASE WatchBegin \/ WatchNotify
  BY <1>5 DEF WatchBegin, WatchNotify, LateInv, Unset, recVars, timeVars, setVars
<1>6. ASSUME NEW r \in Receiver, Notify(r) PROVE LateInv'
  BY <1>6 DEF Notify, LateInv, Late, Unset, recVars, timeVars, wdVars, setVars
<1>7. ASSUME NEW x \in Setter, SetStatus(x) \/ SetMessage(x) PROVE LateInv'
  <2>1. ~Unset'
    BY <1>7 DEF SetStatus, SetMessage, Unset, TypeOK
  <2>2. age' <= silence' + Delay
    BY <1>7 DEF SetStatus, SetMessage, LateInv, timeVars
  <2> QED BY <2>1, <2>2 DEF LateInv
<1>8. CASE UNCHANGED vars
  BY <1>8 DEF vars, recVars, timeVars, wdVars, setVars, LateInv, Late, Unset
<1> QED
  BY <1>1, <1>2, <1>3, <1>4, <1>5, <1>6, <1>7, <1>8 DEF Next, Work, Watch

\* Where only the watchdog makes a status degraded, it fails nobody who has
\* checked in within a timeout less a round, though it acts on a time it read
\* before it took the lock (server.go 851-880).
THEOREM WatchFailsTheSilent == Spec => []FailedWasSilent
<1>1. CASE OnlyWatch
  <2>1. TypeOK /\ LateInv /\ [Next]_vars => LateInv'
    BY <1>1, LateInvStep
  <2>2. LateInv => FailedWasSilent
    BY DEF LateInv, FailedWasSilent
  <2> QED BY <2>1, <2>2, LateInvInit, WatchTypeCorrect, PTL DEF Spec
<1>2. CASE ~OnlyWatch
  <2>1. FailedWasSilent
    BY <1>2 DEF OnlyWatch, FailedWasSilent
  <2> QED BY <2>1, PTL
<1> QED BY <1>1, <1>2

-----------------------------------------------------------------------------
(* Silence is noticed in two rounds.                                       *)

TimedNext == (Tick /\ Prompt) \/ Work

\* No receiver has anything left to tell.
Idle == \A r \in Receiver : recv[r] = "idle"

\* The ticks from a timer that fires to the next that starts a round.
Round == IF Delay = 0 THEN 1 ELSE Delay

Least(a, b) == IF a <= b THEN a ELSE b

\* What makes SilentIsFailed inductive: while the status is healthy its time is
\* that of the last check-in, and no round that began in time lets it grow old;
\* while it is degraded, its time is that of the round that made it so, which
\* came no more than a timeout and a round after the last check-in.
SilenceInv ==
  /\ status = "healthy" => age = Least(silence, MaxAge)
  /\ status = "healthy" /\ wd = "wait" => silence <= Limit + Round
  /\ status = "healthy" /\ wd \in {"read", "lock"} => silence <= wdAge + Limit + Round
  /\ status = "degraded" => silence <= age + Limit + Round \/ age = MaxAge
  /\ status # "failed" /\ wd = "wait" /\ ~due => age <= Limit
  /\ wd # "wait" /\ ~due => wdAge = 0
  /\ status # "failed" /\ wd = "notify" => age <= wdAge

LEMMA AgeTypes ==
  ASSUME TypeOK
  PROVE  /\ Limit \in Nat /\ Delay \in Nat /\ Round \in Nat \ {0} /\ Delay <= Round
         /\ Round <= Delay + 1
         /\ age \in Nat /\ age <= MaxAge /\ MaxAge = Limit + 1 + Delay
         /\ silence \in Nat /\ silence <= MaxSilence
         /\ MaxSilence = 2 * (Limit + 1) + Delay + 1
         /\ wdAge \in Nat /\ wdAge <= Delay
  BY WatchAssumption DEF TypeOK, MaxAge, MaxSilence, Round

LEMMA SilenceInvInit == Init => SilenceInv
<1> SUFFICES ASSUME Init PROVE SilenceInv
  OBVIOUS
<1>1. Limit \in Nat /\ Delay \in Nat /\ Round \in Nat
  BY WatchAssumption DEF Round
<1> QED BY <1>1 DEF Init, SilenceInv, Least, MaxAge

\* A tick comes when the watchdog has begun the round it was called for.
LEMMA SilenceInvTick ==
  ASSUME TypeOK, SilenceInv, Tick, Prompt
  PROVE  SilenceInv'
<1>n. /\ Limit \in Nat /\ Delay \in Nat /\ Round \in Nat \ {0} /\ Delay <= Round
      /\ age \in Nat /\ age <= MaxAge /\ MaxAge = Limit + 1 + Delay
      /\ silence \in Nat /\ silence <= MaxSilence
      /\ MaxSilence = 2 * (Limit + 1) + Delay + 1
      /\ wdAge \in Nat /\ wdAge <= Delay
  BY AgeTypes
<1>1. /\ status' = status /\ wd' = wd /\ due'
      /\ wd = "wait" => ~due
      /\ age' = Older(age, MaxAge) /\ silence' = Older(silence, MaxSilence)
      /\ wd = "wait" => wdAge' = wdAge
      /\ wd # "wait" => wdAge < Delay /\ wdAge' = wdAge + 1
  BY DEF Tick, Prompt, recVars
<1>2. age' = Least(age + 1, MaxAge) /\ silence' = Least(silence + 1, MaxSilence)
  BY <1>1, <1>n DEF Older, Least
<1>3. status = "healthy" => age' = Least(silence', MaxAge)
  BY <1>2, <1>n DEF SilenceInv, Least
<1>4. status = "healthy" /\ wd = "wait" => silence' <= Limit + Round
  <2> SUFFICES ASSUME status = "healthy", wd = "wait" PROVE silence' <= Limit + Round
    OBVIOUS
  <2>1. age <= Limit /\ age = Least(silence, MaxAge)
    BY <1>1 DEF SilenceInv
  <2> QED BY <2>1, <1>2, <1>n DEF Least
<1>5. status = "healthy" /\ wd \in {"read", "lock"} => silence' <= wdAge' + Limit + Round
  BY <1>1, <1>2, <1>n DEF SilenceInv, Least
<1>6. status = "degraded" => silence' <= age' + Limit + Round \/ age' = MaxAge
  BY <1>2, <1>n DEF SilenceInv, Least
<1>7. status # "failed" /\ wd = "notify" => age' <= wdAge'
  BY <1>1, <1>2, <1>n DEF SilenceInv, Least
<1> QED BY <1>1, <1>3, <1>4, <1>5, <1>6, <1>7 DEF SilenceInv

LEMMA SilenceInvRound ==
  ASSUME TypeOK, SilenceInv, Watch
  PROVE  SilenceInv'
<1>n. /\ Limit \in Nat /\ Delay \in Nat /\ Round \in Nat \ {0} /\ Delay <= Round
      /\ age \in Nat /\ age <= MaxAge /\ MaxAge = Limit + 1 + Delay
      /\ silence \in Nat
      /\ wdAge \in Nat /\ wdAge <= Delay
  BY AgeTypes
<1>1. CASE WatchBegin
  BY <1>1, <1>n DEF WatchBegin, SilenceInv, recVars, timeVars
<1>2. CASE WatchRead
  <2>1. /\ status' = status /\ age' = age /\ silence' = silence
        /\ due' = due /\ wdAge' = wdAge
        /\ wd = "read" /\ wd' = IF Late THEN "lock" ELSE "wait"
    BY <1>2 DEF WatchRead, recVars, timeVars
  <2>2. CASE Late
    BY <2>1, <2>2 DEF SilenceInv
  <2>3. CASE ~Late
    <3>1. age <= Limit + wdAge
      BY <2>3, <1>n DEF Late
    <3>2. status = "healthy" => silence <= Limit + Round
      BY <3>1, <1>n DEF SilenceInv, Least
    <3>3. ~due => age <= Limit
      BY <2>1, <3>1, <1>n DEF SilenceInv
    <3> QED BY <2>1, <2>3, <3>2, <3>3 DEF SilenceInv
  <2> QED BY <2>2, <2>3
<1>3. CASE WatchMark
  <2>1. /\ wd = "lock" /\ silence' = silence /\ due' = due /\ wdAge' = wdAge
        /\ status' = Mark.status /\ wd' = IF Told THEN "notify" ELSE "wait"
        /\ age' = IF status = "failed" THEN age ELSE wdAge
    BY <1>3 DEF WatchMark
  <2>2. CASE status = "failed"
    <3>1. status' = "failed" /\ wd' = "wait"
      BY <2>1, <2>2 DEF Mark, Told, Now
    <3> QED BY <3>1 DEF SilenceInv
  <2>3. CASE status = "degraded"
    <3>1. status' = "failed"
      BY <2>1, <2>3 DEF Mark
    <3>2. ~due' => wdAge' = 0
      BY <2>1 DEF SilenceInv
    <3> QED BY <3>1, <3>2 DEF SilenceInv
  <2>4. CASE status = "healthy"
    <3>1. status' = "degraded" /\ wd' = "notify"
      BY <2>1, <2>4 DEF Mark, Told, Now
    <3>2. silence' <= age' + Limit + Round
      BY <2>1, <2>4, <1>n DEF SilenceInv
    <3>3. ~due' => wdAge' = 0
      BY <2>1 DEF SilenceInv
    <3>4. age' <= wdAge'
      BY <2>1, <2>4, <1>n
    <3> QED BY <3>1, <3>2, <3>3, <3>4 DEF SilenceInv
  <2>5. status \in {"healthy", "degraded", "failed"}
    BY NowType DEF TypeOK, Status
  <2> QED BY <2>2, <2>3, <2>4, <2>5
<1>4. CASE WatchNotify
  <2>1. /\ status' = status /\ age' = age /\ silence' = silence
        /\ due' = due /\ wdAge' = wdAge /\ wd = "notify" /\ wd' = "wait"
    BY <1>4 DEF WatchNotify, recVars, timeVars
  <2>2. status # "failed" => age <= wdAge
    BY <2>1 DEF SilenceInv
  <2>3. status = "healthy" => silence <= Limit + Round
    BY <2>2, <1>n DEF SilenceInv, Least
  <2>4. status # "failed" /\ ~due => age <= Limit
    BY <2>1, <2>2, <1>n DEF SilenceInv
  <2> QED BY <2>1, <2>3, <2>4 DEF SilenceInv
<1> QED BY <1>1, <1>2, <1>3, <1>4 DEF Watch

LEMMA SetIsSet ==
  ASSUME TypeOK, NEW x \in Setter, SetStatus(x) \/ SetMessage(x)
  PROVE  ~Unset'
  BY DEF SetStatus, SetMessage, Unset, TypeOK

\* Once the agent has set the status, it has.
LEMMA UnsetWas ==
  ASSUME TypeOK, [Next]_vars, Unset'
  PROVE  Unset
<1>1. CASE setter' = setter
  BY <1>1 DEF Unset
<1>2. ASSUME NEW x \in Setter, SetStatus(x) \/ SetMessage(x) PROVE Unset
  BY <1>2, SetIsSet
<1>3. CASE Tick \/ Watch
  BY <1>1, <1>3 DEF Tick, Watch, WatchBegin, WatchRead, WatchMark, WatchNotify, setVars
<1>4. ASSUME NEW r \in Receiver, Update(r) \/ Notify(r) PROVE Unset
  BY <1>1, <1>4 DEF Update, Notify, setVars
<1>5. CASE UNCHANGED vars
  BY <1>1, <1>5 DEF vars, setVars
<1> QED BY <1>2, <1>3, <1>4, <1>5 DEF Next, Work

LEMMA SilenceInvStep ==
  ASSUME TypeOK, Unset => SilenceInv, [TimedNext]_vars
  PROVE  (Unset => SilenceInv)'
<1> SUFFICES ASSUME Unset' PROVE SilenceInv'
  OBVIOUS
<1>1. SilenceInv
  BY UnsetWas DEF TimedNext, Next
<1>2. CASE Tick /\ Prompt
  BY <1>1, <1>2, SilenceInvTick
<1>3. CASE Watch
  BY <1>1, <1>3, SilenceInvRound
<1>4. ASSUME NEW r \in Receiver, Update(r) PROVE SilenceInv'
  <2>1. /\ age' = 0 /\ silence' = 0 /\ wd' = wd /\ due' = due /\ wdAge' = wdAge
    BY <1>4 DEF Update, wdVars
  <2>2. Limit \in Nat /\ Round \in Nat /\ wdAge \in Nat /\ MaxAge \in Nat
    BY AgeTypes
  <2> QED BY <1>1, <2>1, <2>2 DEF SilenceInv, Least
<1>5. ASSUME NEW r \in Receiver, Notify(r) PROVE SilenceInv'
  BY <1>1, <1>5 DEF Notify, SilenceInv, recVars, timeVars, wdVars
<1>6. ASSUME NEW x \in Setter, SetStatus(x) \/ SetMessage(x) PROVE SilenceInv'
  BY <1>6, SetIsSet
<1>7. CASE UNCHANGED vars
  BY <1>1, <1>7 DEF vars, SilenceInv, recVars, timeVars, wdVars
<1> QED BY <1>2, <1>3, <1>4, <1>5, <1>6, <1>7 DEF TimedNext, Work

\* What SilentIsFailed says of the record itself.
SilentStatus ==
  Unset /\ Prompt /\ wd = "wait" /\ silence >= 2 * (Limit + 1) + Delay
    => status = "failed"

LEMMA SilenceShows ==
  ASSUME TypeOK, Unset => SilenceInv
  PROVE  SilentStatus
<1> SUFFICES ASSUME Unset, Prompt, wd = "wait",
                    silence >= 2 * (Limit + 1) + Delay, status # "failed"
             PROVE  FALSE
  BY DEF SilentStatus
<1>1. age <= Limit
  BY DEF SilenceInv, Prompt
<1>2. status \in {"healthy", "degraded"}
  BY NowType DEF TypeOK, Status
<1>3. CASE status = "healthy"
  <2>1. silence <= Limit + Round
    BY <1>3 DEF SilenceInv
  <2> QED BY <2>1, AgeTypes
<1>4. CASE status = "degraded"
  <2>1. silence <= age + Limit + Round \/ age = MaxAge
    BY <1>4 DEF SilenceInv
  <2> QED BY <1>1, <2>1, AgeTypes
<1> QED BY <1>2, <1>3, <1>4

LEMMA TimedIsSpec == Timed => Spec
<1>1. [TimedNext]_vars => [Next]_vars
  BY DEF TimedNext, Next
<1> QED BY <1>1, PTL DEF Timed, Spec, TimedNext

\* However the application reports, two timeouts of silence and the rounds
\* that notice them make its status FAILED (server.go 839-889).
THEOREM WatchFailsSilence == Timed => []SilentStatus
<1>1. Init => (Unset => SilenceInv)
  BY SilenceInvInit
<1>2. TypeOK /\ (Unset => SilenceInv) /\ [TimedNext]_vars => (Unset => SilenceInv)'
  BY SilenceInvStep
<1>3. TypeOK /\ (Unset => SilenceInv) => SilentStatus
  BY SilenceShows
<1> QED BY <1>1, <1>2, <1>3, TimedIsSpec, WatchTypeCorrect, PTL DEF Timed, TimedNext

\* The handler's last word is that of the failed record: no receiver has an
\* older one to tell, for time has passed since they had, and none checked in
\* after the watchdog's mark without undoing it.
HeardInv ==
  /\ silence > 0 => Idle
  /\ status = "failed" =>
       /\ Idle
       /\ IF wd = "notify" THEN wdNote.status = "failed" ELSE heard.status = "failed"

LEMMA HeardInvStep ==
  ASSUME Delay <= Limit, Reported \subseteq {"healthy"},
         TypeOK, LateInv, Unset => HeardInv, [TimedNext]_vars
  PROVE  (Unset => HeardInv)'
<1> SUFFICES ASSUME Unset' PROVE HeardInv'
  OBVIOUS
<1>1. Unset /\ HeardInv
  BY UnsetWas DEF TimedNext, Next
<1>2. CASE Tick /\ Prompt
  BY <1>1, <1>2 DEF Tick, Prompt, HeardInv, Idle, recVars, recvVars
<1>3. CASE WatchBegin \/ WatchRead
  BY <1>1, <1>3 DEF WatchBegin, WatchRead, HeardInv, Idle, recVars, timeVars, recvVars
<1>4. CASE WatchMark
  <2>1. /\ wd = "lock" /\ silence' = silence /\ recv' = recv /\ heard' = heard
        /\ status' = Mark.status /\ wd' = IF Told THEN "notify" ELSE "wait"
        /\ wdNote' = Mark
    BY <1>4 DEF WatchMark, recvVars
  <2>2. silence' > 0 => Idle'
    BY <1>1, <2>1 DEF HeardInv, Idle
  <2>3. CASE status = "failed"
    <3>1. wd' = "wait" /\ heard.status = "failed" /\ Idle'
      BY <1>1, <2>1, <2>3 DEF Mark, Told, Now, HeardInv, Idle
    <3> QED BY <2>1, <2>2, <3>1 DEF HeardInv
  <2>4. CASE status = "degraded"
    <3>1. silence > 0
      BY <1>1, <2>1, <2>4, AgeTypes DEF LateInv, Late
    <3>2. wd' = "notify" /\ wdNote'.status = "failed"
      BY <2>1, <2>4 DEF Mark, Told, Now
    <3> QED BY <2>1, <2>2, <3>1, <3>2 DEF HeardInv
  <2>5. CASE status # "degraded" /\ status # "failed"
    <3>1. status' # "failed"
      BY <2>1, <2>5 DEF Mark
    <3> QED BY <2>2, <3>1 DEF HeardInv
  <2> QED BY <2>3, <2>4, <2>5
<1>5. CASE WatchNotify
  BY <1>1, <1>5 DEF WatchNotify, HeardInv, Idle, recVars, timeVars, recvVars
<1>6. ASSUME NEW r \in Receiver, Update(r) PROVE HeardInv'
  BY <1>6 DEF Update, HeardInv
<1>7. ASSUME NEW r \in Receiver, Notify(r) PROVE HeardInv'
  BY <1>1, <1>7 DEF Notify, HeardInv, Idle, recVars, timeVars
<1>8. ASSUME NEW x \in Setter, SetStatus(x) \/ SetMessage(x) PROVE HeardInv'
  BY <1>8, SetIsSet
<1>9. CASE UNCHANGED vars
  BY <1>1, <1>9 DEF vars, recVars, timeVars, wdVars, recvVars, HeardInv, Idle
<1> QED
  BY <1>2, <1>3, <1>4, <1>5, <1>6, <1>7, <1>8, <1>9 DEF TimedNext, Work, Watch

\* Of an application that only ever reports that it is well, the handler hears
\* that it is FAILED, where a round takes no more than a timeout: a longer one,
\* or a report that is not healthy, and a notification can arrive behind the
\* watchdog's (server.go 726-737, 851-884).
THEOREM WatchSilentIsFailed ==
  ASSUME Delay <= Limit, Reported \subseteq {"healthy"}
  PROVE  Timed => []SilentIsFailed
<1> DEFINE Heard == Unset => HeardInv
<1>1. Init => Heard
  BY DEF Init, HeardInv, Idle
<1>2. TypeOK /\ LateInv /\ Heard /\ [TimedNext]_vars => Heard'
  BY HeardInvStep
<1>3. TypeOK /\ LateInv /\ [Next]_vars => LateInv'
  BY LateInvStep DEF OnlyWatch
<1>4. SilentStatus /\ Heard => SilentIsFailed
  BY DEF SilentStatus, HeardInv, SilentIsFailed
<1>5. Timed => []TypeOK
  BY TimedIsSpec, WatchTypeCorrect, PTL
<1>6. Timed => []LateInv
  <2> HIDE DEF Heard
  <2> QED BY <1>3, <1>5, LateInvInit, TimedIsSpec, PTL DEF Spec
<1>7. Timed => []Heard
  <2> HIDE DEF Heard
  <2> QED BY <1>1, <1>2, <1>5, <1>6, PTL DEF Timed, TimedNext
<1> QED BY <1>4, <1>7, WatchFailsSilence, PTL
=============================================================================
