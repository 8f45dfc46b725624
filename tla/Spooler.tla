------------------------------ MODULE Spooler -------------------------------
(***************************************************************************)
(* The spooler (elastic-agent-processor-spooler/spooler/spooler.go): its   *)
(* handlers publish events to a queue on disk, and a goroutine takes them  *)
(* from it in batches and sends them to the output.                        *)
(*                                                                         *)
(* The queue is libbeat's and not under src/.  It is a log of which        *)
(*   - Publish appends, and waits while SpoolCap events are not freed;     *)
(*   - Get reads on; ACK of a batch marks it, and what is marked from the  *)
(*     front is freed;                                                     *)
(*   - a restart reads what is not freed once more, and loses what had not *)
(*     been flushed.                                                       *)
(* Bad names a variant with a fault, as in FakeInput.                      *)
(***************************************************************************)
EXTENDS BulkOutput

CONSTANTS
  SpoolCap,     \* events the file holds
  GetMax,       \* a batch holds so many: 100
  MaxRestarts   \* bound on the restarts of the spooler's process

ASSUME SpoolAssumption ==
  SpoolCap \in Nat \ {0} /\ GetMax \in Nat \ {0} /\ MaxRestarts \in Nat

VARIABLES
  log,          \* every event that was published and not lost
  freed, read,  \* positions in log: freed, read by the consumer
  acked,        \* the positions whose batch was ACKed
  lost,         \* events lost in a restart
  running,      \* FALSE from when the queue is closed until the process restarts
  consumer,     \* "get", or "send" of log[from..read]
  from,         \* 0 unless consumer is "send"
  failed,        \* this process got no id back of some batch
  restarts

queueVars   == <<log, freed, read, acked, lost>>
spoolerVars == <<queueVars, running, consumer, from, failed, restarts>>

SpoolerTypeOK ==
  /\ log \in Seq(Event) /\ lost \subseteq Event
  /\ read \in 0..Len(log) /\ freed \in 0..read /\ acked \subseteq 1..read
  /\ running \in BOOLEAN /\ consumer \in {"get", "send"}
  /\ consumer = "send" => from \in (freed + 1)..read
  /\ failed \in BOOLEAN /\ restarts \in 0..MaxRestarts

SpoolerInit ==
  /\ log = <<>> /\ freed = 0 /\ read = 0 /\ acked = {} /\ lost = {}
  /\ running = TRUE /\ consumer = "get" /\ from = 0 /\ failed = FALSE /\ restarts = 0

-----------------------------------------------------------------------------
(* Receive: the context is looked at before every event.  An answer that is *)
(* lost on its way back is a call cut before its handler returns.           *)

ReceiveNext(c) ==
  /\ at[c] = "spool"
  /\ at' = [at EXCEPT ![c] = IF Unhandled(c) /\ c \notin gone THEN "publish" ELSE "over"]
  /\ UNCHANGED <<cargo, handled, gone, spooled, spoolerVars, outputVars>>

Space == Len(log) - freed < SpoolCap

BadTaken == TRUE

\* Publish returns false once the queue is closed.
Taken == running

Publish(c) ==
  /\ at[c] = "publish" /\ (Space \/ ~running)
  /\ LET e == cargo[c][handled[c] + 1]
     IN  /\ log' = IF running THEN Append(log, e) ELSE log
         /\ spooled' = IF Taken THEN [spooled EXCEPT ![c] = @ \cup {e}] ELSE spooled
  /\ handled' = [handled EXCEPT ![c] = @ + 1]
  /\ at' = [at EXCEPT ![c] = "spool"]
  /\ UNCHANGED <<cargo, gone, freed, read, acked, lost, running, consumer, from,
                 failed, restarts, outputVars>>

-----------------------------------------------------------------------------
(* The consumer.                                                           *)

Get ==
  /\ consumer = "get" /\ running /\ read < Len(log)
  /\ \E n \in (read + 1)..Len(log) : n <= read + GetMax /\ read' = n
  /\ from' = read + 1
  /\ consumer' = "send"
  /\ UNCHANGED <<hopVars, log, freed, acked, lost, running, failed,
                 restarts, outputVars>>

Taking == {log[i] : i \in from..read}

\* What is marked from the front up to the first that is not.
Frees(n, marks) == 1..n \subseteq marks /\ n + 1 \notin marks

Ack ==
  /\ acked' = acked \cup (from..read)
  /\ \E n \in 0..read : Frees(n, acked') /\ freed' = n
  /\ UNCHANGED failed

NoAck == failed' = TRUE /\ UNCHANGED <<acked, freed>>

BadUnanswered == Ack

\* The call fails, or its answer is lost: on with the next batch.
Unanswered == NoAck

BadSettled(evts, new) ==
  IF new = {} THEN NoAck ELSE UNCHANGED <<acked, freed, failed>>

\* One id that was sent is enough.
Settled(evts, new) == IF new = {} THEN NoAck ELSE Ack

Offer ==
  /\ consumer = "send"
  /\ \/ Fails(Taking) /\ Unanswered /\ UNCHANGED outputVars
     \/ /\ ~Fails(Taking)
        /\ \E new \in SUBSET Taking :
             /\ Bulk(Taking, new)
             /\ \/ Unanswered /\ UNCHANGED refused
                \/ Settled(Taking, new) /\ Left(Taking, new)
  /\ consumer' = "get" /\ from' = 0
  /\ UNCHANGED <<hopVars, log, read, lost, running, restarts>>

-----------------------------------------------------------------------------
(* The process.                                                            *)

InSpooler(c) == at[c] \in {"spool", "publish"}

\* OnStop or the end of the agent: the queue is closed at once; the calls
\* are cancelled later by the receiver (Cut), or by the end of the process.
Close ==
  /\ running /\ running' = FALSE
  /\ UNCHANGED <<hopVars, queueVars, consumer, from, failed, restarts, outputVars>>

\* The process ends, and the agent starts another one.
Restart ==
  /\ restarts < MaxRestarts /\ restarts' = restarts + 1
  /\ at' = [c \in Call |-> IF InSpooler(c) THEN "over" ELSE at[c]]
  /\ gone' = gone \cup {c \in Call : InSpooler(c)}
  /\ \E n \in read..Len(log) : /\ log' = SubSeq(log, 1, n)
                               /\ lost' = lost \cup {log[i] : i \in (n + 1)..Len(log)}
  /\ read' = freed /\ acked' = 1..freed
  /\ running' = TRUE /\ consumer' = "get" /\ from' = 0 /\ failed' = FALSE
  /\ UNCHANGED <<cargo, spooled, handled, freed, outputVars>>

Intake      == \E c \in Call : ReceiveNext(c) \/ Publish(c)
SpoolerWork == Intake \/ Get \/ Offer
=============================================================================
