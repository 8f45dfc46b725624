------------------------------ MODULE Delivery ------------------------------
(***************************************************************************)
(* The pipeline the agent runs (elastic-agent/agent/manager.go): events    *)
(* from the fake input through the host processor into the spooler, and    *)
(* from there to elasticsearch.                                            *)
(***************************************************************************)
EXTENDS FakeInput, Spooler

vars == <<hopVars, inputVars, spoolerVars, outputVars>>

Init == HopInit /\ InputInit /\ SpoolerInit /\ OutputInit

InputStep(A)   == A /\ UNCHANGED <<spoolerVars, outputVars>>
SpoolerStep(A) == A /\ UNCHANGED inputVars
HopStep(A)     == A /\ UNCHANGED <<inputVars, spoolerVars, outputVars>>

Next ==
  \/ InputStep(InputWork \/ InputStop)
  \/ HopStep(\E c \in Call : ProcessNext(c) \/ Cut(c))
  \/ SpoolerStep(SpoolerWork \/ Close \/ Restart)

Spec == Init /\ [][Next]_vars

\* The input's goroutines and the spooler's consumer run, calls end, and so do
\* requests to Elasticsearch.  Nothing is said of handlers, connections,
\* restarts and stops.
Running ==
  /\ WF_vars(InputStep(SeeCancelled \/ HandOver \/ SendReturns \/ PusherEnds))
  /\ WF_vars(SpoolerStep(Get \/ Offer))

\* The input is stopped, or the spooler: two halves of what may happen.
OneStops == ~cancelled \/ (running /\ restarts = 0)

OneStopped == Init /\ [][Next /\ OneStops']_vars /\ Running

TypeOK == HopTypeOK /\ InputTypeOK /\ SpoolerTypeOK /\ OutputTypeOK

-----------------------------------------------------------------------------
(* Safety.                                                                 *)

Created == {e \in Event : created[e] > 0}

\* What a Send reports as sent, the queue has taken, though the queue may be
\* closed between two events of a batch; only what had not been flushed when
\* the spooler's process ended is lost.  (spooler.go 75-95, receive.go 131-163)
ReportedIsSpooled ==
  \A c \in Call : Succeeded(c) => spooled[c] \subseteq ToSet(log) \cup lost

\* No event is spooled twice, whatever was cut and restarted: who gets an
\* error does not send again.  (input.go 113-119, spooler.go 76-92)
SpooledOnce == \A i, j \in DOMAIN log : log[i] = log[j] => i = j

\* Events are spooled in the order the input made them, and only those of a
\* call that was cut come late: the handler of such a call may still wait in
\* Publish when the next batch is handled.  (spooler.go 77-92)
InOrder ==
  \A i, j \in DOMAIN log :
    i < j /\ log[i] > log[j] => \E c \in gone : log[j] \in ToSet(cargo[c])

\* Nothing is freed that the output has not answered for, in whichever order
\* batches fail and succeed and although the spooler restarts: an event that
\* left the spooler is in Elasticsearch or was reported unsent.
\* (spooler.go 132-144, output.go 148-158)
FreedIsAnswered == \A i \in 1..freed : log[i] \in Created \cup refused

\* A batch that is sent again after a restart is not indexed twice.
\* (docs.go 56-64)
CreatedOnce == \A e \in Event : created[e] <= 1

\* The pipeline keeps custody of its events, whatever is cut, refused, closed
\* or restarted: it takes each once and offers it only while it holds it, none
\* gets two documents, and none leaves but answered for or lost.
\* (input.go 113-119, spooler.go 76-92 and 132-144, docs.go 56-64)
Held     == {log[i] : i \in (freed + 1)..Len(log)}
Reported == UNION {spooled[c] : c \in {d \in Call : Succeeded(d)}}

Keeps == INSTANCE Custody
           WITH Events <- Event, made <- 1..made, taken <- ToSet(log) \cup lost,
                held <- Held, documents <- created, reported <- Reported

KeepsCustody == Keeps!Spec

-----------------------------------------------------------------------------
(* Progress.                                                               *)

\* A stopped input ends: neither of its goroutines is left at the channel,
\* although the calls of the last batches fail.  (input.go 70-77, 101-119)
InputEnds == cancelled ~> producer = "done" /\ pusher = "done"

\* Publish does not wait for ever: the queue that is full gets space, as long
\* as the output has sent something of every batch.  (spooler.go 89, 140-144)
Waiting == running /\ ~Space /\ \E c \in Call : at[c] = "publish"

SpaceIsMade == Waiting ~> ~Waiting \/ failed

-----------------------------------------------------------------------------
(* What comments say.                                                      *)

\* "The sender should verify that if events are marked unsent that they try
\* to send them again." (event.proto:48-49): the spooler does not give up
\* what was marked unsent.
UnsentIsKept == \A i \in 1..freed : log[i] \in Created

\* "error is logged, but not returned (previous component needs to resend)"
\* (output.go:104): what was read and not ACKed is read again.
Unacked == consumer = "get" /\ \E i \in 1..read : i \notin acked

SentAgain == Unacked ~> ~Unacked

\* "always sends a batch even on context cancelled" (input.go:101): when the
\* input has ended, what it made last was sent.
LastBatchSent ==
  pusher = "done" /\ cargo[call] # <<>> => Succeeded(call)
=============================================================================
