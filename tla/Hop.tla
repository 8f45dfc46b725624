-------------------------------- MODULE Hop ---------------------------------
(***************************************************************************)
(* A call of Events.Send from the input through a processor                *)
(* (elastic-agent-sdk/pkg/component/processor.go) to the node behind it,   *)
(* with the senders and receivers of the SDK (pkg/events/send.go and       *)
(* receive.go) on both hops.  The processor sends on what it could process *)
(* within the call it answers, so one context covers both hops: when it is *)
(* done, by cancellation or by a broken connection, the caller has its     *)
(* error, and a handler that is still at it goes on until it looks.        *)
(***************************************************************************)
EXTENDS Naturals, Sequences, SequencesExt

CONSTANTS
  MaxEvents,    \* bound on the events the input makes, which are numbered
  Rejected      \* the events the processor fails to process

ASSUME HopAssumption == MaxEvents \in Nat /\ Rejected \subseteq 1..MaxEvents

Event == 1..MaxEvents
\* The input makes a call per batch and one when it is stopped.
Call  == 1..(MaxEvents + 1)

VARIABLES
  at,       \* "none", "processor", "spool" (its handler runs), "publish" (it
            \* is in Publish), "over"
  cargo,    \* the batch, without what the processor dropped
  handled,  \* the events of it that the handler under way has been through
  gone,     \* the calls whose context is done: their caller gets an error
  spooled   \* the events of the batch that Publish took

hopVars == <<at, cargo, handled, gone, spooled>>

HopTypeOK ==
  /\ at \in [Call -> {"none", "processor", "spool", "publish", "over"}]
  /\ cargo \in [Call -> Seq(Event)]
  /\ handled \in [Call -> Nat]
  /\ \A c \in Call : /\ handled[c] <= Len(cargo[c])
                     /\ at[c] = "publish" => handled[c] < Len(cargo[c])
                     /\ at[c] = "none" => handled[c] = 0
  /\ gone \subseteq {c \in Call : at[c] # "none"}
  /\ spooled \in [Call -> SUBSET Event]

HopInit ==
  /\ at = [c \in Call |-> "none"] /\ cargo = [c \in Call |-> <<>>]
  /\ handled = [c \in Call |-> 0] /\ gone = {} /\ spooled = [c \in Call |-> {}]

\* Send: the request is on its way, or the context was done before.
Send(c, batch, cancelled) ==
  /\ at' = [at EXCEPT ![c] = "processor"]
  /\ cargo' = [cargo EXCEPT ![c] = batch]
  /\ gone' = IF cancelled THEN gone \cup {c} ELSE gone
  /\ UNCHANGED <<handled, spooled>>

Unhandled(c) == handled[c] < Len(cargo[c])

\* The processor's handler looks at its context before every event, drops the
\* event that it cannot process, and sends what is left with that context.
ProcessNext(c) ==
  /\ at[c] = "processor"
  /\ IF c \in gone
       THEN at' = [at EXCEPT ![c] = "over"] /\ UNCHANGED <<cargo, handled>>
       ELSE IF ~Unhandled(c)
       THEN at' = [at EXCEPT ![c] = "spool"] /\ handled' = [handled EXCEPT ![c] = 0]
            /\ UNCHANGED cargo
       ELSE IF cargo[c][handled[c] + 1] \in Rejected
       THEN cargo' = [cargo EXCEPT ![c] = RemoveAt(@, handled[c] + 1)]
            /\ UNCHANGED <<at, handled>>
       ELSE handled' = [handled EXCEPT ![c] = @ + 1] /\ UNCHANGED <<at, cargo>>
  /\ UNCHANGED <<gone, spooled>>

\* The call ends with an answer, which says what was spooled.
Succeeded(c) == at[c] = "over" /\ c \notin gone

\* A connection breaks, or the processor's process ends.
Cut(c) ==
  /\ at[c] \notin {"none", "over"}
  /\ gone' = gone \cup {c}
  /\ UNCHANGED <<at, cargo, handled, spooled>>
=============================================================================
