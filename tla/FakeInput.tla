----------------------------- MODULE FakeInput ------------------------------
(***************************************************************************)
(* The fake input (elastic-agent-input-fake/input/input.go): a goroutine   *)
(* makes events and collects them in batches, another sends the batches.   *)
(* They meet at an unbuffered channel.  A definition whose name starts     *)
(* with Bad is what a later one would be with a plausible fault in it.     *)
(***************************************************************************)
EXTENDS Hop

CONSTANT BatchSize

ASSUME InputAssumption == BatchSize \in Nat \ {0}

VARIABLES
  made,         \* events made
  batch,
  producer,     \* "loop", "push" (at send <- batch), "last" (the same, when
                \* stopped), "done" (the channel is closed)
  pusher,       \* "recv", "call", "done"
  call,         \* the last call made
  cancelled     \* the input's context is done

inputVars == <<made, batch, producer, pusher, call, cancelled>>

InputTypeOK ==
  /\ made \in 0..MaxEvents /\ batch \in Seq(Event)
  /\ Len(batch) <= BatchSize
  /\ producer \in {"loop", "push", "last", "done"}
  /\ pusher \in {"recv", "call", "done"}
  /\ call \in {0} \cup Call /\ cancelled \in BOOLEAN
  /\ pusher = "call" => call > 0

InputInit ==
  /\ made = 0 /\ batch = <<>> /\ producer = "loop" /\ pusher = "recv"
  /\ call = 0 /\ cancelled = FALSE

Full(b) == Len(b) >= BatchSize

\* The context is looked at first, and nobody sees what is made after that
\* until the batch is sent: when it is full or BatchTime has passed.
MakeEvent ==
  /\ producer = "loop" /\ ~cancelled /\ made < MaxEvents
  /\ made' = made + 1
  /\ batch' = Append(batch, made + 1)
  /\ producer' \in IF Full(batch') THEN {"push"} ELSE {"loop", "push"}
  /\ UNCHANGED <<hopVars, pusher, call, cancelled>>

\* Stopped: what there is of a batch is sent too, were it nothing.
SeeCancelled ==
  /\ producer = "loop" /\ cancelled
  /\ producer' = "last"
  /\ UNCHANGED <<hopVars, made, batch, pusher, call, cancelled>>

BadFree == pusher # "done"

Free == pusher = "recv"

\* The sending goroutine takes the batch and calls Send with the context it
\* was started with.
HandOver ==
  /\ producer \in {"push", "last"} /\ Free
  /\ producer' = IF producer = "push" THEN "loop" ELSE "done"
  /\ batch' = <<>>
  /\ pusher' = "call" /\ call' = call + 1
  /\ Send(call + 1, batch, cancelled)
  /\ UNCHANGED <<made, cancelled>>

BadSendReturns ==
  /\ pusher = "call" /\ (call \in gone \/ at[call] = "over")
  /\ pusher' = IF call \in gone THEN "done" ELSE "recv"
  /\ UNCHANGED <<hopVars, made, batch, producer, call, cancelled>>

BadSendRetries ==
  /\ pusher = "call" /\ (call \in gone \/ at[call] = "over")
  /\ IF call \in gone /\ ~cancelled
       THEN /\ at' = [at EXCEPT ![call] = "processor"]
            /\ handled' = [handled EXCEPT ![call] = 0]
            /\ gone' = gone \ {call}
            /\ UNCHANGED <<cargo, spooled, pusher>>
       ELSE pusher' = "recv" /\ UNCHANGED hopVars
  /\ UNCHANGED <<made, batch, producer, call, cancelled>>

\* Send returns: an error is logged, and the ids that were sent are ignored.
SendReturns ==
  /\ pusher = "call" /\ (call \in gone \/ at[call] = "over")
  /\ pusher' = "recv"
  /\ UNCHANGED <<hopVars, made, batch, producer, call, cancelled>>

PusherEnds ==
  /\ pusher = "recv" /\ producer = "done"
  /\ pusher' = "done"
  /\ UNCHANGED <<hopVars, made, batch, producer, call, cancelled>>

\* OnStop cancels the context, and with it the call under way.
InputStop ==
  /\ ~cancelled
  /\ cancelled' = TRUE
  /\ gone' = IF pusher = "call" /\ at[call] # "over" THEN gone \cup {call} ELSE gone
  /\ UNCHANGED <<at, cargo, handled, spooled, made, batch, producer, pusher, call>>

InputWork == MakeEvent \/ SeeCancelled \/ HandOver \/ SendReturns \/ PusherEnds
=============================================================================
