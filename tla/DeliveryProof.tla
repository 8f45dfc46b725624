--------------------------- MODULE DeliveryProof ----------------------------
(***************************************************************************)
(* What leaves the spooler has been answered for, no document is created   *)
(* twice, no event enters the queue twice, the queue is in the order of    *)
(* the input but for calls that were cut, and the pipeline implements      *)
(* Custody, for any number of events, any sizes, restarts and failures.    *)
(***************************************************************************)
EXTENDS Delivery, SequenceTheorems, TLAPS

USE HopAssumption, InputAssumption, SpoolAssumption DEF HopAssumption, InputAssumption, SpoolAssumption

LEMMA SeqFacts ==
  ASSUME NEW S, NEW q \in Seq(S)
  PROVE  /\ Len(q) \in Nat
         /\ \A i \in 1..Len(q) : q[i] \in S
         /\ \A e \in S : /\ Append(q, e) \in Seq(S)
                         /\ Len(Append(q, e)) = Len(q) + 1
                         /\ \A i \in 1..Len(q) : Append(q, e)[i] = q[i]
         /\ \A n \in 0..Len(q) : /\ SubSeq(q, 1, n) \in Seq(S)
                                 /\ Len(SubSeq(q, 1, n)) = n
                                 /\ \A i \in 1..n : SubSeq(q, 1, n)[i] = q[i]
<1>1. Len(q) \in Nat /\ \A i \in 1..Len(q) : q[i] \in S
  BY ElementOfSeq, LenProperties
<1>2. \A e \in S : /\ Append(q, e) \in Seq(S)
                   /\ Len(Append(q, e)) = Len(q) + 1
                   /\ \A i \in 1..Len(q) : Append(q, e)[i] = q[i]
  BY AppendProperties
<1>3. \A n \in 0..Len(q) : /\ SubSeq(q, 1, n) \in Seq(S)
                           /\ Len(SubSeq(q, 1, n)) = n
                           /\ \A i \in 1..n : SubSeq(q, 1, n)[i] = q[i]
  BY <1>1, SubSeqProperties
<1>4. QED  BY <1>1, <1>2, <1>3

LEMMA Removed ==
  ASSUME NEW S, NEW q \in Seq(S), NEW n \in 1..Len(q)
  PROVE  RemoveAt(q, n) \in Seq(S) /\ Len(RemoveAt(q, n)) = Len(q) - 1
<1>1. Len(q) \in Nat /\ \A i \in 1..Len(q) : q[i] \in S
  BY SeqFacts
<1>2. SubSeq(q, 1, n - 1) \in Seq(S) /\ Len(SubSeq(q, 1, n - 1)) = n - 1
  BY <1>1, SeqFacts
<1>3. SubSeq(q, n + 1, Len(q)) \in Seq(S)
  BY <1>1, SubSeqProperties
<1>4. Len(SubSeq(q, n + 1, Len(q))) = Len(q) - n
  BY <1>1, SubSeqProperties
<1>5. ASSUME NEW a \in Seq(S), NEW b \in Seq(S)
      PROVE  a \o b \in Seq(S) /\ Len(a \o b) = Len(a) + Len(b)
  BY ConcatProperties
<1>6. RemoveAt(q, n) = SubSeq(q, 1, n - 1) \o SubSeq(q, n + 1, Len(q))
  BY Zenon DEF RemoveAt
<1>7. /\ RemoveAt(q, n) \in Seq(S)
      /\ Len(RemoveAt(q, n)) = Len(SubSeq(q, 1, n - 1)) + Len(SubSeq(q, n + 1, Len(q)))
  BY <1>2, <1>3, <1>5, <1>6, Zenon
<1>8. Len(RemoveAt(q, n)) = (n - 1) + (Len(q) - n)
  BY <1>2, <1>4, <1>7, Zenon
<1>9. Len(q) \in Nat /\ n \in Int
  BY <1>1
<1>10. (n - 1) + (Len(q) - n) = Len(q) - 1
  BY <1>9
<1>. QED  BY <1>7, <1>8, <1>10, Zenon

-----------------------------------------------------------------------------
(* Types.  The input makes no more calls than Call has: but for the last,  *)
(* a call carries an event at least.                                       *)

InputInv ==
  /\ producer # "done" => call + Len(batch) <= made
  /\ producer = "loop" => Len(batch) < BatchSize
  /\ producer = "push" => Len(batch) > 0
  /\ call <= made + 1
  /\ \A c \in Call : at[c] = "none" <=> c > call

Types == TypeOK /\ InputInv

LEMMA InitTypes == Init => Types
<1> SUFFICES ASSUME Init PROVE Types  OBVIOUS
<1>0. <<>> \in Seq(Event) /\ Len(<<>>) = 0
  BY EmptySeq
<1>1. HopTypeOK
  BY <1>0 DEF Init, HopInit, HopTypeOK
<1>a. /\ batch \in Seq(Event) /\ Len(batch) = 0
      /\ made = 0 /\ producer = "loop" /\ pusher = "recv" /\ call = 0
      /\ cancelled = FALSE
  BY <1>0 DEF Init, InputInit
<1>b. /\ log \in Seq(Event) /\ Len(log) = 0
      /\ freed = 0 /\ read = 0 /\ acked = {} /\ lost = {} /\ running = TRUE
      /\ consumer = "get" /\ failed = FALSE /\ restarts = 0
  BY <1>0 DEF Init, SpoolerInit
<1>2. InputTypeOK
  <2>1. cancelled \in BOOLEAN
    BY <1>a
  <2>2. made \in 0..MaxEvents /\ call \in {0} \cup Call /\ Len(batch) <= BatchSize
    BY <1>a
  <2>3. producer \in {"loop", "push", "last", "done"} /\ pusher = "recv"
    BY <1>a
  <2>. QED  BY <1>a, <2>1, <2>2, <2>3 DEF InputTypeOK
<1>3. InputInv
  <2>1. \A c \in Call : c > 0 /\ at[c] = "none"
    BY DEF Init, HopInit, Call
  <2>2. Len(batch) = 0 /\ made = 0 /\ producer = "loop" /\ call = 0
    BY <1>a
  <2>3. \A c \in Call : at[c] = "none" <=> c > call
    BY <2>1, <2>2
  <2>4. call + Len(batch) <= made /\ call <= made + 1 /\ Len(batch) < BatchSize
    BY <2>2
  <2>. QED  BY <2>2, <2>3, <2>4 DEF InputInv
<1>4. SpoolerTypeOK
  <2>1. lost \subseteq Event /\ acked \subseteq 1..read
    BY <1>b
  <2>2. read \in 0..Len(log) /\ freed \in 0..read
    BY <1>b
  <2>3. running \in BOOLEAN /\ failed \in BOOLEAN
    BY <1>b
  <2>4. restarts \in 0..MaxRestarts
    BY <1>b
  <2>5. consumer \in {"get", "send"} /\ consumer # "send"
    BY <1>b
  <2>. QED  BY <1>b, <2>1, <2>2, <2>3, <2>4, <2>5 DEF SpoolerTypeOK
<1>5. OutputTypeOK
  BY DEF Init, OutputInit, OutputTypeOK
<1>6. QED  BY <1>1, <1>2, <1>3, <1>4, <1>5 DEF Types, TypeOK

-----------------------------------------------------------------------------
(* The input.                                                              *)

LEMMA InputTypes ==
  ASSUME HopTypeOK, InputTypeOK, InputInv, InputWork \/ InputStop
  PROVE  HopTypeOK' /\ InputTypeOK' /\ InputInv'
<1>0. Len(batch) \in Nat
  BY SeqFacts DEF InputTypeOK
<1>1. CASE MakeEvent
  <2>1. made + 1 \in Event /\ made' = made + 1 /\ producer = "loop"
    BY <1>1 DEF MakeEvent, Event, InputTypeOK
  <2>2. batch' \in Seq(Event) /\ Len(batch') = Len(batch) + 1
    BY <1>1, <2>1, SeqFacts DEF MakeEvent, InputTypeOK
  <2>3. UNCHANGED <<at, cargo, handled, gone, spooled>>
        /\ UNCHANGED <<pusher, call, cancelled>>
    BY <1>1 DEF MakeEvent, hopVars
  <2>4. /\ producer' \in {"loop", "push"}
        /\ producer' = "loop" => Len(batch') < BatchSize
    BY <1>1, <1>0, <2>2 DEF MakeEvent, Full
  <2>5. Len(batch) < BatchSize /\ call + Len(batch) <= made /\ call <= made + 1
    BY <2>1 DEF InputInv
  <2>6. InputTypeOK'
    BY <1>0, <2>1, <2>2, <2>3, <2>4, <2>5 DEF InputTypeOK, Event
  <2>7. InputInv'
    <3>1. call \in Nat /\ made \in Nat
      BY DEF InputTypeOK, Call
    <3>2. call' + Len(batch') <= made' /\ call' <= made' + 1 /\ Len(batch') > 0
      BY <1>0, <2>1, <2>2, <2>3, <2>5, <3>1
    <3>. QED  BY <2>3, <2>4, <3>2 DEF InputInv
  <2>8. HopTypeOK'
    BY <2>3 DEF HopTypeOK
  <2>. QED  BY <2>6, <2>7, <2>8
<1>2. CASE HandOver
  <2>1. /\ producer \in {"push", "last"} /\ pusher = "recv"
        /\ producer' = IF producer = "push" THEN "loop" ELSE "done"
        /\ batch' = <<>> /\ pusher' = "call" /\ call' = call + 1
        /\ UNCHANGED <<made, cancelled>>
    BY <1>2 DEF HandOver, Free
  <2>2. call \in Nat /\ made \in 0..MaxEvents
    BY DEF InputTypeOK, Call
  <2>3. call + Len(batch) <= made /\ (producer = "push" => Len(batch) > 0)
    BY <2>1 DEF InputInv
  <2>4. call + 1 \in Call
    BY <1>0, <2>2, <2>3 DEF Call
  <2>5. batch' \in Seq(Event) /\ Len(batch') = 0
    BY <2>1, EmptySeq
  <2>6. /\ at' = [at EXCEPT ![call + 1] = "processor"]
        /\ cargo' = [cargo EXCEPT ![call + 1] = batch]
        /\ gone' \subseteq gone \cup {call + 1}
        /\ UNCHANGED <<handled, spooled>>
    BY <1>2 DEF HandOver, Send
  <2>7. HopTypeOK'
    <3>1. at[call + 1] = "none" /\ handled[call + 1] = 0
      BY <2>2, <2>4 DEF InputInv, HopTypeOK
    <3>2. /\ at' \in [Call -> {"none", "processor", "spool", "publish", "over"}]
          /\ cargo' \in [Call -> Seq(Event)]
      BY <2>4, <2>6 DEF HopTypeOK, InputTypeOK
    <3>3. \A c \in Call : /\ handled'[c] <= Len(cargo'[c])
                          /\ at'[c] = "publish" => handled'[c] < Len(cargo'[c])
                          /\ at'[c] = "none" => handled'[c] = 0
      BY <1>0, <2>4, <2>6, <3>1 DEF HopTypeOK
    <3>4. gone' \subseteq {c \in Call : at'[c] # "none"}
      BY <2>4, <2>6 DEF HopTypeOK
    <3>. QED  BY <2>6, <3>2, <3>3, <3>4 DEF HopTypeOK
  <2>8. InputTypeOK'
    <3>1. cancelled' \in BOOLEAN
      BY <2>1 DEF InputTypeOK
    <3>2. made' \in 0..MaxEvents /\ call' \in {0} \cup Call /\ call' > 0
      BY <2>1, <2>2, <2>4
    <3>3. Len(batch') <= BatchSize
      BY <2>5
    <3>4. producer' \in {"loop", "push", "last", "done"} /\ pusher' = "call"
      BY <2>1
    <3>. QED  BY <2>5, <3>1, <3>2, <3>3, <3>4 DEF InputTypeOK
  <2>9. InputInv'
    <3>1. \A c \in Call : at'[c] = "none" <=> c > call'
      <4> SUFFICES ASSUME NEW c \in Call PROVE at'[c] = "none" <=> c > call'
        OBVIOUS
      <4>1. c \in Nat /\ (at[c] = "none" <=> c > call)
        BY DEF InputInv, Call
      <4>2. at'[c] = IF c = call + 1 THEN "processor" ELSE at[c]
        BY <2>4, <2>6 DEF HopTypeOK
      <4>. QED  BY <2>1, <2>2, <4>1, <4>2
    <3>2. producer' # "done" => producer = "push"
      BY <2>1
    <3>3. producer' \in {"loop", "done"}
      BY <2>1
    <3>4. producer' # "done" => call' + Len(batch') <= made'
      BY <1>0, <2>1, <2>2, <2>3, <2>5, <3>2
    <3>5. call' <= made' + 1 /\ Len(batch') < BatchSize
      BY <1>0, <2>1, <2>2, <2>3, <2>5
    <3>. QED  BY <3>1, <3>3, <3>4, <3>5 DEF InputInv
  <2>. QED  BY <2>7, <2>8, <2>9
<1>3. CASE SeeCancelled \/ SendReturns \/ PusherEnds
  <2>1. UNCHANGED <<at, cargo, handled, gone, spooled>>
        /\ UNCHANGED <<made, batch, call, cancelled>>
    BY <1>3 DEF SeeCancelled, SendReturns, PusherEnds, hopVars
  <2>2. /\ producer' = producer \/ (producer = "loop" /\ producer' = "last")
        /\ pusher' = pusher \/ pusher' = "recv" \/ pusher' = "done"
    <3>1. CASE SeeCancelled
      BY <3>1 DEF SeeCancelled
    <3>2. CASE SendReturns
      BY <3>2 DEF SendReturns
    <3>3. CASE PusherEnds
      BY <3>3 DEF PusherEnds
    <3>. QED  BY <1>3, <3>1, <3>2, <3>3
  <2>3. InputTypeOK' /\ InputInv'
    BY <2>1, <2>2 DEF InputTypeOK, InputInv
  <2>4. HopTypeOK'
    BY <2>1 DEF HopTypeOK
  <2>. QED  BY <2>3, <2>4
<1>4. CASE InputStop
  <2>1. UNCHANGED <<at, cargo, handled, spooled, made, batch, producer, pusher, call>>
        /\ cancelled' = TRUE
    BY <1>4 DEF InputStop
  <2>2. gone' \subseteq gone \cup {call} /\ (gone' # gone => pusher = "call")
    BY <1>4 DEF InputStop
  <2>3. gone' \subseteq {c \in Call : at'[c] # "none"}
    <3>1. CASE pusher = "call"
      <4>1. call \in Call /\ call \in Nat
        BY <3>1 DEF InputTypeOK, Call
      <4>2. at[call] # "none"
        BY <4>1 DEF InputInv
      <4>. QED  BY <2>1, <2>2, <4>1, <4>2 DEF HopTypeOK
    <3>2. CASE pusher # "call"
      BY <2>1, <2>2, <3>2 DEF HopTypeOK
    <3>. QED  BY <3>1, <3>2
  <2>4. HopTypeOK'
    BY <2>1, <2>3 DEF HopTypeOK
  <2>5. cancelled' \in BOOLEAN
    BY <2>1
  <2>6. InputTypeOK' /\ InputInv'
    BY <2>1, <2>5 DEF InputTypeOK, InputInv
  <2>. QED  BY <2>4, <2>6
<1>. QED  BY <1>1, <1>2, <1>3, <1>4 DEF InputWork
-----------------------------------------------------------------------------
(* The hops.                                                               *)

\* No call begins or is forgotten but at the input.
Placed == \A d \in Call : at'[d] = "none" <=> at[d] = "none"

LEMMA HopMoves ==
  ASSUME HopTypeOK, NEW c \in Call, NEW p \in {"spool", "publish", "over"},
         NEW n \in Nat, NEW q \in Seq(Event),
         at[c] # "none", n <= Len(q), p = "publish" => n < Len(q),
         at' = [at EXCEPT ![c] = p], handled' = [handled EXCEPT ![c] = n],
         cargo' = [cargo EXCEPT ![c] = q], gone' = gone,
         spooled' \in [Call -> SUBSET Event]
  PROVE  HopTypeOK' /\ Placed
<1>1. /\ at' \in [Call -> {"none", "processor", "spool", "publish", "over"}]
      /\ cargo' \in [Call -> Seq(Event)] /\ handled' \in [Call -> Nat]
  BY DEF HopTypeOK
<1>2. \A d \in Call : /\ handled'[d] <= Len(cargo'[d])
                      /\ at'[d] = "publish" => handled'[d] < Len(cargo'[d])
                      /\ at'[d] = "none" => handled'[d] = 0
  BY DEF HopTypeOK
<1>3. Placed
  BY DEF HopTypeOK, Placed
<1>4. gone' \subseteq {d \in Call : at'[d] # "none"}
  BY <1>3 DEF HopTypeOK, Placed
<1>. QED  BY <1>1, <1>2, <1>3, <1>4 DEF HopTypeOK

LEMMA ProcessTypes ==
  ASSUME HopTypeOK, NEW c \in Call, ProcessNext(c) \/ Cut(c)
  PROVE  HopTypeOK' /\ Placed
<1>0. /\ handled[c] \in Nat /\ cargo[c] \in Seq(Event) /\ Len(cargo[c]) \in Nat
      /\ handled[c] <= Len(cargo[c])
  BY SeqFacts DEF HopTypeOK
<1>1. CASE Cut(c)
  BY <1>1 DEF Cut, HopTypeOK, Placed
<1>2. CASE at[c] = "processor" /\ c \in gone /\ ProcessNext(c)
  <2>1. /\ at' = [at EXCEPT ![c] = "over"]
        /\ UNCHANGED <<cargo, handled, gone, spooled>>
    BY <1>2 DEF ProcessNext
  <2>2. /\ cargo' = [cargo EXCEPT ![c] = cargo[c]]
        /\ handled' = [handled EXCEPT ![c] = handled[c]]
    BY <2>1 DEF HopTypeOK
  <2>3. gone' = gone /\ spooled' \in [Call -> SUBSET Event]
    BY <2>1 DEF HopTypeOK
  <2>. QED  BY <1>0, <1>2, <2>1, <2>2, <2>3, HopMoves
<1>3. CASE at[c] = "processor" /\ c \notin gone /\ ~Unhandled(c) /\ ProcessNext(c)
  <2>1. /\ at' = [at EXCEPT ![c] = "spool"] /\ handled' = [handled EXCEPT ![c] = 0]
        /\ UNCHANGED <<cargo, gone, spooled>>
    BY <1>3 DEF ProcessNext
  <2>2. cargo' = [cargo EXCEPT ![c] = cargo[c]]
    BY <2>1 DEF HopTypeOK
  <2>3. gone' = gone /\ spooled' \in [Call -> SUBSET Event]
    BY <2>1 DEF HopTypeOK
  <2>4. at[c] # "none" /\ 0 \in Nat /\ 0 <= Len(cargo[c])
    BY <1>0, <1>3
  <2>. QED  BY <1>0, <2>1, <2>2, <2>3, <2>4, HopMoves
<1>4. CASE at[c] = "processor" /\ c \notin gone /\ Unhandled(c) /\ ProcessNext(c)
  <2>1. handled[c] + 1 \in 1..Len(cargo[c])
    BY <1>0, <1>4 DEF Unhandled
  <2>2. at' = at /\ gone' = gone /\ spooled' = spooled
    BY <1>4 DEF ProcessNext
  <2>3. \E q \in Seq(Event), n \in Nat :
          /\ cargo' = [cargo EXCEPT ![c] = q] /\ handled' = [handled EXCEPT ![c] = n]
          /\ n <= Len(q)
    <3>1. CASE cargo[c][handled[c] + 1] \in Rejected
      <4>1. RemoveAt(cargo[c], handled[c] + 1) \in Seq(Event)
            /\ Len(RemoveAt(cargo[c], handled[c] + 1)) = Len(cargo[c]) - 1
        BY <1>0, <2>1, Removed
      <4>2. cargo' = [cargo EXCEPT ![c] = RemoveAt(cargo[c], handled[c] + 1)]
            /\ handled' = handled
        BY <1>4, <3>1 DEF ProcessNext
      <4>3. handled' = [handled EXCEPT ![c] = handled[c]]
        BY <4>2 DEF HopTypeOK
      <4>4. handled[c] <= Len(cargo[c]) - 1
        BY <1>0, <2>1
      <4>. QED  BY <1>0, <4>1, <4>2, <4>3, <4>4
    <3>2. CASE cargo[c][handled[c] + 1] \notin Rejected
      <4>1. handled' = [handled EXCEPT ![c] = handled[c] + 1] /\ cargo' = cargo
        BY <1>4, <3>2 DEF ProcessNext
      <4>2. cargo' = [cargo EXCEPT ![c] = cargo[c]]
        BY <4>1 DEF HopTypeOK
      <4>3. handled[c] + 1 \in Nat /\ handled[c] + 1 <= Len(cargo[c])
        BY <1>0, <2>1
      <4>. QED  BY <1>0, <4>1, <4>2, <4>3
    <3>. QED  BY <3>1, <3>2
  <2>. QED  BY <1>4, <2>2, <2>3 DEF HopTypeOK, Placed
<1>. QED  BY <1>1, <1>2, <1>3, <1>4 DEF ProcessNext

LEMMA IntakeTypes ==
  ASSUME HopTypeOK, NEW c \in Call, ReceiveNext(c) \/ Publish(c)
  PROVE  /\ HopTypeOK' /\ Placed
         /\ at[c] = "publish" => cargo[c][handled[c] + 1] \in Event
<1>0. /\ handled[c] \in Nat /\ cargo[c] \in Seq(Event) /\ Len(cargo[c]) \in Nat
      /\ handled[c] <= Len(cargo[c])
  BY SeqFacts DEF HopTypeOK
<1>1. cargo' = [cargo EXCEPT ![c] = cargo[c]] /\ gone' = gone
  BY DEF HopTypeOK, ReceiveNext, Publish
<1>2. at[c] = "publish" =>
        handled[c] + 1 \in 1..Len(cargo[c]) /\ cargo[c][handled[c] + 1] \in Event
  <2> SUFFICES ASSUME at[c] = "publish"
               PROVE  handled[c] + 1 \in 1..Len(cargo[c])
                      /\ cargo[c][handled[c] + 1] \in Event
    OBVIOUS
  <2>1. handled[c] + 1 \in 1..Len(cargo[c])
    BY <1>0 DEF HopTypeOK
  <2>. QED  BY <1>0, <2>1, SeqFacts
<1>3. CASE ReceiveNext(c)
  <2>1. PICK p \in {"publish", "over"} : /\ at' = [at EXCEPT ![c] = p]
                                         /\ p = "publish" => Unhandled(c)
    BY <1>3 DEF ReceiveNext
  <2>2. handled' = [handled EXCEPT ![c] = handled[c]] /\ at[c] = "spool"
    BY <1>3 DEF ReceiveNext, HopTypeOK
  <2>3. spooled' \in [Call -> SUBSET Event]
    BY <1>3 DEF ReceiveNext, HopTypeOK
  <2>4. p = "publish" => handled[c] < Len(cargo[c])
    BY <2>1 DEF Unhandled
  <2>5. HopTypeOK' /\ Placed
    BY <1>0, <1>1, <2>1, <2>2, <2>3, <2>4, HopMoves
  <2>. QED  BY <1>2, <2>5
<1>4. CASE Publish(c)
  <2>1. /\ at' = [at EXCEPT ![c] = "spool"] /\ at[c] = "publish"
        /\ handled' = [handled EXCEPT ![c] = handled[c] + 1]
    BY <1>4 DEF Publish
  <2>2. spooled' \in [Call -> SUBSET Event]
    BY <1>2, <1>4, <2>1 DEF Publish, HopTypeOK
  <2>3. handled[c] + 1 \in Nat /\ handled[c] + 1 <= Len(cargo[c])
    BY <1>0, <1>2, <2>1
  <2>4. HopTypeOK' /\ Placed
    BY <1>0, <1>1, <2>1, <2>2, <2>3, HopMoves
  <2>. QED  BY <1>2, <2>4
<1>. QED  BY <1>3, <1>4
-----------------------------------------------------------------------------
(* The spooler.  Marks are only on what the output has answered for, and   *)
(* only what is marked is freed.                                           *)

AckInv ==
  /\ 1..freed \subseteq acked
  /\ \A i \in acked : log[i] \in Created \cup refused

SpoolTypeOK == SpoolerTypeOK /\ OutputTypeOK

\* A log that grows at its end, or loses of what was not read.
LEMMA LogChanges ==
  ASSUME SpoolTypeOK, AckInv, log' \in Seq(Event), lost' \subseteq Event,
         Len(log') >= read, \A i \in 1..read : log'[i] = log[i],
         read' = read, freed' = freed, acked' = acked,
         running' \in BOOLEAN, consumer' = consumer, from' = from,
         failed' \in BOOLEAN, restarts' \in 0..MaxRestarts,
         UNCHANGED outputVars
  PROVE  SpoolTypeOK' /\ AckInv'
<1>1. /\ read \in Nat /\ freed \in 0..read /\ acked \subseteq 1..read
      /\ Len(log') \in Nat
  BY SeqFacts DEF SpoolTypeOK, SpoolerTypeOK
<1>2. SpoolerTypeOK'
  BY <1>1 DEF SpoolTypeOK, SpoolerTypeOK
<1>3. OutputTypeOK' /\ Created' = Created /\ refused' = refused
  BY DEF SpoolTypeOK, OutputTypeOK, outputVars, Created
<1>4. AckInv'
  BY <1>1, <1>3 DEF AckInv
<1>. QED  BY <1>2, <1>3, <1>4 DEF SpoolTypeOK

LEMMA IntakeKeeps ==
  ASSUME HopTypeOK, SpoolTypeOK, AckInv, NEW c \in Call,
         ReceiveNext(c) \/ Publish(c)
  PROVE  SpoolTypeOK' /\ AckInv'
<1>0. /\ log \in Seq(Event) /\ Len(log) \in Nat /\ read \in 0..Len(log)
      /\ lost \subseteq Event /\ failed \in BOOLEAN /\ running \in BOOLEAN
      /\ restarts \in 0..MaxRestarts
  BY SeqFacts DEF SpoolTypeOK, SpoolerTypeOK
<1>1. CASE ReceiveNext(c)
  <2>1. UNCHANGED <<log, lost, read, freed, acked, running, consumer, from>>
        /\ UNCHANGED <<failed, restarts, outputVars>>
    BY <1>1 DEF ReceiveNext, spoolerVars, queueVars
  <2>. QED  BY <1>0, <2>1, LogChanges
<1>2. CASE Publish(c)
  <2>1. cargo[c][handled[c] + 1] \in Event
    BY <1>2, IntakeTypes DEF Publish
  <2>2. /\ log' = log \/ log' = Append(log, cargo[c][handled[c] + 1])
        /\ UNCHANGED <<lost, read, freed, acked, running, consumer, from>>
        /\ UNCHANGED <<failed, restarts, outputVars>>
    BY <1>2 DEF Publish
  <2>3. /\ log' \in Seq(Event) /\ Len(log') >= read
        /\ \A i \in 1..read : log'[i] = log[i]
    <3>1. CASE log' = log
      BY <1>0, <3>1
    <3>2. CASE log' = Append(log, cargo[c][handled[c] + 1])
      BY <1>0, <2>1, <3>2, SeqFacts
    <3>. QED  BY <2>2, <3>1, <3>2
  <2>. QED  BY <1>0, <2>2, <2>3, LogChanges
<1>. QED  BY <1>1, <1>2

LEMMA CloseKeeps ==
  ASSUME SpoolTypeOK, AckInv, Close
  PROVE  SpoolTypeOK' /\ AckInv'
<1>0. /\ log \in Seq(Event) /\ Len(log) \in Nat /\ read \in 0..Len(log)
      /\ lost \subseteq Event /\ failed \in BOOLEAN /\ restarts \in 0..MaxRestarts
  BY SeqFacts DEF SpoolTypeOK, SpoolerTypeOK
<1>1. /\ UNCHANGED <<log, lost, read, freed, acked, consumer, from>>
      /\ UNCHANGED <<failed, restarts, outputVars>>
  BY DEF Close, queueVars
<1>2. running' \in BOOLEAN
  BY DEF Close
<1>. QED  BY <1>0, <1>1, <1>2, LogChanges

LEMMA GetKeeps ==
  ASSUME SpoolTypeOK, AckInv, Get
  PROVE  SpoolTypeOK' /\ AckInv'
<1>0. /\ Len(log) \in Nat /\ read \in 0..Len(log) /\ freed \in 0..read
      /\ acked \subseteq 1..read
  BY SeqFacts DEF SpoolTypeOK, SpoolerTypeOK
<1>1. PICK n \in (read + 1)..Len(log) : read' = n
  BY DEF Get
<1>2. /\ UNCHANGED <<log, lost, freed, acked, running, failed, restarts>>
      /\ UNCHANGED <<created, refused>>
      /\ from' = read + 1 /\ consumer' = "send"
  BY DEF Get, outputVars
<1>3. /\ read' \in 0..Len(log') /\ freed' \in 0..read' /\ acked' \subseteq 1..read'
      /\ from' \in (freed' + 1)..read'
  BY <1>0, <1>1, <1>2
<1>4. SpoolerTypeOK'
  BY <1>2, <1>3 DEF SpoolTypeOK, SpoolerTypeOK
<1>5. OutputTypeOK' /\ AckInv'
  BY <1>2 DEF SpoolTypeOK, OutputTypeOK, AckInv, Created
<1>. QED  BY <1>4, <1>5 DEF SpoolTypeOK

LEMMA RestartKeeps ==
  ASSUME HopTypeOK, SpoolTypeOK, AckInv, Restart
  PROVE  HopTypeOK' /\ Placed /\ SpoolTypeOK' /\ AckInv'
<1>0. /\ log \in Seq(Event) /\ Len(log) \in Nat /\ read \in 0..Len(log)
      /\ freed \in 0..read /\ lost \subseteq Event /\ restarts \in 0..MaxRestarts
      /\ \A i \in 1..Len(log) : log[i] \in Event
  BY SeqFacts DEF SpoolTypeOK, SpoolerTypeOK
<1>1. HopTypeOK' /\ Placed
  BY DEF Restart, InSpooler, HopTypeOK, Placed
<1>2. PICK n \in read..Len(log) : /\ log' = SubSeq(log, 1, n)
                                  /\ lost' = lost \cup {log[i] : i \in (n + 1)..Len(log)}
  BY DEF Restart
<1>3. /\ log' \in Seq(Event) /\ Len(log') = n
      /\ \A i \in 1..n : log'[i] = log[i]
  BY <1>0, <1>2, SeqFacts
<1>4. lost' \subseteq Event
  BY <1>0, <1>2
<1>5. /\ read' = freed /\ freed' = freed /\ acked' = 1..freed /\ consumer' = "get"
      /\ restarts < MaxRestarts /\ restarts' = restarts + 1
      /\ UNCHANGED <<created, refused>>
  BY DEF Restart, outputVars
<1>6. running' \in BOOLEAN /\ failed' \in BOOLEAN
  BY DEF Restart
<1>7. read' \in 0..Len(log') /\ freed' \in 0..read' /\ acked' \subseteq 1..read'
  BY <1>0, <1>3, <1>5
<1>8. restarts' \in 0..MaxRestarts
  BY <1>0, <1>5
<1>9. SpoolerTypeOK'
  BY <1>3, <1>4, <1>5, <1>6, <1>7, <1>8 DEF SpoolerTypeOK
<1>10. OutputTypeOK' /\ Created' = Created
  BY <1>5 DEF SpoolTypeOK, OutputTypeOK, Created
<1>11. AckInv'
  BY <1>0, <1>3, <1>5, <1>10 DEF AckInv
<1>. QED  BY <1>1, <1>9, <1>10, <1>11 DEF SpoolTypeOK
-----------------------------------------------------------------------------
(* An offer to the output.                                                 *)

\* What Bulk creates was not there, and what it leaves is in no way undone.
LEMMA BulkCreates ==
  ASSUME OutputTypeOK, NEW evts \in SUBSET Event, NEW new \in SUBSET evts,
         Bulk(evts, new)
  PROVE  /\ created' \in [Event -> Nat]
         /\ Created' = Created \cup new
         /\ CreatedOnce => CreatedOnce'
<1>1. created' = [e \in Event |-> IF e \in new THEN created[e] + 1 ELSE created[e]]
  BY DEF Bulk
<1>2. \A e \in Event : created[e] \in Nat
  BY DEF OutputTypeOK
<1>3. \A e \in new : created[e] = 0
  BY DEF Bulk, Creatable
<1>4. \A e \in Event : created'[e] = IF e \in new THEN 1 ELSE created[e]
  BY <1>1, <1>3
<1>5. created' \in [Event -> Nat]
  BY <1>1, <1>2
<1>6. Created' = Created \cup new
  BY <1>2, <1>4 DEF Created
<1>7. CreatedOnce => CreatedOnce'
  BY <1>4 DEF CreatedOnce
<1>. QED  BY <1>5, <1>6, <1>7

\* The marks that a batch may add.
LEMMA OfferMarks ==
  ASSUME SpoolTypeOK, AckInv, OutputTypeOK', consumer = "send",
         Created \cup refused \subseteq Created' \cup refused',
         \/ NoAck
         \/ Ack /\ Taking \subseteq Created' \cup refused',
         log' = log, read' = read, lost' = lost, running' = running,
         restarts' = restarts, consumer' = "get"
  PROVE  SpoolTypeOK' /\ AckInv'
<1>0. /\ log \in Seq(Event) /\ Len(log) \in Nat /\ read \in 0..Len(log)
      /\ freed \in 0..read /\ acked \subseteq 1..read
      /\ from \in (freed + 1)..read
  BY SeqFacts DEF SpoolTypeOK, SpoolerTypeOK
<1>1. /\ freed' \in 0..read /\ acked' \subseteq 1..read
      /\ 1..freed' \subseteq acked'
      /\ \A i \in acked' : log[i] \in Created' \cup refused'
  <2>1. CASE NoAck
    BY <1>0, <2>1 DEF NoAck, AckInv
  <2>2. CASE Ack /\ Taking \subseteq Created' \cup refused'
    <3>1. acked' = acked \cup (from..read)
      BY <2>2 DEF Ack
    <3>2. PICK n \in 0..read : 1..n \subseteq acked' /\ freed' = n
      BY <2>2 DEF Ack, Frees
    <3>3. \A i \in from..read : log[i] \in Created' \cup refused'
      BY <2>2 DEF Taking
    <3>4. \A i \in acked' : log[i] \in Created' \cup refused'
      BY <3>1, <3>3 DEF AckInv
    <3>. QED  BY <1>0, <3>1, <3>2, <3>4
  <2>. QED  BY <2>1, <2>2
<1>2. failed' \in BOOLEAN
  BY DEF NoAck, Ack, SpoolTypeOK, SpoolerTypeOK
<1>3. SpoolerTypeOK'
  BY <1>0, <1>1, <1>2 DEF SpoolTypeOK, SpoolerTypeOK
<1>4. AckInv'
  BY <1>1 DEF AckInv
<1>. QED  BY <1>3, <1>4 DEF SpoolTypeOK

LEMMA OfferKeeps ==
  ASSUME SpoolTypeOK, AckInv, Offer
  PROVE  SpoolTypeOK' /\ AckInv' /\ (CreatedOnce => CreatedOnce')
<1>0. Taking \in SUBSET Event
  <2>1. /\ log \in Seq(Event) /\ Len(log) \in Nat /\ read \in 0..Len(log)
        /\ freed \in 0..read /\ from \in (freed + 1)..read
        /\ \A i \in 1..Len(log) : log[i] \in Event
    BY SeqFacts DEF Offer, SpoolTypeOK, SpoolerTypeOK
  <2>. QED  BY <2>1 DEF Taking
<1>1. /\ consumer = "send" /\ consumer' = "get"
      /\ log' = log /\ read' = read /\ lost' = lost /\ running' = running
      /\ restarts' = restarts
  BY DEF Offer
<1>2. CASE Unanswered /\ UNCHANGED outputVars
  <2>1. OutputTypeOK' /\ Created' = Created /\ refused' = refused
    BY <1>2 DEF outputVars, SpoolTypeOK, OutputTypeOK, Created
  <2>2. CreatedOnce => CreatedOnce'
    BY <1>2 DEF outputVars, CreatedOnce
  <2>. QED  BY <1>1, <1>2, <2>1, <2>2, OfferMarks DEF Unanswered
<1>3. ASSUME NEW new \in SUBSET Taking, Bulk(Taking, new),
             \/ Unanswered /\ UNCHANGED refused
             \/ Settled(Taking, new) /\ Left(Taking, new)
      PROVE  SpoolTypeOK' /\ AckInv' /\ (CreatedOnce => CreatedOnce')
  <2>1. /\ created' \in [Event -> Nat]
        /\ Created' = Created \cup new
        /\ CreatedOnce => CreatedOnce'
    BY <1>0, <1>3, BulkCreates DEF SpoolTypeOK
  <2>2. refused \subseteq refused' /\ refused' \subseteq Event
    BY <1>0, <1>3 DEF Left, SpoolTypeOK, OutputTypeOK
  <2>3. \/ NoAck
        \/ Ack /\ Taking \subseteq Created' \cup refused'
    <3>1. CASE Unanswered /\ UNCHANGED refused
      BY <3>1 DEF Unanswered
    <3>2. CASE Settled(Taking, new) /\ Left(Taking, new)
      BY <2>1, <3>2 DEF Settled, Left
    <3>. QED  BY <1>3, <3>1, <3>2
  <2>4. OutputTypeOK'
    BY <2>1, <2>2 DEF OutputTypeOK
  <2>. QED  BY <1>1, <2>1, <2>2, <2>3, <2>4, OfferMarks
<1>. QED  BY <1>2, <1>3 DEF Offer

-----------------------------------------------------------------------------
(* What Publish took is in the log, or was lost in a restart.              *)

Kept == \A c \in Call : spooled[c] \subseteq ToSet(log) \cup lost

LEMMA PublishKeeps ==
  ASSUME HopTypeOK, SpoolTypeOK, Kept, NEW c \in Call, Publish(c)
  PROVE  Kept'
<1> DEFINE e == cargo[c][handled[c] + 1]
<1>0. log \in Seq(Event) /\ e \in Event
  BY IntakeTypes DEF Publish, SpoolTypeOK, SpoolerTypeOK
<1>1. CASE running
  <2>1. /\ log' = Append(log, e) /\ lost' = lost
        /\ spooled' = [spooled EXCEPT ![c] = @ \cup {e}]
    BY <1>1 DEF Publish, Taken
  <2>2. ToSet(log') = ToSet(log) \cup {e}
    <3>1. /\ Len(log) \in Nat /\ Len(log') = Len(log) + 1
          /\ log'[Len(log) + 1] = e /\ \A i \in 1..Len(log) : log'[i] = log[i]
          /\ DOMAIN log = 1..Len(log) /\ DOMAIN log' = 1..Len(log')
      BY <1>0, <2>1, AppendProperties, LenProperties
    <3>2. \A i \in 1..Len(log') : i \in 1..Len(log) \/ i = Len(log) + 1
      BY <3>1
    <3>3. 1..Len(log) \subseteq 1..Len(log') /\ Len(log) + 1 \in 1..Len(log')
      BY <3>1
    <3>. QED  BY <3>1, <3>2, <3>3 DEF ToSet
  <2>. QED  BY <2>1, <2>2 DEF Kept, HopTypeOK
<1>2. CASE ~running
  BY <1>2 DEF Publish, Taken, Kept
<1>. QED  BY <1>1, <1>2

LEMMA RestartLoses ==
  ASSUME SpoolTypeOK, Kept, Restart
  PROVE  Kept'
<1>0. log \in Seq(Event) /\ Len(log) \in Nat /\ read \in 0..Len(log)
      /\ DOMAIN log = 1..Len(log)
  BY LenProperties, SeqFacts DEF SpoolTypeOK, SpoolerTypeOK
<1>1. PICK n \in read..Len(log) : /\ log' = SubSeq(log, 1, n)
                                  /\ lost' = lost \cup {log[i] : i \in (n + 1)..Len(log)}
  BY DEF Restart
<1>2. /\ log' \in Seq(Event) /\ Len(log') = n
      /\ \A i \in 1..n : log'[i] = log[i]
  BY <1>0, <1>1, SeqFacts
<1>3. DOMAIN log' = 1..n
  BY <1>2, LenProperties
<1>4. \A i \in 1..Len(log) : i \in 1..n \/ i \in (n + 1)..Len(log)
  BY <1>0
<1>5. ToSet(log) \subseteq ToSet(log') \cup lost'
  BY <1>0, <1>1, <1>2, <1>3, <1>4 DEF ToSet
<1>6. spooled' = spooled /\ lost \subseteq lost'
  BY <1>1 DEF Restart
<1>. QED  BY <1>5, <1>6 DEF Kept
-----------------------------------------------------------------------------
(* No event is spooled twice: it is in one batch, at one place, and who    *)
(* handles the batch has been through it once.                             *)

Places == {"none", "processor", "spool", "publish", "over"}

Once(q) == \A i, j \in DOMAIN q : q[i] = q[j] => i = j

Rising(q) == \A i, j \in DOMAIN q : i < j => q[i] < q[j]

DistinctInv ==
  /\ Once(batch) /\ ToSet(batch) \subseteq 1..made
  /\ \A c \in Call : /\ Once(cargo[c]) /\ ToSet(cargo[c]) \subseteq 1..made
                     /\ ToSet(cargo[c]) \cap ToSet(batch) = {}
  /\ \A c, d \in Call : c # d => ToSet(cargo[c]) \cap ToSet(cargo[d]) = {}

HandledInv ==
  /\ \A c \in Call : /\ spooled[c] \subseteq {cargo[c][k] : k \in 1..handled[c]}
                     /\ at[c] \in {"none", "processor"} => spooled[c] = {}
  /\ \A e \in ToSet(log) : \E c \in Call : e \in spooled[c]
  /\ Once(log)

LEMMA OnceAppend ==
  ASSUME NEW S, NEW q \in Seq(S), NEW e \in S
  PROVE  /\ ToSet(Append(q, e)) = ToSet(q) \cup {e}
         /\ Once(q) /\ e \notin ToSet(q) => Once(Append(q, e))
<1> DEFINE p == Append(q, e)
<1>1. /\ Len(q) \in Nat /\ DOMAIN q = 1..Len(q) /\ DOMAIN p = 1..(Len(q) + 1)
      /\ p[Len(q) + 1] = e /\ \A i \in 1..Len(q) : p[i] = q[i]
  BY AppendProperties, LenProperties
<1> HIDE DEF p
<1>2. \A i \in DOMAIN p : i \in DOMAIN q \/ i = Len(q) + 1
  BY <1>1
<1>3. DOMAIN q \subseteq DOMAIN p /\ Len(q) + 1 \in DOMAIN p
  BY <1>1
<1>4. \A i \in DOMAIN q : p[i] = q[i]
  BY <1>1
<1>5. ToSet(p) = ToSet(q) \cup {e}
  BY <1>1, <1>2, <1>3, <1>4 DEF ToSet
<1>6. ASSUME Once(q), e \notin ToSet(q)  PROVE Once(p)
  BY <1>1, <1>2, <1>4, <1>6 DEF Once, ToSet
<1>. QED  BY <1>5, <1>6 DEF p

\* What is left has moved up by one, and nothing else.
LEMMA RemoveShifts ==
  ASSUME NEW S, NEW q \in Seq(S), NEW n \in 1..Len(q)
  PROVE  \A i \in DOMAIN RemoveAt(q, n) :
           /\ i \in Nat /\ (IF i < n THEN i ELSE i + 1) \in DOMAIN q
           /\ RemoveAt(q, n)[i] = q[IF i < n THEN i ELSE i + 1]
<1> DEFINE a == SubSeq(q, 1, n - 1)
           b == SubSeq(q, n + 1, Len(q))
           r == RemoveAt(q, n)
<1>1. /\ Len(q) \in Nat /\ DOMAIN q = 1..Len(q) /\ \A i \in 1..Len(q) : q[i] \in S
      /\ n \in Nat /\ n >= 1 /\ n <= Len(q)
  BY ElementOfSeq, LenProperties
<1>2. /\ a \in Seq(S) /\ Len(a) = n - 1
      /\ \A i \in 1..(n - 1) : a[i] = q[i]
  BY <1>1, SubSeqProperties, SMTT(40)
<1>3. /\ b \in Seq(S) /\ Len(b) = Len(q) - n
      /\ \A i \in 1..(Len(q) - n) : b[i] = q[n + i]
  <2>1. n + 1 \in Int /\ Len(q) \in Int /\ \A i \in (n + 1)..Len(q) : q[i] \in S
    BY <1>1
  <2>2. ASSUME NEW m \in Int, NEW k \in Int, \A i \in m..k : q[i] \in S
        PROVE  /\ SubSeq(q, m, k) \in Seq(S)
               /\ m <= k => Len(SubSeq(q, m, k)) = k - m + 1
               /\ ~(m <= k) => Len(SubSeq(q, m, k)) = 0
               /\ \A i \in 1..(k - m + 1) : SubSeq(q, m, k)[i] = q[m + i - 1]
    BY <2>2, SubSeqProperties
  <2>6. /\ b \in Seq(S)
        /\ n + 1 <= Len(q) => Len(b) = Len(q) - (n + 1) + 1
        /\ ~(n + 1 <= Len(q)) => Len(b) = 0
        /\ \A i \in 1..(Len(q) - (n + 1) + 1) : b[i] = q[n + 1 + i - 1]
    BY <2>1, <2>2
  <2> HIDE DEF b
  <2>3. \A i \in 1..(Len(q) - n) : i \in Int /\ n + 1 + i - 1 = n + i
    BY <1>1
  <2>4. Len(q) - (n + 1) + 1 = Len(q) - n
    BY <1>1
  <2>5. Len(b) = Len(q) - n
    <3>1. \A m, k, l \in Nat : /\ m <= k
                               /\ m + 1 <= k => l = k - (m + 1) + 1
                               /\ ~(m + 1 <= k) => l = 0
                               => l = k - m
      OBVIOUS
    <3>2. Len(b) \in Nat /\ Len(q) \in Nat /\ n \in Nat /\ n <= Len(q)
      BY <1>1, <2>6, LenProperties
    <3>. QED  BY <2>6, <3>1, <3>2, Zenon
  <2>. QED  BY <2>3, <2>4, <2>5, <2>6
<1>4. r \in Seq(S) /\ Len(r) = Len(q) - 1
  BY Removed
<1>5. r = a \o b
  BY Zenon DEF RemoveAt
<1> HIDE DEF a, b, r
<1>6. \A i \in 1..(Len(a) + Len(b)) : r[i] = IF i <= Len(a) THEN a[i] ELSE b[i - Len(a)]
  BY <1>2, <1>3, <1>5, ConcatProperties
<1>7. DOMAIN r = 1..(Len(q) - 1)
  BY <1>4, LenProperties
<1>8. \A i \in DOMAIN r : r[i] = q[IF i < n THEN i ELSE i + 1]
  <2> SUFFICES ASSUME NEW i \in 1..(Len(q) - 1)
               PROVE  r[i] = q[IF i < n THEN i ELSE i + 1]
    BY <1>7
  <2>1. CASE i < n
    <3>1. i \in 1..(Len(a) + Len(b)) /\ i <= Len(a) /\ i \in 1..(n - 1)
      BY <1>1, <1>2, <1>3, <2>1
    <3>2. r[i] = a[i]
      BY <1>6, <3>1
    <3>. QED  BY <1>2, <2>1, <3>1, <3>2
  <2>2. CASE ~(i < n)
    <3>1. r[i] = b[i - (n - 1)]
      BY <1>1, <1>2, <1>3, <1>6, <2>2
    <3>2. i - (n - 1) \in 1..(Len(q) - n) /\ n + (i - (n - 1)) = i + 1
      BY <1>1, <2>2
    <3>. QED  BY <1>3, <2>2, <3>1, <3>2
  <2>. QED  BY <2>1, <2>2
<1>9. \A i \in DOMAIN r : (IF i < n THEN i ELSE i + 1) \in DOMAIN q
  BY <1>1, <1>7
<1>. QED  BY <1>7, <1>8, <1>9 DEF r

LEMMA OnceRemove ==
  ASSUME NEW S, NEW q \in Seq(S), NEW n \in 1..Len(q)
  PROVE  /\ ToSet(RemoveAt(q, n)) \subseteq ToSet(q)
         /\ Once(q) => Once(RemoveAt(q, n))
         /\ Rising(q) => Rising(RemoveAt(q, n))
<1> DEFINE r == RemoveAt(q, n)
           old(i) == IF i < n THEN i ELSE i + 1
<1>0. n \in Nat
  BY LenProperties
<1>1. \A i \in DOMAIN r : i \in Nat /\ old(i) \in DOMAIN q /\ r[i] = q[old(i)]
  BY RemoveShifts
<1> HIDE DEF r, old
<1>2. ToSet(r) \subseteq ToSet(q)
  BY <1>1 DEF ToSet
<1>3. ASSUME Once(q)  PROVE Once(r)
  <2> SUFFICES ASSUME NEW i \in DOMAIN r, NEW j \in DOMAIN r, r[i] = r[j]
               PROVE  i = j
    BY DEF Once
  <2>1. old(i) = old(j)
    BY <1>1, <1>3 DEF Once
  <2>2. i \in Nat /\ j \in Nat
    BY <1>1
  <2>. QED  BY <1>0, <2>1, <2>2 DEF old
<1>4. ASSUME Rising(q)  PROVE Rising(r)
  <2> SUFFICES ASSUME NEW i \in DOMAIN r, NEW j \in DOMAIN r, i < j
               PROVE  r[i] < r[j]
    BY DEF Rising
  <2>1. i \in Nat /\ j \in Nat /\ old(i) \in DOMAIN q /\ old(j) \in DOMAIN q
    BY <1>1
  <2>2. old(i) < old(j)
    BY <1>0, <2>1 DEF old
  <2>3. q[old(i)] < q[old(j)]
    BY <1>4, <2>1, <2>2 DEF Rising
  <2>. QED  BY <1>1, <2>3
<1>. QED  BY <1>2, <1>3, <1>4 DEF r

LEMMA OncePrefix ==
  ASSUME NEW S, NEW q \in Seq(S), NEW n \in 0..Len(q), Once(q)
  PROVE  ToSet(SubSeq(q, 1, n)) \subseteq ToSet(q) /\ Once(SubSeq(q, 1, n))
<1> DEFINE p == SubSeq(q, 1, n)
<1>1. /\ Len(q) \in Nat /\ DOMAIN q = 1..Len(q)
      /\ p \in Seq(S) /\ Len(p) = n /\ \A i \in 1..n : p[i] = q[i]
  BY SeqFacts, LenProperties
<1>2. DOMAIN p = 1..n
  BY <1>1, LenProperties
<1> HIDE DEF p
<1>3. DOMAIN p \subseteq DOMAIN q
  BY <1>1, <1>2
<1>4. ToSet(p) \subseteq ToSet(q) /\ Once(p)
  BY <1>1, <1>2, <1>3 DEF ToSet, Once
<1>. QED  BY <1>4 DEF p

LEMMA InputDistinct ==
  ASSUME Types, DistinctInv, HandledInv, InputStep(InputWork \/ InputStop)
  PROVE  DistinctInv' /\ HandledInv'
<1>0. /\ batch \in Seq(Event) /\ made \in Nat /\ log' = log
      /\ cargo \in [Call -> Seq(Event)] /\ at \in [Call -> Places]
  BY DEF Places, Types, TypeOK, InputTypeOK, HopTypeOK, InputStep, spoolerVars, queueVars
<1>1. CASE MakeEvent
  <2>1. made' = made + 1 /\ batch' = Append(batch, made + 1) /\ UNCHANGED hopVars
    BY <1>1 DEF MakeEvent
  <2>2. made + 1 \in Event
    BY <1>1 DEF MakeEvent, Types, TypeOK, InputTypeOK, Event
  <2>3. made + 1 \notin 1..made /\ 1..made \subseteq 1..made' /\ made + 1 \in 1..made'
    BY <1>0, <2>1
  <2>4. ToSet(batch') = ToSet(batch) \cup {made + 1} /\ Once(batch')
    BY <1>0, <2>1, <2>2, <2>3, OnceAppend DEF DistinctInv
  <2>5. DistinctInv'
    BY <2>1, <2>3, <2>4 DEF DistinctInv, hopVars
  <2>6. HandledInv'
    BY <1>0, <2>1 DEF HandledInv, hopVars
  <2>. QED  BY <2>5, <2>6
<1>2. CASE HandOver
  <2>1. /\ batch' = <<>> /\ made' = made
        /\ at' = [at EXCEPT ![call + 1] = "processor"]
        /\ cargo' = [cargo EXCEPT ![call + 1] = batch]
        /\ UNCHANGED <<handled, spooled>>
    BY <1>2 DEF HandOver, Send
  <2>2. call + 1 \in Call
    <3>1. Len(batch) \in Nat
      BY <1>0, LenProperties
    <3>2. call \in Nat /\ made \in 0..MaxEvents
      BY DEF Types, TypeOK, InputTypeOK, Call
    <3>3. call + Len(batch) <= made
      BY <1>2 DEF HandOver, Types, InputInv
    <3>. QED  BY <3>1, <3>2, <3>3 DEF Call
  <2>3. at[call + 1] = "none"
    BY <2>2 DEF Types, TypeOK, InputTypeOK, InputInv, Call
  <2>4. ToSet(batch') = {} /\ Once(batch')
    BY <2>1 DEF ToSet, Once
  <2>5. \A c \in Call : cargo'[c] = IF c = call + 1 THEN batch ELSE cargo[c]
    BY <1>0, <2>1, <2>2
  <2>6. DistinctInv'
    BY <2>1, <2>4, <2>5 DEF DistinctInv
  <2>7. spooled[call + 1] = {}
    BY <2>2, <2>3 DEF HandledInv
  <2>8. \A c \in Call : at'[c] = IF c = call + 1 THEN "processor" ELSE at[c]
    BY <1>0, <2>1, <2>2
  <2>9. HandledInv'
    BY <1>0, <2>1, <2>5, <2>7, <2>8 DEF HandledInv
  <2>. QED  BY <2>6, <2>9
<1>3. CASE SeeCancelled \/ SendReturns \/ PusherEnds \/ InputStop
  <2>1. UNCHANGED <<at, cargo, handled, spooled, made, batch>>
    BY <1>3 DEF SeeCancelled, SendReturns, PusherEnds, InputStop, hopVars
  <2>. QED  BY <1>0, <2>1 DEF DistinctInv, HandledInv
<1>. QED  BY <1>1, <1>2, <1>3 DEF InputStep, InputWork

LEMMA ProcessDistinct ==
  ASSUME Types, DistinctInv, HandledInv, NEW c \in Call,
         HopStep(ProcessNext(c) \/ Cut(c))
  PROVE  DistinctInv' /\ HandledInv'
<1>0. /\ UNCHANGED <<batch, made, log, spooled>>
      /\ cargo \in [Call -> Seq(Event)] /\ handled \in [Call -> Nat]
      /\ at \in [Call -> Places]
  BY DEF Places, HopStep, Types, TypeOK, HopTypeOK, inputVars, spoolerVars, queueVars,
         ProcessNext, Cut
<1>1. CASE Cut(c)
  BY <1>0, <1>1 DEF Cut, DistinctInv, HandledInv
<1>2. CASE ProcessNext(c)
  <2>1. at[c] = "processor" /\ spooled[c] = {}
    BY <1>2 DEF ProcessNext, HandledInv
  <2>2. \A d \in Call \ {c} : /\ at'[d] = at[d] /\ cargo'[d] = cargo[d]
                              /\ handled'[d] = handled[d]
    BY <1>0, <1>2 DEF ProcessNext
  <2>3. /\ ToSet(cargo'[c]) \subseteq ToSet(cargo[c])
        /\ Once(cargo[c]) => Once(cargo'[c])
    <3>1. CASE /\ c \notin gone /\ Unhandled(c)
               /\ cargo[c][handled[c] + 1] \in Rejected
      <4>1. cargo'[c] = RemoveAt(cargo[c], handled[c] + 1)
        BY <1>0, <1>2, <3>1 DEF ProcessNext
      <4>2. Len(cargo[c]) \in Nat /\ handled[c] \in Nat /\ cargo[c] \in Seq(Event)
        BY <1>0, LenProperties
      <4>3. handled[c] + 1 \in 1..Len(cargo[c])
        BY <3>1, <4>2 DEF Unhandled
      <4>. QED  BY <4>1, <4>2, <4>3, OnceRemove
    <3>2. CASE ~(/\ c \notin gone /\ Unhandled(c)
                 /\ cargo[c][handled[c] + 1] \in Rejected)
      <4>1. cargo' = cargo
        BY <1>2, <3>2 DEF ProcessNext
      <4>. QED  BY <4>1
    <3>. QED  BY <3>1, <3>2
  <2>4. \A d \in Call : /\ ToSet(cargo'[d]) \subseteq ToSet(cargo[d])
                        /\ Once(cargo[d]) => Once(cargo'[d])
    BY <2>2, <2>3
  <2>5. DistinctInv'
    <3>1. \A d, e \in Call : d # e => ToSet(cargo'[d]) \cap ToSet(cargo'[e]) = {}
      BY <2>4 DEF DistinctInv
    <3>2. \A d \in Call : /\ Once(cargo'[d]) /\ ToSet(cargo'[d]) \subseteq 1..made
                          /\ ToSet(cargo'[d]) \cap ToSet(batch) = {}
      BY <2>4 DEF DistinctInv
    <3>. QED  BY <1>0, <3>1, <3>2 DEF DistinctInv
  <2>6. \A d \in Call : /\ spooled[d] \subseteq {cargo'[d][k] : k \in 1..handled'[d]}
                        /\ at'[d] \in {"none", "processor"} => spooled[d] = {}
    BY <2>1, <2>2 DEF HandledInv
  <2>7. HandledInv'
    BY <1>0, <2>6 DEF HandledInv
  <2>. QED  BY <2>5, <2>7
<1>. QED  BY <1>1, <1>2 DEF HopStep

\* What a handler publishes is of its batch, and in nobody's answer yet.
LEMMA PublishesNew ==
  ASSUME Types, DistinctInv, HandledInv, NEW c \in Call, Publish(c)
  PROVE  LET e == cargo[c][handled[c] + 1]
         IN  /\ e \in Event /\ e \in 1..made
             /\ \A d \in Call : e \notin spooled[d]
<1> DEFINE e == cargo[c][handled[c] + 1]
<1>0. HopTypeOK
  BY DEF Types, TypeOK
<1>1. /\ Len(cargo[c]) \in Nat /\ handled[c] < Len(cargo[c]) /\ handled[c] \in Nat
      /\ DOMAIN cargo[c] = 1..Len(cargo[c]) /\ e \in Event
  BY <1>0, LenProperties, IntakeTypes DEF HopTypeOK, Publish
<1>2. /\ handled[c] + 1 \in DOMAIN cargo[c] /\ handled[c] + 1 \notin 1..handled[c]
      /\ 1..handled[c] \subseteq DOMAIN cargo[c]
  BY <1>1
<1>3. e \notin spooled[c]
  BY <1>2 DEF HandledInv, DistinctInv, Once
<1>4. e \in ToSet(cargo[c])
  BY <1>2 DEF ToSet
<1>5. ASSUME NEW d \in Call, d # c  PROVE e \notin spooled[d]
  <2>1. spooled[d] \subseteq ToSet(cargo[d])
    <3>1. 1..handled[d] \subseteq DOMAIN cargo[d]
      BY <1>0, LenProperties DEF HopTypeOK
    <3>. QED  BY <3>1 DEF HandledInv, ToSet
  <2>. QED  BY <1>4, <1>5, <2>1 DEF DistinctInv
<1>6. e \in 1..made
  BY <1>4 DEF DistinctInv
<1>. QED  BY <1>1, <1>3, <1>5, <1>6

LEMMA IntakeDistinct ==
  ASSUME Types, DistinctInv, HandledInv, NEW c \in Call,
         SpoolerStep(ReceiveNext(c) \/ Publish(c))
  PROVE  DistinctInv' /\ HandledInv'
<1>0. /\ cargo' = cargo /\ batch' = batch /\ made' = made
      /\ cargo \in [Call -> Seq(Event)] /\ handled \in [Call -> Nat]
      /\ at \in [Call -> Places] /\ spooled \in [Call -> SUBSET Event]
      /\ log \in Seq(Event) /\ HopTypeOK
  BY DEF Places, SpoolerStep, ReceiveNext, Publish, inputVars, Types, TypeOK, HopTypeOK,
         SpoolerTypeOK
<1>1. DistinctInv'
  BY <1>0 DEF DistinctInv
<1>2. CASE ReceiveNext(c)
  <2>1. /\ UNCHANGED <<handled, spooled, log>> /\ at[c] = "spool"
        /\ \A d \in Call : at'[d] = IF d = c THEN at'[c] ELSE at[d]
        /\ at'[c] \in {"publish", "over"}
    BY <1>0, <1>2 DEF ReceiveNext, spoolerVars, queueVars
  <2>2. \A d \in Call :
            /\ spooled'[d] \subseteq {cargo'[d][k] : k \in 1..handled'[d]}
            /\ at'[d] \in {"none", "processor"} => at[d] \in {"none", "processor"}
    <3>1. \A d \in Call : spooled[d] \subseteq {cargo[d][k] : k \in 1..handled[d]}
      BY DEF HandledInv
    <3>2. spooled' = spooled /\ handled' = handled /\ cargo' = cargo
      BY <1>0, <2>1
    <3>3. ASSUME NEW d \in Call, at'[d] \in {"none", "processor"}
          PROVE  at[d] \in {"none", "processor"}
      BY <2>1, <3>3
    <3>. QED  BY <3>1, <3>2, <3>3
  <2>3. /\ \A d \in Call : at[d] \in {"none", "processor"} => spooled[d] = {}
        /\ \A e \in ToSet(log) : \E d \in Call : e \in spooled[d]
        /\ Once(log)
    BY DEF HandledInv
  <2>4. log' = log /\ spooled' = spooled
    BY <2>1
  <2>5. /\ \A e \in ToSet(log') : \E d \in Call : e \in spooled'[d]
        /\ Once(log')
        /\ \A d \in Call : at'[d] \in {"none", "processor"} => spooled'[d] = {}
    BY <2>2, <2>3, <2>4
  <2>6. HandledInv'
    BY <2>2, <2>5 DEF HandledInv
  <2>. QED  BY <1>1, <2>6
<1>3. CASE Publish(c)
  <2> DEFINE e == cargo[c][handled[c] + 1]
  <2>1. /\ at[c] = "publish" /\ at'[c] = "spool" /\ handled'[c] = handled[c] + 1
        /\ \A d \in Call \ {c} : at'[d] = at[d] /\ handled'[d] = handled[d]
    BY <1>0, <1>3 DEF Publish
  <2>2. \/ log' = log /\ spooled' = spooled
        \/ log' = Append(log, e) /\ spooled' = [spooled EXCEPT ![c] = @ \cup {e}]
    BY <1>3 DEF Publish, Taken
  <2>3. /\ Len(cargo[c]) \in Nat /\ handled[c] < Len(cargo[c]) /\ handled[c] \in Nat
        /\ DOMAIN cargo[c] = 1..Len(cargo[c]) /\ e \in Event
    BY <1>0, <1>3, <2>1, LenProperties, IntakeTypes DEF HopTypeOK
  <2>4. /\ handled[c] + 1 \in DOMAIN cargo[c] /\ handled[c] + 1 \notin 1..handled[c]
        /\ 1..handled[c] \subseteq DOMAIN cargo[c]
        /\ 1..handled'[c] = 1..handled[c] \cup {handled[c] + 1}
    BY <2>1, <2>3
  <2>5. \A d \in Call : e \notin spooled[d]
    BY <1>3, PublishesNew
  <2>8. e \notin ToSet(log)
    BY <2>5 DEF HandledInv
  <2> HIDE DEF e
  <2>9. Once(log') /\ ToSet(log') \subseteq ToSet(log) \cup (spooled'[c] \ spooled[c])
    <3>1. CASE log' = log
      BY <3>1 DEF HandledInv
    <3>2. CASE log' = Append(log, e) /\ spooled' = [spooled EXCEPT ![c] = @ \cup {e}]
      BY <1>0, <2>3, <2>5, <2>8, <3>2, OnceAppend DEF HandledInv
    <3>. QED  BY <2>2, <3>1, <3>2
  <2>10. /\ spooled[c] \subseteq spooled'[c] /\ spooled'[c] \subseteq spooled[c] \cup {e}
         /\ \A d \in Call \ {c} : spooled'[d] = spooled[d]
    BY <1>0, <2>2
  <2>11. spooled'[c] \subseteq {cargo'[c][k] : k \in 1..handled'[c]}
    <3>1. spooled[c] \subseteq {cargo[c][k] : k \in 1..handled[c]}
      BY DEF HandledInv
    <3>2. {cargo[c][k] : k \in 1..handled'[c]}
            = {cargo[c][k] : k \in 1..handled[c]} \cup {e}
      BY <2>4 DEF e
    <3>. QED  BY <1>0, <2>10, <3>1, <3>2
  <2>12. \A d \in Call : /\ spooled'[d] \subseteq {cargo'[d][k] : k \in 1..handled'[d]}
                         /\ at'[d] \in {"none", "processor"} => spooled'[d] = {}
    <3>1. ASSUME NEW d \in Call, d # c
          PROVE  /\ spooled'[d] \subseteq {cargo'[d][k] : k \in 1..handled'[d]}
                 /\ at'[d] \in {"none", "processor"} => spooled'[d] = {}
      <4>1. /\ spooled'[d] = spooled[d] /\ handled'[d] = handled[d]
            /\ at'[d] = at[d] /\ cargo'[d] = cargo[d]
        BY <1>0, <2>1, <2>10, <3>1
      <4>. QED  BY <4>1 DEF HandledInv
    <3>2. at'[c] \notin {"none", "processor"}
      BY <2>1
    <3>. QED  BY <2>11, <3>1, <3>2
  <2>13. \A x \in ToSet(log') : \E d \in Call : x \in spooled'[d]
    BY <2>9, <2>10 DEF HandledInv
  <2>14. HandledInv'
    BY <2>9, <2>12, <2>13 DEF HandledInv
  <2>. QED  BY <1>1, <2>14
<1>. QED  BY <1>2, <1>3 DEF SpoolerStep

LEMMA RestartDistinct ==
  ASSUME Types, DistinctInv, HandledInv, SpoolerStep(Restart)
  PROVE  DistinctInv' /\ HandledInv'
<1>0. /\ UNCHANGED <<cargo, batch, made, handled, spooled>>
      /\ at \in [Call -> Places] /\ log \in Seq(Event) /\ read \in 0..Len(log)
  BY DEF Places, SpoolerStep, Restart, inputVars, Types, TypeOK, HopTypeOK, SpoolerTypeOK
<1>1. DistinctInv'
  BY <1>0 DEF DistinctInv
<1>2. \A c \in Call : at'[c] = at[c] \/ at'[c] = "over"
  BY DEF SpoolerStep, Restart
<1>3. ToSet(log') \subseteq ToSet(log) /\ Once(log')
  <2>1. PICK n \in read..Len(log) : log' = SubSeq(log, 1, n)
    BY DEF SpoolerStep, Restart
  <2>2. n \in 0..Len(log)
    BY <1>0, LenProperties
  <2>. QED  BY <1>0, <2>1, <2>2, OncePrefix DEF HandledInv
<1>4. HandledInv'
  BY <1>0, <1>2, <1>3 DEF HandledInv
<1>. QED  BY <1>1, <1>4

-----------------------------------------------------------------------------
(* The theorems.                                                           *)

IInv == Types /\ AckInv /\ Kept /\ CreatedOnce /\ DistinctInv /\ HandledInv

LEMMA InitIInv == Init => IInv
<1> SUFFICES ASSUME Init PROVE IInv  OBVIOUS
<1>1. Types
  BY InitTypes
<1>2. AckInv
  BY DEF Init, SpoolerInit, AckInv
<1>3. Kept
  BY DEF Init, HopInit, Kept
<1>4. CreatedOnce
  BY DEF Init, OutputInit, CreatedOnce
<1>5. DistinctInv /\ HandledInv
  <2>1. batch = <<>> /\ log = <<>> /\ \A c \in Call : cargo[c] = <<>> /\ spooled[c] = {}
    BY DEF Init, HopInit, InputInit, SpoolerInit
  <2>2. ToSet(<<>>) = {} /\ Once(<<>>)
    BY DEF ToSet, Once
  <2>. QED  BY <2>1, <2>2 DEF DistinctInv, HandledInv
<1>. QED  BY <1>1, <1>2, <1>3, <1>4, <1>5 DEF IInv

LEMMA NextDistinct ==
  ASSUME Types, DistinctInv, HandledInv, [Next]_vars
  PROVE  DistinctInv' /\ HandledInv'
<1>1. CASE InputStep(InputWork \/ InputStop)
  BY <1>1, InputDistinct
<1>2. CASE HopStep(\E c \in Call : ProcessNext(c) \/ Cut(c))
  <2>1. PICK c \in Call : ProcessNext(c) \/ Cut(c)
    BY <1>2 DEF HopStep
  <2>2. HopStep(ProcessNext(c) \/ Cut(c))
    BY <1>2, <2>1 DEF HopStep
  <2>. QED  BY <2>2, ProcessDistinct
<1>3. CASE SpoolerStep(Intake)
  <2>1. PICK c \in Call : ReceiveNext(c) \/ Publish(c)
    BY <1>3 DEF SpoolerStep, Intake
  <2>2. SpoolerStep(ReceiveNext(c) \/ Publish(c))
    BY <1>3, <2>1 DEF SpoolerStep
  <2>. QED  BY <2>2, IntakeDistinct
<1>4. CASE SpoolerStep(Restart)
  BY <1>4, RestartDistinct
<1>5. CASE SpoolerStep(Get \/ Offer \/ Close)
  <2>1. UNCHANGED <<at, cargo, handled, spooled, batch, made, log>>
    BY <1>5 DEF SpoolerStep, Get, Offer, Close, inputVars, hopVars, queueVars
  <2>. QED  BY <2>1 DEF DistinctInv, HandledInv
<1>6. CASE UNCHANGED vars
  <2>1. UNCHANGED <<at, cargo, handled, spooled, batch, made, log>>
    BY <1>6 DEF vars, inputVars, hopVars, spoolerVars, queueVars
  <2>. QED  BY <2>1 DEF DistinctInv, HandledInv
<1>7. SpoolerStep(SpoolerWork \/ Close \/ Restart) =>
        SpoolerStep(Intake) \/ SpoolerStep(Restart) \/ SpoolerStep(Get \/ Offer \/ Close)
  BY DEF SpoolerStep, SpoolerWork
<1>. QED  BY <1>1, <1>2, <1>3, <1>4, <1>5, <1>6, <1>7 DEF Next

LEMMA NextIInv == IInv /\ [Next]_vars => IInv'
<1> SUFFICES ASSUME IInv, [Next]_vars PROVE IInv'  OBVIOUS
<1>d. DistinctInv' /\ HandledInv'
  BY NextDistinct DEF IInv
<1>0. /\ HopTypeOK /\ InputTypeOK /\ InputInv /\ SpoolTypeOK
      /\ AckInv /\ Kept /\ CreatedOnce
  BY DEF IInv, Types, TypeOK, SpoolTypeOK
\* A step of the others leaves the spooler and the output alone.
<1>a. ASSUME UNCHANGED <<spoolerVars, outputVars, spooled>>
      PROVE  SpoolTypeOK' /\ AckInv' /\ Kept' /\ CreatedOnce'
  <2>1. UNCHANGED <<log, freed, read, acked, lost>>
        /\ UNCHANGED <<running, consumer, from, failed, restarts>>
        /\ UNCHANGED <<created, refused, spooled>>
    BY <1>a DEF spoolerVars, queueVars, outputVars
  <2>2. SpoolerTypeOK' /\ OutputTypeOK'
    BY <1>0, <2>1 DEF SpoolTypeOK, SpoolerTypeOK, OutputTypeOK
  <2>3. AckInv' /\ Kept' /\ CreatedOnce'
    BY <1>0, <2>1 DEF AckInv, Created, Kept, CreatedOnce
  <2>. QED  BY <2>2, <2>3 DEF SpoolTypeOK
\* A step of the others leaves the input alone.
<1>b. ASSUME UNCHANGED inputVars, Placed
      PROVE  InputTypeOK' /\ InputInv'
  <2>1. UNCHANGED <<made, batch, producer, pusher, call, cancelled>>
    BY <1>b DEF inputVars
  <2>. QED  BY <1>0, <1>b, <2>1 DEF InputTypeOK, InputInv, Placed
<1>c. ASSUME UNCHANGED hopVars
      PROVE  HopTypeOK' /\ Placed
  BY <1>0, <1>c DEF hopVars, HopTypeOK, Placed
<1>1. CASE InputStep(InputWork \/ InputStop)
  <2>1. HopTypeOK' /\ InputTypeOK' /\ InputInv'
    BY <1>0, <1>1, InputTypes DEF InputStep
  <2>2. spooled' = spooled
    BY <1>1 DEF InputStep, InputWork, InputStop, MakeEvent, SeeCancelled, HandOver,
                Send, SendReturns, PusherEnds, hopVars
  <2>3. SpoolTypeOK' /\ AckInv' /\ Kept' /\ CreatedOnce'
    BY <1>a, <1>1, <2>2 DEF InputStep
  <2>. QED  BY <1>d, <2>1, <2>3 DEF IInv, Types, TypeOK, SpoolTypeOK
<1>2. CASE HopStep(\E c \in Call : ProcessNext(c) \/ Cut(c))
  <2>1. PICK c \in Call : ProcessNext(c) \/ Cut(c)
    BY <1>2 DEF HopStep
  <2>2. HopTypeOK' /\ Placed
    BY <1>0, <2>1, ProcessTypes
  <2>3. UNCHANGED <<inputVars, spoolerVars, outputVars, spooled>>
    BY <1>2, <2>1 DEF HopStep, ProcessNext, Cut
  <2>4. InputTypeOK' /\ InputInv'
    BY <1>b, <2>2, <2>3
  <2>5. SpoolTypeOK' /\ AckInv' /\ Kept' /\ CreatedOnce'
    BY <1>a, <2>3
  <2>. QED  BY <1>d, <2>2, <2>4, <2>5 DEF IInv, Types, TypeOK, SpoolTypeOK
<1>3. CASE SpoolerStep(SpoolerWork \/ Close \/ Restart)
  <2>0. UNCHANGED inputVars
    BY <1>3 DEF SpoolerStep
  <2> SUFFICES HopTypeOK' /\ Placed /\ SpoolTypeOK' /\ AckInv' /\ Kept' /\ CreatedOnce'
    BY <1>b, <1>d, <2>0 DEF IInv, Types, TypeOK, SpoolTypeOK
  <2>1. CASE Intake
    <3>1. PICK c \in Call : ReceiveNext(c) \/ Publish(c)
      BY <2>1 DEF Intake
    <3>2. HopTypeOK' /\ Placed
      BY <1>0, <3>1, IntakeTypes
    <3>3. SpoolTypeOK' /\ AckInv'
      BY <1>0, <3>1, IntakeKeeps
    <3>4. CreatedOnce'
      BY <1>0, <3>1 DEF ReceiveNext, Publish, outputVars, CreatedOnce
    <3>5. Kept'
      <4>1. CASE ReceiveNext(c)
        BY <1>0, <4>1 DEF ReceiveNext, spoolerVars, queueVars, Kept
      <4>2. CASE Publish(c)
        BY <1>0, <4>2, PublishKeeps
      <4>. QED  BY <3>1, <4>1, <4>2
    <3>. QED  BY <3>2, <3>3, <3>4, <3>5
  <2>2. CASE Get
    <3>1. SpoolTypeOK' /\ AckInv'
      BY <1>0, <2>2, GetKeeps
    <3>2. UNCHANGED <<log, lost, created>> /\ UNCHANGED hopVars
      BY <2>2 DEF Get, outputVars
    <3>3. Kept' /\ CreatedOnce'
      BY <1>0, <3>2 DEF Kept, CreatedOnce, hopVars
    <3>. QED  BY <1>c, <3>1, <3>2, <3>3
  <2>3. CASE Offer
    <3>1. SpoolTypeOK' /\ AckInv' /\ CreatedOnce'
      BY <1>0, <2>3, OfferKeeps
    <3>2. UNCHANGED <<log, lost>> /\ UNCHANGED hopVars
      BY <2>3 DEF Offer
    <3>3. Kept'
      BY <1>0, <3>2 DEF Kept, hopVars
    <3>. QED  BY <1>c, <3>1, <3>2, <3>3
  <2>4. CASE Close
    <3>1. SpoolTypeOK' /\ AckInv'
      BY <1>0, <2>4, CloseKeeps
    <3>2. UNCHANGED <<log, lost, created>> /\ UNCHANGED hopVars
      BY <2>4 DEF Close, queueVars, outputVars
    <3>3. Kept' /\ CreatedOnce'
      BY <1>0, <3>2 DEF Kept, CreatedOnce, hopVars
    <3>. QED  BY <1>c, <3>1, <3>2, <3>3
  <2>5. CASE Restart
    <3>1. HopTypeOK' /\ Placed /\ SpoolTypeOK' /\ AckInv'
      BY <1>0, <2>5, RestartKeeps
    <3>2. Kept'
      BY <1>0, <2>5, RestartLoses
    <3>3. CreatedOnce'
      BY <1>0, <2>5 DEF Restart, outputVars, CreatedOnce
    <3>. QED  BY <3>1, <3>2, <3>3
  <2>. QED  BY <1>3, <2>1, <2>2, <2>3, <2>4, <2>5 DEF SpoolerStep, SpoolerWork
<1>4. CASE UNCHANGED vars
  <2>1. UNCHANGED hopVars /\ UNCHANGED inputVars /\ UNCHANGED <<spoolerVars, outputVars>>
    BY <1>4 DEF vars
  <2>2. spooled' = spooled
    BY <2>1 DEF hopVars
  <2>3. InputTypeOK' /\ InputInv'
    BY <1>b, <1>c, <2>1
  <2>. QED  BY <1>a, <1>c, <1>d, <2>1, <2>2, <2>3 DEF IInv, Types, TypeOK, SpoolTypeOK
<1>. QED  BY <1>1, <1>2, <1>3, <1>4 DEF Next

LEMMA DeliveryInvariant == Spec => []IInv
BY InitIInv, NextIInv, PTL DEF Spec

\* The pipeline keeps its types, for any number of events, batch and queue
\* sizes and restarts: no call is made that Call does not have.
THEOREM DeliveryTypeCorrect == Spec => []TypeOK
<1>1. IInv => TypeOK
  BY DEF IInv, Types
<1>. QED  BY <1>1, DeliveryInvariant, PTL

\* What the queue frees has been created in Elasticsearch or reported unsent:
\* only what is marked is freed, and only what was answered for is marked.
\* (spooler.go 132-144, output.go 148-158)
THEOREM DeliveryFreesAnswered == Spec => []FreedIsAnswered
<1>1. IInv => FreedIsAnswered
  BY DEF IInv, AckInv, FreedIsAnswered
<1>. QED  BY <1>1, DeliveryInvariant, PTL

\* A document is created at most once however often its event is offered.
\* (docs.go 56-64)
THEOREM DeliveryCreatesOnce == Spec => []CreatedOnce
<1>1. IInv => CreatedOnce
  BY DEF IInv
<1>. QED  BY <1>1, DeliveryInvariant, PTL

\* What a Send reports as sent is in the queue, or was lost when the spooler's
\* process ended.  (spooler.go 75-95, receive.go 131-163)
THEOREM DeliveryReportsSpooled == Spec => []ReportedIsSpooled
<1>1. IInv => ReportedIsSpooled
  BY DEF IInv, Kept, ReportedIsSpooled
<1>. QED  BY <1>1, DeliveryInvariant, PTL

\* No event is spooled twice, whatever fails, is cut or restarts: an event is
\* in one batch at one place, and no handler goes over its batch again.
\* (input.go 113-119, spooler.go 76-92)
THEOREM DeliverySpoolsOnce == Spec => []SpooledOnce
<1>1. IInv => SpooledOnce
  BY DEF IInv, HandledInv, Once, SpooledOnce
<1>. QED  BY <1>1, DeliveryInvariant, PTL

-----------------------------------------------------------------------------
(* The order.  Batches and calls are in the order of their events, and a    *)
(* call is not made before the one before it is over or cut: a handler that *)
(* is at work without either is of the last call.                           *)

Before(p, q) == \A x \in ToSet(p), y \in ToSet(q) : x < y

AtRest(c) == at[c] \in {"none", "over"} \/ c \in gone

OrderInv ==
  /\ Rising(batch) /\ \A c \in Call : Rising(cargo[c])
  /\ \A c \in Call : Before(cargo[c], batch)
  /\ \A c, d \in Call : c < d => Before(cargo[c], cargo[d])
  /\ \A c \in Call : /\ at[c] = "none" => ToSet(cargo[c]) = {}
                     /\ c < call \/ pusher # "call" => AtRest(c)

LEMMA RisingAppend ==
  ASSUME NEW q \in Seq(Event), NEW e \in Event, Rising(q), \A x \in ToSet(q) : x < e
  PROVE  Rising(Append(q, e))
<1> DEFINE p == Append(q, e)
<1>1. /\ Len(q) \in Nat /\ DOMAIN q = 1..Len(q) /\ DOMAIN p = 1..(Len(q) + 1)
      /\ p[Len(q) + 1] = e /\ \A i \in 1..Len(q) : p[i] = q[i]
  BY AppendProperties, LenProperties
<1> HIDE DEF p
<1>2. ASSUME NEW i \in DOMAIN p, NEW j \in DOMAIN p, i < j  PROVE p[i] < p[j]
  <2>1. i \in DOMAIN q /\ p[i] = q[i]
    BY <1>1, <1>2
  <2>2. CASE j \in DOMAIN q
    BY <1>1, <1>2, <2>1, <2>2 DEF Rising
  <2>3. CASE j = Len(q) + 1
    BY <1>1, <2>1, <2>3 DEF ToSet
  <2>. QED  BY <1>1, <2>2, <2>3
<1>. QED  BY <1>2 DEF Rising, p

LEMMA InputOrder ==
  ASSUME Types, DistinctInv, OrderInv, InputStep(InputWork \/ InputStop)
  PROVE  OrderInv'
<1>0. /\ batch \in Seq(Event) /\ made \in Nat /\ call \in Nat
      /\ cargo \in [Call -> Seq(Event)] /\ at \in [Call -> Places]
      /\ gone \subseteq Call
  BY DEF Places, Types, TypeOK, InputTypeOK, HopTypeOK, Call
<1>1. CASE MakeEvent
  <2>1. /\ made' = made + 1 /\ batch' = Append(batch, made + 1)
        /\ UNCHANGED <<at, cargo, gone, pusher, call>>
    BY <1>1 DEF MakeEvent, hopVars
  <2>2. made + 1 \in Event /\ \A x \in 1..made : x < made + 1
    BY <1>0, <1>1 DEF MakeEvent, Types, TypeOK, InputTypeOK, Event
  <2>3. ToSet(batch') = ToSet(batch) \cup {made + 1}
    BY <1>0, <2>1, <2>2, OnceAppend
  <2>4. Rising(batch')
    BY <1>0, <2>1, <2>2, RisingAppend DEF OrderInv, DistinctInv
  <2>5. \A c \in Call : Before(cargo[c], batch')
    BY <2>2, <2>3 DEF OrderInv, DistinctInv, Before
  <2>. QED  BY <2>1, <2>4, <2>5 DEF OrderInv, AtRest
<1>2. CASE HandOver
  <2>1. /\ batch' = <<>> /\ pusher = "recv" /\ call' = call + 1
        /\ at' = [at EXCEPT ![call + 1] = "processor"]
        /\ cargo' = [cargo EXCEPT ![call + 1] = batch]
        /\ gone \subseteq gone'
    BY <1>2 DEF HandOver, Send, Free
  <2>2. call + 1 \in Call
    <3>1. Len(batch) \in Nat
      BY <1>0, LenProperties
    <3>2. made \in 0..MaxEvents
      BY DEF Types, TypeOK, InputTypeOK
    <3>3. call + Len(batch) <= made
      BY <1>2 DEF HandOver, Types, InputInv
    <3>. QED  BY <1>0, <3>1, <3>2, <3>3 DEF Call
  <2>3. \A c \in Call : /\ cargo'[c] = IF c = call + 1 THEN batch ELSE cargo[c]
                        /\ at'[c] = IF c = call + 1 THEN "processor" ELSE at[c]
    BY <1>0, <2>1, <2>2
  <2>4. \A c \in Call : c \in Nat /\ (at[c] = "none" <=> c > call)
    BY DEF Types, InputInv, Call
  <2>5. ToSet(batch') = {} /\ Rising(batch')
    BY <2>1 DEF ToSet, Rising
  <2>6. \A c \in Call : Rising(cargo'[c]) /\ Before(cargo'[c], batch')
    BY <2>3, <2>5 DEF OrderInv, Before
  <2>7. ASSUME NEW c \in Call, NEW d \in Call, c < d
        PROVE  Before(cargo'[c], cargo'[d])
    <3>1. CASE d = call + 1
      BY <2>3, <2>7, <3>1, <2>4 DEF OrderInv
    <3>2. CASE c = call + 1
      <4>1. ToSet(cargo'[d]) = {}
        BY <1>0, <2>3, <2>4, <2>7, <3>2 DEF OrderInv
      <4>. QED  BY <4>1 DEF Before
    <3>3. CASE c # call + 1 /\ d # call + 1
      BY <2>3, <2>7, <3>3 DEF OrderInv
    <3>. QED  BY <3>1, <3>2, <3>3
  <2>8. ASSUME NEW c \in Call
        PROVE  /\ at'[c] = "none" => ToSet(cargo'[c]) = {}
               /\ c < call' \/ pusher' # "call" => AtRest(c)'
    <3>1. pusher' = "call"
      BY <1>2 DEF HandOver
    <3>2. ASSUME c < call'  PROVE AtRest(c)'
      <4>1. c # call + 1 /\ AtRest(c)
        BY <1>0, <2>1, <2>4, <3>2 DEF OrderInv
      <4>. QED  BY <2>1, <2>3, <4>1 DEF AtRest
    <3>3. at'[c] = "none" => ToSet(cargo'[c]) = {}
      BY <2>3 DEF OrderInv
    <3>. QED  BY <3>1, <3>2, <3>3
  <2>. QED  BY <2>5, <2>6, <2>7, <2>8 DEF OrderInv
<1>3. CASE SendReturns
  <2>1. /\ UNCHANGED <<at, cargo, gone, batch, call>> /\ pusher = "call"
        /\ call \in gone \/ at[call] = "over"
    BY <1>3 DEF SendReturns, hopVars
  <2>2. \A c \in Call : c \in Nat /\ (at[c] = "none" <=> c > call)
    BY DEF Types, InputInv, Call
  <2>3. \A c \in Call : AtRest(c)
    BY <1>0, <2>1, <2>2 DEF OrderInv, AtRest
  <2>. QED  BY <2>1, <2>3 DEF OrderInv, AtRest
<1>4. CASE SeeCancelled \/ PusherEnds \/ InputStop
  <2>1. /\ UNCHANGED <<at, cargo, batch, call>> /\ gone \subseteq gone'
        /\ pusher' = pusher \/ pusher # "call"
    BY <1>4 DEF SeeCancelled, PusherEnds, InputStop, hopVars
  <2>. QED  BY <2>1 DEF OrderInv, AtRest
<1>. QED  BY <1>1, <1>2, <1>3, <1>4 DEF InputStep, InputWork

LEMMA ProcessOrder ==
  ASSUME Types, OrderInv, NEW c \in Call, HopStep(ProcessNext(c) \/ Cut(c))
  PROVE  OrderInv' /\ \A d \in gone : d \in gone' /\ cargo'[d] = cargo[d]
<1>0. /\ UNCHANGED <<batch, call, pusher>>
      /\ cargo \in [Call -> Seq(Event)] /\ handled \in [Call -> Nat]
      /\ at \in [Call -> Places] /\ gone \subseteq Call
  BY DEF Places, HopStep, Types, TypeOK, HopTypeOK, inputVars
<1>1. CASE Cut(c)
  BY <1>0, <1>1 DEF Cut, OrderInv, AtRest
<1>2. CASE ProcessNext(c)
  <2>1. /\ gone' = gone /\ at[c] = "processor"
        /\ \A d \in Call \ {c} : at'[d] = at[d] /\ cargo'[d] = cargo[d]
        /\ at'[c] \in {"processor", "spool", "over"}
    BY <1>0, <1>2 DEF ProcessNext
  <2>2. c \in gone => cargo' = cargo
    BY <1>2 DEF ProcessNext
  <2>3. ToSet(cargo'[c]) \subseteq ToSet(cargo[c]) /\ Rising(cargo'[c])
    <3>1. CASE /\ c \notin gone /\ Unhandled(c)
               /\ cargo[c][handled[c] + 1] \in Rejected
      <4>1. cargo'[c] = RemoveAt(cargo[c], handled[c] + 1)
        BY <1>0, <1>2, <3>1 DEF ProcessNext
      <4>2. Len(cargo[c]) \in Nat /\ handled[c] \in Nat /\ cargo[c] \in Seq(Event)
        BY <1>0, LenProperties
      <4>3. handled[c] + 1 \in 1..Len(cargo[c])
        BY <3>1, <4>2 DEF Unhandled
      <4>. QED  BY <4>1, <4>2, <4>3, OnceRemove DEF OrderInv
    <3>2. CASE ~(/\ c \notin gone /\ Unhandled(c)
                 /\ cargo[c][handled[c] + 1] \in Rejected)
      <4>1. cargo' = cargo
        BY <1>2, <3>2 DEF ProcessNext
      <4>. QED  BY <4>1 DEF OrderInv
    <3>. QED  BY <3>1, <3>2
  <2>4. \A d \in Call : ToSet(cargo'[d]) \subseteq ToSet(cargo[d]) /\ Rising(cargo'[d])
    BY <2>1, <2>3 DEF OrderInv
  <2>5. \A d, e \in Call : d < e => Before(cargo'[d], cargo'[e])
    BY <2>4 DEF OrderInv, Before
  <2>6. \A d \in Call : Before(cargo'[d], batch')
    BY <1>0, <2>4 DEF OrderInv, Before
  <2>7. \A d \in Call : /\ at'[d] = "none" => ToSet(cargo'[d]) = {}
                        /\ d < call' \/ pusher' # "call" => AtRest(d)'
    BY <1>0, <2>1, <2>4 DEF OrderInv, AtRest
  <2>8. OrderInv'
    BY <1>0, <2>4, <2>5, <2>6, <2>7 DEF OrderInv
  <2>. QED  BY <1>0, <2>1, <2>2, <2>8
<1>. QED  BY <1>1, <1>2 DEF HopStep

\* The spooler touches no batch, and a call that is settled stays so.
LEMMA SpoolerOrder ==
  ASSUME Types, OrderInv, SpoolerStep(SpoolerWork \/ Close \/ Restart)
  PROVE  OrderInv' /\ cargo' = cargo /\ gone \subseteq gone'
<1>1. UNCHANGED <<cargo, batch, call, pusher>>
  BY DEF SpoolerStep, SpoolerWork, Intake, ReceiveNext, Publish, Get, Offer, Close, Restart,
         hopVars, inputVars
<1>2. gone \subseteq gone'
  BY DEF SpoolerStep, SpoolerWork, Intake, ReceiveNext, Publish, Get, Offer, Close, Restart,
         hopVars
<1>3. \A c \in Call : /\ AtRest(c) => AtRest(c)'
                      /\ at'[c] = "none" => at[c] = "none"
  <2>0. at \in [Call -> Places]
    BY DEF Places, Types, TypeOK, HopTypeOK
  <2>1. CASE Intake
    <3>1. PICK d \in Call : ReceiveNext(d) \/ Publish(d)
      BY <2>1 DEF Intake
    <3>2. /\ at[d] \in {"spool", "publish"} /\ at'[d] \in {"spool", "publish", "over"}
          /\ \A c \in Call \ {d} : at'[c] = at[c]
      BY <2>0, <3>1 DEF ReceiveNext, Publish
    <3>. QED  BY <1>2, <3>2 DEF AtRest
  <2>2. CASE Restart
    BY <1>2, <2>0, <2>2 DEF Restart, InSpooler, AtRest
  <2>3. CASE Get \/ Offer \/ Close
    BY <2>3 DEF Get, Offer, Close, hopVars, AtRest
  <2>. QED  BY <2>1, <2>2, <2>3 DEF SpoolerStep, SpoolerWork
<1>. QED  BY <1>1, <1>2, <1>3 DEF OrderInv

\* What is published by a call that was not cut is larger than what is there.
LEMMA PublishOrder ==
  ASSUME IInv, OrderInv, NEW c \in Call, at[c] = "publish", c \notin gone,
         NEW x \in ToSet(log)
  PROVE  x < cargo[c][handled[c] + 1]
<1>0. /\ cargo \in [Call -> Seq(Event)] /\ handled \in [Call -> Nat]
      /\ \A d \in Call : handled[d] <= Len(cargo[d])
      /\ handled[c] < Len(cargo[c])
      /\ call \in Nat /\ \A d \in Call : d \in Nat /\ (at[d] = "none" <=> d > call)
      /\ HandledInv
  BY DEF IInv, Types, TypeOK, HopTypeOK, InputTypeOK, InputInv, Call
<1>1. handled[c] + 1 \in DOMAIN cargo[c]
  BY <1>0, LenProperties
<1>2. PICK d \in Call : x \in spooled[d]
  BY <1>0 DEF HandledInv
<1>3. PICK k \in 1..handled[d] : x = cargo[d][k]
  BY <1>0, <1>2 DEF HandledInv
<1>4. k \in DOMAIN cargo[d] /\ at[d] # "none"
  BY <1>0, <1>2, <1>3, LenProperties DEF HandledInv
<1>5. d <= c
  <2>1. c = call
    BY <1>0 DEF OrderInv, AtRest
  <2>. QED  BY <1>0, <1>4, <2>1
<1>6. CASE d = c
  <2>1. k < handled[c] + 1
    BY <1>0, <1>3, <1>6
  <2>. QED  BY <1>1, <1>3, <1>4, <1>6, <2>1 DEF OrderInv, Rising
<1>7. CASE d < c
  BY <1>1, <1>3, <1>4, <1>7 DEF OrderInv, Before, ToSet
<1>. QED  BY <1>0, <1>5, <1>6, <1>7

LEMMA LogOrder ==
  ASSUME IInv, OrderInv, InOrder, Next,
         \A d \in gone : d \in gone' /\ cargo'[d] = cargo[d]
  PROVE  InOrder'
<1>0. log \in Seq(Event) /\ Len(log) \in Nat /\ DOMAIN log = 1..Len(log) /\ read \in 0..Len(log)
  BY LenProperties DEF IInv, Types, TypeOK, SpoolerTypeOK
<1>1. ASSUME DOMAIN log' \subseteq DOMAIN log, \A i \in DOMAIN log' : log'[i] = log[i]
      PROVE  InOrder'
  BY <1>1 DEF InOrder
<1>2. CASE log' = log
  BY <1>1, <1>2
<1>3. CASE \E c \in Call : SpoolerStep(Publish(c)) /\ log' # log
  <2>1. PICK c \in Call : Publish(c) /\ log' # log
    BY <1>3 DEF SpoolerStep
  <2> DEFINE e == cargo[c][handled[c] + 1]
  <2>2. /\ at[c] = "publish" /\ log' = Append(log, e) /\ cargo' = cargo
    BY <2>1 DEF Publish
  <2>3. /\ cargo[c] \in Seq(Event) /\ handled[c] \in Nat /\ handled[c] < Len(cargo[c])
    BY <2>2 DEF IInv, Types, TypeOK, HopTypeOK
  <2>4. handled[c] + 1 \in DOMAIN cargo[c] /\ e \in Event
    BY <2>3, LenProperties, ElementOfSeq
  <2>5. e \in ToSet(cargo[c])
    BY <2>4 DEF ToSet
  <2>6. c \notin gone => \A x \in ToSet(log) : x < e
    BY <2>2, PublishOrder
  <2> HIDE DEF e
  <2>7. /\ DOMAIN log' = 1..(Len(log) + 1) /\ log'[Len(log) + 1] = e
        /\ \A i \in DOMAIN log : log'[i] = log[i]
    BY <1>0, <2>2, <2>4, AppendProperties, LenProperties
  <2>8. ASSUME NEW i \in DOMAIN log', NEW j \in DOMAIN log', i < j, log'[i] > log'[j]
        PROVE  \E d \in gone' : log'[j] \in ToSet(cargo'[d])
    <3>1. i \in DOMAIN log /\ log'[i] = log[i]
      BY <1>0, <2>7, <2>8
    <3>2. CASE j \in DOMAIN log
      <4>1. log[i] > log[j]
        BY <2>7, <2>8, <3>1, <3>2
      <4>2. PICK d \in gone : log[j] \in ToSet(cargo[d])
        BY <2>8, <3>1, <3>2, <4>1 DEF InOrder
      <4>. QED  BY <2>7, <3>2, <4>2
    <3>3. CASE j = Len(log) + 1
      <4>1. log[i] > e /\ log[i] \in ToSet(log) /\ log[i] \in Event
        BY <1>0, <2>7, <2>8, <3>1, <3>3, ElementOfSeq DEF ToSet
      <4>2. c \in gone
        BY <2>4, <2>6, <4>1 DEF Event
      <4>. QED  BY <2>2, <2>5, <2>7, <3>3, <4>2
    <3>. QED  BY <1>0, <2>7, <3>2, <3>3
  <2>. QED  BY <2>8 DEF InOrder
<1>4. CASE SpoolerStep(Restart)
  <2>1. PICK n \in read..Len(log) : log' = SubSeq(log, 1, n)
    BY <1>4 DEF SpoolerStep, Restart
  <2>2. n \in 0..Len(log)
    BY <1>0
  <2>3. DOMAIN log' = 1..n /\ \A i \in 1..n : log'[i] = log[i]
    BY <1>0, <2>1, <2>2, SeqFacts, LenProperties
  <2>. QED  BY <1>0, <1>1, <2>2, <2>3
<1>5. \/ log' = log
      \/ \E c \in Call : SpoolerStep(Publish(c)) /\ log' # log
      \/ SpoolerStep(Restart)
  <2>1. CASE InputStep(InputWork \/ InputStop)
    BY <2>1 DEF InputStep, spoolerVars, queueVars
  <2>2. CASE HopStep(\E c \in Call : ProcessNext(c) \/ Cut(c))
    BY <2>2 DEF HopStep, spoolerVars, queueVars
  <2>3. CASE SpoolerStep(Intake)
    BY <2>3 DEF SpoolerStep, Intake, ReceiveNext, spoolerVars, queueVars
  <2>4. CASE SpoolerStep(Get \/ Offer \/ Close)
    BY <2>4 DEF SpoolerStep, Get, Offer, Close, queueVars
  <2>5. CASE SpoolerStep(Restart)
    BY <2>5
  <2>. QED  BY <2>1, <2>2, <2>3, <2>4, <2>5 DEF Next, SpoolerStep, SpoolerWork
<1>. QED  BY <1>2, <1>3, <1>4, <1>5

LEMMA InitOrder == Init => OrderInv /\ InOrder
<1> SUFFICES ASSUME Init PROVE OrderInv /\ InOrder  OBVIOUS
<1>1. /\ batch = <<>> /\ log = <<>> /\ \A c \in Call : cargo[c] = <<>> /\ at[c] = "none"
  BY DEF Init, HopInit, InputInit, SpoolerInit
<1>2. ToSet(<<>>) = {} /\ Rising(<<>>) /\ DOMAIN log = {}
  BY <1>1 DEF ToSet, Rising
<1>. QED  BY <1>1, <1>2 DEF OrderInv, Before, AtRest, InOrder

LEMMA NextOrder ==
  ASSUME IInv, OrderInv, InOrder, [Next]_vars
  PROVE  OrderInv' /\ InOrder'
<1>0. Types /\ DistinctInv
  BY DEF IInv
<1>1. CASE InputStep(InputWork \/ InputStop)
  <2>1. OrderInv'
    BY <1>0, <1>1, InputOrder
  <2>2. \A d \in gone : d \in gone' /\ cargo'[d] = cargo[d]
    <3>0. cargo \in [Call -> Seq(Event)] /\ gone \subseteq {d \in Call : at[d] # "none"}
          /\ call \in Nat /\ \A d \in Call : d \in Nat /\ (at[d] = "none" <=> d > call)
      BY <1>0 DEF Types, TypeOK, HopTypeOK, InputTypeOK, InputInv, Call
    <3>1. CASE HandOver
      <4>1. gone \subseteq gone' /\ cargo' = [cargo EXCEPT ![call + 1] = batch]
        BY <3>1 DEF HandOver, Send
      <4>2. call + 1 \notin gone
        BY <3>0
      <4>. QED  BY <3>0, <4>1, <4>2
    <3>2. CASE MakeEvent \/ SeeCancelled \/ SendReturns \/ PusherEnds \/ InputStop
      BY <3>2 DEF MakeEvent, SeeCancelled, SendReturns, PusherEnds, InputStop, hopVars
    <3>. QED  BY <1>1, <3>1, <3>2 DEF InputStep, InputWork
  <2>3. InOrder'
    BY <1>1, <2>2, LogOrder DEF Next
  <2>. QED  BY <2>1, <2>3
<1>2. CASE HopStep(\E c \in Call : ProcessNext(c) \/ Cut(c))
  <2>1. PICK c \in Call : HopStep(ProcessNext(c) \/ Cut(c))
    BY <1>2 DEF HopStep
  <2>2. OrderInv' /\ \A d \in gone : d \in gone' /\ cargo'[d] = cargo[d]
    BY <1>0, <2>1, ProcessOrder
  <2>. QED  BY <1>2, <2>2, LogOrder DEF Next
<1>3. CASE SpoolerStep(SpoolerWork \/ Close \/ Restart)
  <2>1. OrderInv' /\ cargo' = cargo /\ gone \subseteq gone'
    BY <1>0, <1>3, SpoolerOrder
  <2>. QED  BY <1>3, <2>1, LogOrder DEF Next
<1>4. CASE UNCHANGED vars
  BY <1>4 DEF vars, hopVars, inputVars, spoolerVars, queueVars, OrderInv, AtRest, InOrder
<1>. QED  BY <1>1, <1>2, <1>3, <1>4 DEF Next

\* What is spooled out of order belongs to a call that was cut: as long as no
\* connection breaks and nobody stops, the log is in the order of the input,
\* for any sizes and restarts.  (spooler.go 77-92)
THEOREM DeliveryInOrder == Spec => []InOrder
BY InitOrder, NextOrder, DeliveryInvariant, PTL DEF Spec
-----------------------------------------------------------------------------
(* Custody.  Every step of input, processor, spooler and output is a step  *)
(* of it, or changes nothing it speaks of.                                 *)

\* What was lost had been taken.
LostInv == \A e \in lost : \E c \in Call : e \in spooled[c]

CustodyInv == IInv /\ LostInv

LEMMA NextLost == CustodyInv /\ [Next]_vars => CustodyInv'
<1> SUFFICES ASSUME CustodyInv, [Next]_vars PROVE LostInv'
  BY NextIInv DEF CustodyInv
<1>0. /\ log \in Seq(Event) /\ Len(log) \in Nat /\ read \in 0..Len(log)
      /\ spooled \in [Call -> SUBSET Event] /\ DOMAIN log = 1..Len(log)
  BY SeqFacts, LenProperties DEF CustodyInv, IInv, Types, TypeOK, HopTypeOK, SpoolerTypeOK
<1>1. CASE Restart
  <2>1. /\ spooled' = spooled
        /\ \E n \in read..Len(log) : lost' = lost \cup {log[i] : i \in (n + 1)..Len(log)}
    BY <1>1 DEF Restart
  <2>2. lost' \subseteq lost \cup ToSet(log)
    BY <1>0, <2>1 DEF ToSet
  <2>. QED  BY <2>1, <2>2 DEF CustodyInv, LostInv, IInv, HandledInv
<1>2. CASE UNCHANGED <<lost, spooled>>
  BY <1>2 DEF CustodyInv, LostInv
<1>3. ASSUME NEW c \in Call, Publish(c) PROVE LostInv'
  <2>1. lost' = lost /\ \A d \in Call : spooled[d] \subseteq spooled'[d]
    BY <1>0, <1>3 DEF Publish
  <2>. QED  BY <2>1 DEF CustodyInv, LostInv
<1>. QED
  BY <1>1, <1>2, <1>3 DEF Next, InputStep, HopStep, SpoolerStep, InputWork, InputStop,
     MakeEvent, SeeCancelled, HandOver, Send, SendReturns, PusherEnds, ProcessNext, Cut,
     SpoolerWork, Intake, ReceiveNext, Get, Offer, Close, hopVars, spoolerVars, queueVars,
     vars

LEMMA CustodyInvariant == Spec => []CustodyInv
<1>1. Init => CustodyInv
  BY InitIInv DEF Init, SpoolerInit, CustodyInv, LostInv
<1>. QED  BY <1>1, NextLost, PTL DEF Spec

\* What a step of the others leaves alone.
Spooled == <<log, freed, lost, created, refused>>

LEMMA InputKeepsCustody ==
  ASSUME CustodyInv, InputStep(InputWork \/ InputStop)
  PROVE  [Keeps!Next]_(Keeps!vars)
<1>0. /\ HopTypeOK /\ InputTypeOK /\ InputInv
      /\ UNCHANGED Spooled /\ spooled' = spooled
  BY DEF CustodyInv, IInv, Types, TypeOK, InputStep, InputWork, InputStop, MakeEvent,
         SeeCancelled, HandOver, Send, SendReturns, PusherEnds, hopVars, spoolerVars,
         queueVars, outputVars, Spooled
<1>1. ASSUME NEW c \in Call PROVE Succeeded(c)' <=> Succeeded(c)
  <2>1. CASE UNCHANGED hopVars
    BY <2>1 DEF hopVars, Succeeded
  <2>2. CASE InputStop
    BY <1>0, <2>2 DEF InputStop, Succeeded, InputTypeOK
  <2>3. CASE HandOver
    <3>1. call + 1 \in Call /\ at[call + 1] = "none"
      <4>1. call + 1 \in Call
        BY <1>0, <2>3, InputTypes DEF HandOver, InputInv, InputTypeOK, Call
      <4>. QED  BY <1>0, <4>1 DEF InputInv, InputTypeOK, Call
    <3>2. /\ at' = [at EXCEPT ![call + 1] = "processor"]
          /\ gone' = gone \/ gone' = gone \cup {call + 1}
      BY <2>3 DEF HandOver, Send
    <3>. QED  BY <1>0, <3>1, <3>2 DEF Succeeded, HopTypeOK
  <2>. QED
    BY <2>1, <2>2, <2>3 DEF InputStep, InputWork, MakeEvent, SeeCancelled, SendReturns,
       PusherEnds
<1>2. Reported' = Reported /\ Held' = Held
  BY <1>0, <1>1 DEF Reported, Held, Spooled
<1>3. CASE MakeEvent
  <2>1. made + 1 \in Event /\ made \in Nat /\ made' = made + 1
    BY <1>0, <1>3 DEF MakeEvent, InputTypeOK, Event
  <2>2. 1..made' = (1..made) \cup {made + 1} /\ made + 1 \notin 1..made
    BY <2>1
  <2>3. Keeps!Make
    BY <1>0, <1>2, <2>1, <2>2 DEF Keeps!Make, Spooled
  <2>. QED  BY <2>3 DEF Keeps!Next
<1>4. CASE UNCHANGED made
  BY <1>0, <1>2, <1>4 DEF Keeps!vars, Spooled
<1>. QED
  BY <1>3, <1>4 DEF InputStep, InputWork, InputStop, SeeCancelled, HandOver, SendReturns,
     PusherEnds

\* A call that is over and succeeded tells of what was taken.
LEMMA CallKeepsCustody ==
  ASSUME CustodyInv, UNCHANGED inputVars, UNCHANGED Spooled, spooled' = spooled,
         \A c \in Call : Succeeded(c)' => Succeeded(c) \/ spooled[c] \subseteq ToSet(log) \cup lost,
         \A c \in Call : Succeeded(c) => Succeeded(c)'
  PROVE  [Keeps!Next]_(Keeps!vars)
<1>1. Reported \subseteq Reported' /\ Reported' \subseteq Reported \cup (ToSet(log) \cup lost)
  BY DEF Reported
<1>2. Reported' = Reported \cup (Reported' \ Reported)
      /\ Reported' \ Reported \in SUBSET (ToSet(log) \cup lost)
  BY <1>1
<1>3. Held' = Held
  BY DEF Held, Spooled
<1>4. Keeps!Report
  BY <1>2, <1>3 DEF Keeps!Report, Spooled, inputVars
<1>. QED  BY <1>4 DEF Keeps!Next

LEMMA HopKeepsCustody ==
  ASSUME CustodyInv, NEW c \in Call, HopStep(ProcessNext(c) \/ Cut(c)) \/ SpoolerStep(ReceiveNext(c))
  PROVE  [Keeps!Next]_(Keeps!vars)
<1>1. HopTypeOK /\ Kept
  BY DEF CustodyInv, IInv, Types, TypeOK
<1>2. UNCHANGED inputVars /\ UNCHANGED Spooled /\ spooled' = spooled
  BY DEF HopStep, SpoolerStep, ProcessNext, Cut, ReceiveNext, Spooled, spoolerVars, queueVars,
         outputVars
<1>3. \A d \in Call : Succeeded(d) => Succeeded(d)'
  BY <1>1 DEF HopStep, SpoolerStep, ProcessNext, Cut, ReceiveNext, Succeeded, HopTypeOK
<1>. QED  BY <1>1, <1>2, <1>3, CallKeepsCustody DEF Kept

LEMMA PublishKeepsCustody ==
  ASSUME CustodyInv, NEW c \in Call, Publish(c), UNCHANGED inputVars
  PROVE  [Keeps!Next]_(Keeps!vars)
<1> DEFINE e == cargo[c][handled[c] + 1]
<1>0. /\ HopTypeOK /\ log \in Seq(Event) /\ freed \in 0..Len(log) /\ Len(log) \in Nat
  BY SeqFacts DEF CustodyInv, IInv, Types, TypeOK, SpoolerTypeOK
<1>1. e \in Event /\ e \in 1..made /\ \A d \in Call : e \notin spooled[d]
  BY PublishesNew DEF CustodyInv, IInv
<1>2. UNCHANGED <<freed, lost, created, refused, made>>
  BY DEF Publish, outputVars, inputVars
<1>3. Reported' = Reported
  <2>1. \A d \in Call : /\ Succeeded(d)' <=> Succeeded(d)
                        /\ Succeeded(d) => spooled'[d] = spooled[d]
    BY <1>0 DEF Publish, Succeeded, HopTypeOK
  <2>. QED  BY <2>1 DEF Reported
<1>4. CASE running
  <2>1. log' = Append(log, e)
    BY <1>4 DEF Publish
  <2>2. /\ Len(log') = Len(log) + 1 /\ log'[Len(log) + 1] = e
        /\ \A i \in 1..Len(log) : log'[i] = log[i]
    BY <1>0, <1>1, <2>1, AppendProperties
  <2>3. ToSet(log') = ToSet(log) \cup {e}
    BY <1>0, <1>1, <2>1, OnceAppend
  <2>4. Held' = Held \cup {e}
    <3>1. (freed + 1)..Len(log') = ((freed + 1)..Len(log)) \cup {Len(log) + 1}
      BY <1>0, <2>2
    <3>2. \A i \in (freed + 1)..Len(log) : log'[i] = log[i]
      BY <1>0, <2>2
    <3>. QED  BY <1>2, <2>2, <3>1, <3>2 DEF Held
  <2>5. e \notin ToSet(log) \cup lost
    BY <1>1 DEF CustodyInv, LostInv, IInv, HandledInv
  <2>6. Keeps!Take
    BY <1>1, <1>2, <1>3, <2>3, <2>4, <2>5 DEF Keeps!Take
  <2>. QED  BY <2>6 DEF Keeps!Next
<1>5. CASE ~running
  BY <1>2, <1>3, <1>5 DEF Publish, Held, Keeps!vars
<1>. QED  BY <1>4, <1>5

\* What is not after f is up to f.
LEMMA Between ==
  \A k, f, n \in Nat : \A i \in (k + 1)..n : i \notin (f + 1)..n => i \in 1..f
OBVIOUS

LEMMA OfferKeepsCustody ==
  ASSUME CustodyInv, Offer, UNCHANGED inputVars
  PROVE  [Keeps!Next]_(Keeps!vars)
<1>0. /\ log \in Seq(Event) /\ Len(log) \in Nat /\ read \in 0..Len(log) /\ freed \in 0..read
      /\ from \in (freed + 1)..read /\ acked \subseteq 1..read
      /\ 1..freed \subseteq acked /\ \A i \in acked : log[i] \in Created \cup refused
      /\ \A i \in 1..Len(log) : log[i] \in Event
      /\ OutputTypeOK /\ CreatedOnce
  BY SeqFacts DEF Offer, CustodyInv, IInv, AckInv, Types, TypeOK, SpoolerTypeOK
<1>1. UNCHANGED <<log, lost, made>> /\ Reported' = Reported
  BY DEF Offer, hopVars, inputVars, Reported, Succeeded
<1>2. Taking \subseteq Held
  <2>1. from..read \subseteq (freed + 1)..Len(log)
    BY <1>0
  <2>. QED  BY <2>1 DEF Taking, Held
<1>3. CASE UNCHANGED <<created, refused, freed>>
  BY <1>1, <1>3 DEF Held, Keeps!vars
<1>4. ASSUME NEW new \in SUBSET Taking, Bulk(Taking, new),
             \/ Unanswered /\ UNCHANGED refused
             \/ Settled(Taking, new) /\ Left(Taking, new)
      PROVE  Keeps!Answer
  <2>1. /\ new \in SUBSET {e \in Held : created[e] = 0}
        /\ created' = [e \in Event |-> IF e \in new THEN 1 ELSE created[e]]
    <3>1. \A e \in new : created[e] = 0
      BY <1>4 DEF Bulk, Creatable
    <3>. QED  BY <1>2, <1>4, <3>1 DEF Bulk
  <2>2. PICK left \in SUBSET Taking : refused' = refused \cup left
    <3>1. CASE UNCHANGED refused
      <4>1. {} \in SUBSET Taking /\ refused' = refused \cup {}
        BY <3>1
      <4>. QED  BY <4>1
    <3>2. CASE Left(Taking, new)
      <4>1. Taking \ new \in SUBSET Taking /\ refused' = refused \cup (Taking \ new)
        BY <3>2 DEF Left
      <4>. QED  BY <4>1
    <3>. QED  BY <1>4, <3>1, <3>2
  <2>3. left \in SUBSET Held
    BY <1>2, <2>2
  <2>4. /\ freed' \in freed..read
        /\ \A i \in 1..freed' : log[i] \in Created' \cup refused'
    <3>1. CASE UNCHANGED <<acked, freed>>
      <4>1. Created \subseteq Created'
        BY <1>0, <2>1 DEF Created, OutputTypeOK
      <4>. QED  BY <1>0, <2>2, <3>1, <4>1
    <3>2. CASE Ack /\ Left(Taking, new)
      <4>1. PICK n \in 0..read : /\ 1..n \subseteq acked' /\ n + 1 \notin acked' /\ freed' = n
                                 /\ acked' = acked \cup (from..read)
        BY <3>2 DEF Ack, Frees
      <4>2. n >= freed
        BY <1>0, <4>1
      <4>3. Created' = Created \cup new
        <5>1. Taking \in SUBSET Event
          BY <1>0, <1>2 DEF Held
        <5>. QED  BY <1>0, <1>4, <5>1, BulkCreates
      <4>4. \A i \in from..read : log[i] \in Created' \cup refused'
        BY <3>2, <4>3 DEF Taking, Left
      <4>5. \A i \in acked' : log[i] \in Created' \cup refused'
        BY <1>0, <2>2, <4>1, <4>3, <4>4
      <4>. QED  BY <1>0, <4>1, <4>2, <4>5
    <3>. QED  BY <1>4, <3>1, <3>2 DEF Unanswered, Settled, NoAck
  <2>5. Held' \in SUBSET Held
    <3>1. (freed' + 1)..Len(log) \subseteq (freed + 1)..Len(log)
      BY <1>0, <2>4
    <3>. QED  BY <1>1, <3>1 DEF Held
  <2>6. ASSUME NEW e \in Held \ Held' PROVE created'[e] = 1 \/ e \in refused'
    <3>1. PICK i \in (freed + 1)..Len(log) : e = log[i]
      BY <2>6 DEF Held
    <3>2. i \notin (freed' + 1)..Len(log')
      BY <1>1, <2>6, <3>1 DEF Held
    <3>3. i \in 1..freed'
      <4>1. freed \in Nat /\ freed' \in Nat /\ Len(log) \in Nat /\ Len(log') = Len(log)
        BY <1>0, <1>1, <2>4
      <4>. QED  BY <3>2, <4>1, Between
    <3>4. e \in Created' => created'[e] = 1
      BY <1>0, <2>1 DEF Created, CreatedOnce, OutputTypeOK
    <3>. QED  BY <2>4, <3>1, <3>3, <3>4
  <2>. QED
    BY <1>1, <2>1, <2>2, <2>3, <2>5, <2>6 DEF Keeps!Answer
<1>5. Offer => \/ UNCHANGED <<created, refused, freed>>
               \/ \E new \in SUBSET Taking :
                    /\ Bulk(Taking, new)
                    /\ \/ Unanswered /\ UNCHANGED refused
                       \/ Settled(Taking, new) /\ Left(Taking, new)
  BY DEF Offer, Unanswered, NoAck, outputVars
<1>. QED  BY <1>3, <1>4, <1>5 DEF Keeps!Next

LEMMA RestartKeepsCustody ==
  ASSUME CustodyInv, Restart, UNCHANGED inputVars
  PROVE  [Keeps!Next]_(Keeps!vars)
<1>0. /\ log \in Seq(Event) /\ Len(log) \in Nat /\ read \in 0..Len(log) /\ freed \in 0..read
      /\ DOMAIN log = 1..Len(log) /\ Once(log) /\ HopTypeOK
  BY SeqFacts, LenProperties DEF CustodyInv, IInv, Types, TypeOK, SpoolerTypeOK, HandledInv
<1>1. PICK n \in read..Len(log) : /\ log' = SubSeq(log, 1, n)
                                  /\ lost' = lost \cup {log[i] : i \in (n + 1)..Len(log)}
  BY DEF Restart
<1> DEFINE L == {log[i] : i \in (n + 1)..Len(log)}
<1>2. /\ log' \in Seq(Event) /\ Len(log') = n /\ DOMAIN log' = 1..n
      /\ \A i \in 1..n : log'[i] = log[i]
  BY <1>0, <1>1, SeqFacts, LenProperties
<1>3. UNCHANGED <<freed, created, refused, made>>
  BY DEF Restart, outputVars, inputVars
<1>4. Reported' = Reported
  <2>1. spooled' = spooled
    BY DEF Restart
  <2>2. \A c \in Call : Succeeded(c)' <=> Succeeded(c)
    BY <1>0 DEF Restart, Succeeded, InSpooler, HopTypeOK
  <2>. QED  BY <2>1, <2>2 DEF Reported
<1>5. ToSet(log') \cup lost' = ToSet(log) \cup lost
  <2>1. \A i \in 1..Len(log) : i \in 1..n \/ i \in (n + 1)..Len(log)
    BY <1>0
  <2>2. 1..n \subseteq 1..Len(log) /\ (n + 1)..Len(log) \subseteq 1..Len(log)
    BY <1>0
  <2>. QED  BY <1>0, <1>1, <1>2, <2>1, <2>2 DEF ToSet
<1>6. L \in SUBSET Held
  BY <1>0 DEF Held
<1>7. Held' = Held \ L
  <2>1. Held' = {log[i] : i \in (freed + 1)..n}
    BY <1>0, <1>2, <1>3 DEF Held
  <2>2. ASSUME NEW i \in (freed + 1)..n, NEW j \in (n + 1)..Len(log)  PROVE log[i] # log[j]
    <3>1. i \in 1..Len(log) /\ j \in 1..Len(log) /\ i # j
      BY <1>0
    <3>. QED  BY <1>0, <3>1 DEF Once
  <2>3. (freed + 1)..Len(log) = ((freed + 1)..n) \cup ((n + 1)..Len(log))
    BY <1>0
  <2>. QED  BY <2>1, <2>2, <2>3 DEF Held
<1>8. Keeps!Lose
  BY <1>1, <1>3, <1>4, <1>5, <1>6, <1>7 DEF Keeps!Lose
<1>. QED  BY <1>8 DEF Keeps!Next

\* The pipeline implements Custody, for any number of events, sizes of batches
\* and queue, and restarts: an event is taken once, offered only while it is
\* held, has one document at most, and is let go when it has one, was left out
\* of an answer or is lost. (input.go 113-119, spooler.go 76-92 and 132-144,
\* docs.go 56-64)
THEOREM DeliveryKeepsCustody == Spec => KeepsCustody
<1>1. Init => Keeps!Init
  <2> SUFFICES ASSUME Init PROVE Keeps!Init  OBVIOUS
  <2>1. log = <<>> /\ freed = 0 /\ lost = {} /\ made = 0 /\ refused = {}
    BY DEF Init, SpoolerInit, InputInit, OutputInit
  <2>2. ToSet(log) = {} /\ Held = {} /\ 1..made = {}
    BY <2>1 DEF ToSet, Held
  <2>3. Reported = {}
    BY DEF Init, HopInit, Reported
  <2>. QED  BY <2>1, <2>2, <2>3 DEF Keeps!Init, Init, OutputInit
<1>2. CustodyInv /\ [Next]_vars => [Keeps!Next]_(Keeps!vars)
  <2> SUFFICES ASSUME CustodyInv, [Next]_vars PROVE [Keeps!Next]_(Keeps!vars)
    OBVIOUS
  <2>1. CASE InputStep(InputWork \/ InputStop)
    BY <2>1, InputKeepsCustody
  <2>2. ASSUME NEW c \in Call,
               HopStep(ProcessNext(c) \/ Cut(c)) \/ SpoolerStep(ReceiveNext(c))
        PROVE  [Keeps!Next]_(Keeps!vars)
    BY <2>2, HopKeepsCustody
  <2>3. CASE SpoolerStep(Intake)
    BY <2>2, <2>3, PublishKeepsCustody DEF SpoolerStep, Intake
  <2>4. CASE SpoolerStep(Offer)
    BY <2>4, OfferKeepsCustody DEF SpoolerStep
  <2>5. CASE SpoolerStep(Restart)
    BY <2>5, RestartKeepsCustody DEF SpoolerStep
  <2>6. CASE UNCHANGED <<made, hopVars, Spooled>>
    BY <2>6 DEF hopVars, Spooled, Held, Reported, Succeeded, Keeps!vars
  <2>7. CASE SpoolerStep(Get \/ Close) \/ UNCHANGED vars
    BY <2>6, <2>7 DEF SpoolerStep, Get, Close, Spooled, spoolerVars, queueVars, outputVars,
       inputVars, vars
  <2>8. CASE HopStep(\E c \in Call : ProcessNext(c) \/ Cut(c))
    BY <2>2, <2>8 DEF HopStep
  <2>. QED
    BY <2>1, <2>3, <2>4, <2>5, <2>7, <2>8 DEF Next, SpoolerStep, SpoolerWork
<1>. QED  BY <1>1, <1>2, CustodyInvariant, PTL DEF Spec, KeepsCustody, Keeps!Spec
=============================================================================
