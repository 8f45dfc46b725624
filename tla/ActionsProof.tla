---------------------------- MODULE ActionsProof ----------------------------
(***************************************************************************)
(* The Actions streams, for any number of calls and streams and any        *)
(* capacity.  The server answers every caller of PerformAction at most     *)
(* once, whatever the client and the network do.  With the client: one     *)
(* stream at a time serves, an action is executed at most once, no answer  *)
(* is dropped while its caller waits, and the protocol implements          *)
(* ActionCall.                                                             *)
(***************************************************************************)
EXTENDS Actions, SequenceTheorems, TLAPS

-----------------------------------------------------------------------------
(* What pushing to and popping from a channel does to its elements.        *)

LEMMA AppendElements ==
  ASSUME NEW S, NEW q \in Seq(S), NEW c \in S
  PROVE  /\ Append(q, c) \in Seq(S)
         /\ Elements(Append(q, c)) = Elements(q) \cup {c}
         /\ NoRepeat(q) /\ c \notin Elements(q) => NoRepeat(Append(q, c))
<1>1. /\ Append(q, c) \in Seq(S)
      /\ Len(q) \in Nat /\ Len(Append(q, c)) = Len(q) + 1
      /\ DOMAIN q = 1..Len(q) /\ DOMAIN Append(q, c) = 1..(Len(q) + 1)
      /\ \A i \in 1..Len(q) : Append(q, c)[i] = q[i]
      /\ Append(q, c)[Len(q) + 1] = c
  BY AppendProperties, LenProperties
<1>2. Elements(Append(q, c)) = Elements(q) \cup {c}
  <2>1. ASSUME NEW x \in Elements(Append(q, c)) PROVE x \in Elements(q) \cup {c}
    BY <1>1 DEF Elements
  <2>2. ASSUME NEW x \in Elements(q) PROVE x \in Elements(Append(q, c))
    BY <1>1 DEF Elements
  <2>3. c \in Elements(Append(q, c))
    BY <1>1 DEF Elements
  <2>4. QED  BY <2>1, <2>2, <2>3
<1>3. ASSUME NoRepeat(q), c \notin Elements(q) PROVE NoRepeat(Append(q, c))
  BY <1>1, <1>3 DEF NoRepeat, Elements
<1>4. QED  BY <1>1, <1>2, <1>3

LEMMA TailElements ==
  ASSUME NEW S, NEW q \in Seq(S), q # <<>>
  PROVE  /\ Tail(q) \in Seq(S) /\ Head(q) \in S
         /\ Elements(q) = {Head(q)} \cup Elements(Tail(q))
         /\ NoRepeat(q) => Head(q) \notin Elements(Tail(q)) /\ NoRepeat(Tail(q))
<1>1. /\ Tail(q) \in Seq(S) /\ Head(q) \in S /\ Head(q) = q[1]
      /\ Len(q) \in Nat \ {0} /\ Len(Tail(q)) = Len(q) - 1
      /\ DOMAIN q = 1..Len(q) /\ DOMAIN Tail(q) = 1..(Len(q) - 1)
      /\ \A i \in 1..(Len(q) - 1) : Tail(q)[i] = q[i + 1]
  BY HeadTailProperties, LenProperties, EmptySeq
<1>2. Elements(q) = {Head(q)} \cup Elements(Tail(q))
  <2>1. ASSUME NEW i \in DOMAIN q PROVE q[i] \in {Head(q)} \cup Elements(Tail(q))
    <3>1. CASE i = 1  BY <3>1, <1>1
    <3>2. CASE i # 1
      <4>1. i - 1 \in 1..(Len(q) - 1) /\ Tail(q)[i - 1] = q[i]
        BY <1>1, <3>2
      <4>2. QED  BY <4>1, <1>1 DEF Elements
    <3>3. QED  BY <3>1, <3>2
  <2>2. ASSUME NEW i \in DOMAIN Tail(q) PROVE Tail(q)[i] \in Elements(q)
    BY <1>1 DEF Elements
  <2>3. Head(q) \in Elements(q)
    BY <1>1 DEF Elements
  <2>4. QED  BY <2>1, <2>2, <2>3 DEF Elements
<1>3. ASSUME NoRepeat(q) PROVE Head(q) \notin Elements(Tail(q)) /\ NoRepeat(Tail(q))
  <2>1. \A i \in DOMAIN Tail(q) : Tail(q)[i] # Head(q)
    BY <1>1, <1>3 DEF NoRepeat
  <2>2. NoRepeat(Tail(q))
    BY <1>1, <1>3 DEF NoRepeat
  <2>3. QED  BY <2>1, <2>2 DEF Elements
<1>4. QED  BY <1>1, <1>2, <1>3

-----------------------------------------------------------------------------
(* The inductive invariant.                                                *)

CoreTypeOK ==
  /\ pendingActions \in Seq(Call) /\ wdHand \in Seq(Call)
  /\ sentActions \in SUBSET Call
  /\ call \in [Call -> {"idle", "pushing", "waiting", "done"}]
  /\ answers \in [Call -> Nat]
  /\ handler \in [Stream -> {"idle", "await", "found", "serving", "closed"}]
  /\ sender \in [Stream -> {"off", "select", "holding", "sent", "requeue", "done"}]
  /\ hand \in [Stream -> Call \cup {None}]

\* A sender holds an action from the channel operation that gave it one to
\* the one that puts it somewhere else, and does not run before it is started.
HandFits ==
  \A s \in Stream :
    /\ hand[s] # None <=> sender[s] \in {"holding", "sent", "requeue"}
    /\ handler[s] \in {"idle", "await", "found"} => sender[s] = "off"

AnswerCount ==
  \A c \in Call : answers[c] <= 1 /\ (call[c] # "done" => answers[c] = 0)

ServerInv == CoreTypeOK /\ HandFits /\ HeldOnce /\ AnswerCount

coreVars == <<pendingActions, wdHand, sentActions, call, answers, handler, sender, hand>>

\* Answering calls that wait counts each of them once.
LEMMA CallbackOnce ==
  ASSUME CoreTypeOK, AnswerCount, NEW C \in SUBSET Call, NEW r, Callback(C, r),
         \A c \in C : call[c] = "waiting"
  PROVE  /\ AnswerCount'
         /\ call' \in [Call -> {"idle", "pushing", "waiting", "done"}]
         /\ answers' \in [Call -> Nat]
         /\ \A c \in Call : call'[c] = IF c \in C THEN "done" ELSE call[c]
<1>1. /\ call' = [c \in Call |-> IF c \in C THEN "done" ELSE call[c]]
      /\ answers' = [c \in Call |-> IF c \in C THEN answers[c] + 1 ELSE answers[c]]
  BY DEF Callback
<1>2. \A c \in Call : answers'[c] <= 1 /\ (call'[c] # "done" => answers'[c] = 0)
  BY <1>1 DEF CoreTypeOK, AnswerCount
<1>3. QED  BY <1>1, <1>2 DEF CoreTypeOK, AnswerCount

LEMMA InitInv == ServerInit => ServerInv
<1> SUFFICES ASSUME ServerInit PROVE ServerInv
  OBVIOUS
<1>1. CoreTypeOK
  BY DEF ServerInit, CoreTypeOK
<1>2. HandFits
  BY DEF ServerInit, HandFits
<1>3. HeldOnce
  BY DEF ServerInit, HeldOnce, NoRepeat, Elements, InHand
<1>4. AnswerCount
  <2>1. ASSUME NEW c \in Call PROVE answers[c] <= 1 /\ answers[c] = 0
    <3>1. answers[c] = 0
      BY DEF ServerInit
    <3>2. QED  BY <3>1
  <2>2. QED  BY <2>1 DEF AnswerCount
<1>5. QED  BY <1>1, <1>2, <1>3, <1>4 DEF ServerInv

\* A step that leaves alone where actions are and who waits for them.
LEMMA QuietStep ==
  ASSUME ServerInv,
         UNCHANGED <<pendingActions, wdHand, sentActions, call, answers, hand>>,
         handler' \in [Stream -> {"idle", "await", "found", "serving", "closed"}],
         sender' \in [Stream -> {"off", "select", "holding", "sent", "requeue", "done"}],
         HandFits'
  PROVE  ServerInv'
<1>1. CoreTypeOK'
  BY DEF ServerInv, CoreTypeOK
<1>2. HeldOnce'
  BY DEF ServerInv, HeldOnce, InHand
<1>3. AnswerCount'
  BY DEF ServerInv, AnswerCount
<1>4. QED  BY <1>1, <1>2, <1>3 DEF ServerInv

-----------------------------------------------------------------------------
(* One lemma per goroutine.                                                *)

LEMMA CallerInv ==
  ASSUME ServerInv, NEW c \in Call, CallerStep(c)
  PROVE  ServerInv'
<1> USE DEF ServerInv
<1>1. CASE PerformActionBegin(c)
  <2>1. /\ call[c] = "idle"
        /\ \/ call' = [call EXCEPT ![c] = "pushing"]
           \/ call' = [call EXCEPT ![c] = "done"]
        /\ UNCHANGED <<pendingActions, wdHand, sentActions, answers, handler, sender, hand>>
    BY <1>1 DEF PerformActionBegin, handlerVars, wdVars
  <2>2. CoreTypeOK' /\ HandFits' /\ AnswerCount'
    BY <2>1 DEF CoreTypeOK, HandFits, AnswerCount
  <2>3. \A d \in Call : call'[d] = "waiting" <=> call[d] = "waiting"
    BY <2>1 DEF CoreTypeOK
  <2>4. HeldOnce'
    BY <2>1, <2>3 DEF HeldOnce, InHand
  <2>5. QED  BY <2>2, <2>4
<1>2. CASE PerformActionPush(c)
  <2>1. /\ call[c] = "pushing" /\ call' = [call EXCEPT ![c] = "waiting"]
        /\ pendingActions' = Append(pendingActions, c)
        /\ UNCHANGED <<wdHand, sentActions, answers, handler, sender, hand>>
    BY <1>2 DEF PerformActionPush, Pushed, handlerVars, wdVars
  <2>2. c \notin Elements(pendingActions) \cup Elements(wdHand) \cup sentActions \cup InHand
    BY <2>1 DEF HeldOnce
  <2>3. /\ pendingActions' \in Seq(Call) /\ NoRepeat(pendingActions')
        /\ Elements(pendingActions') = Elements(pendingActions) \cup {c}
    BY <2>1, <2>2, AppendElements DEF CoreTypeOK, HeldOnce
  <2>4. CoreTypeOK' /\ HandFits' /\ AnswerCount'
    BY <2>1, <2>3 DEF CoreTypeOK, HandFits, AnswerCount
  <2>5. \A d \in Call : call'[d] = "waiting" <=> call[d] = "waiting" \/ d = c
    BY <2>1 DEF CoreTypeOK
  <2>6. InHand' = InHand /\ Elements(wdHand') = Elements(wdHand) /\ NoRepeat(wdHand')
    BY <2>1 DEF InHand, HeldOnce
  <2>7. HeldOnce'
    BY <2>1, <2>2, <2>3, <2>5, <2>6 DEF HeldOnce
  <2>8. QED  BY <2>4, <2>7
<1>3. CASE Expire(c)
  BY <1>3, QuietStep DEF Expire, callVars, handlerVars, wdVars, CoreTypeOK, HandFits
<1>4. QED  BY <1>1, <1>2, <1>3 DEF CallerStep

LEMMA HandlerInv ==
  ASSUME ServerInv, NEW s \in Stream, HandlerStep(s) \/ FirstRecv(s)
  PROVE  ServerInv'
<1>1. UNCHANGED <<pendingActions, wdHand, sentActions, call, answers, hand>>
  BY DEF HandlerStep, HandlerStart, HandlerFirst, HandlerGiveUp, HandlerConnect,
         HandlerReturn, FirstRecv, callVars, wdVars
<1>2. /\ handler' \in [Stream -> {"idle", "await", "found", "serving", "closed"}]
      /\ sender' \in [Stream -> {"off", "select", "holding", "sent", "requeue", "done"}]
  BY DEF ServerInv, CoreTypeOK, HandlerStep, HandlerStart, HandlerFirst,
         HandlerGiveUp, HandlerConnect, HandlerReturn, FirstRecv
<1>3. HandFits'
  BY <1>1 DEF ServerInv, CoreTypeOK, HandFits, HandlerStep, HandlerStart, HandlerFirst,
         HandlerGiveUp, HandlerConnect, HandlerReturn, FirstRecv
<1>4. QED  BY <1>1, <1>2, <1>3, QuietStep

LEMMA SenderInv ==
  ASSUME ServerInv, NEW s \in Stream, SenderStep(s)
  PROVE  ServerInv'
<1> USE DEF ServerInv
<1>1. CASE SenderQuit(s) \/ SenderSend(s) \/ SenderSendFails(s)
  <2>1. UNCHANGED <<pendingActions, wdHand, sentActions, call, answers, hand, handler>>
    BY <1>1 DEF SenderQuit, SenderSend, SenderSendFails, callVars, wdVars
  <2>2. /\ sender' \in [Stream -> {"off", "select", "holding", "sent", "requeue", "done"}]
        /\ HandFits'
    BY <1>1, <2>1 DEF CoreTypeOK, HandFits, SenderQuit, SenderSend, SenderSendFails
  <2>3. QED  BY <2>1, <2>2, QuietStep DEF CoreTypeOK
<1>2. CASE SenderTake(s)
  <2> DEFINE c == Head(pendingActions)
  <2>1. /\ pendingActions # <<>> /\ pendingActions' = Tail(pendingActions)
        /\ sender[s] = "select" /\ hand[s] = None
        /\ UNCHANGED <<wdHand, sentActions, handler>>
    BY <1>2 DEF SenderTake, wdVars, HandFits
  <2>2. /\ pendingActions' \in Seq(Call) /\ NoRepeat(pendingActions') /\ c \in Call
        /\ Elements(pendingActions) = {c} \cup Elements(pendingActions')
        /\ c \notin Elements(pendingActions')
    BY <2>1, TailElements DEF CoreTypeOK, HeldOnce
  <2>3. /\ call[c] = "waiting"
        /\ c \notin Elements(wdHand) \cup sentActions \cup InHand
    BY <2>2 DEF HeldOnce
  <2>4. CASE c \in expired
    <3>1. Callback({c}, "timedout") /\ UNCHANGED <<sender, hand>>
      BY <1>2, <2>4 DEF SenderTake
    <3>2. /\ AnswerCount'
          /\ call' \in [Call -> {"idle", "pushing", "waiting", "done"}]
          /\ answers' \in [Call -> Nat]
          /\ \A d \in Call : call'[d] = IF d \in {c} THEN "done" ELSE call[d]
      BY <3>1, <2>2, <2>3, CallbackOnce
    <3>3. CoreTypeOK' /\ HandFits'
      BY <2>1, <2>2, <3>1, <3>2 DEF CoreTypeOK, HandFits
    <3>4. InHand' = InHand /\ Elements(wdHand') = Elements(wdHand) /\ NoRepeat(wdHand')
      BY <2>1, <3>1 DEF InHand, HeldOnce
    <3>5. HeldOnce'
      BY <2>1, <2>2, <2>3, <3>1, <3>2, <3>4 DEF HeldOnce
    <3>6. QED  BY <3>2, <3>3, <3>5
  <2>5. CASE c \notin expired
    <3>1. /\ hand' = [hand EXCEPT ![s] = c] /\ sender' = [sender EXCEPT ![s] = "holding"]
          /\ UNCHANGED <<call, answers>>
      BY <1>2, <2>5 DEF SenderTake, callVars
    <3>2. c # None
      BY <2>2, NoneAssumption
    <3>3. CoreTypeOK' /\ HandFits' /\ AnswerCount'
      BY <2>1, <2>2, <3>1, <3>2 DEF CoreTypeOK, HandFits, AnswerCount
    <3>4. InHand' = InHand \cup {c}
      BY <2>1, <3>1, <3>2 DEF InHand, CoreTypeOK
    <3>5. \A t, u \in Stream : hand'[t] = hand'[u] /\ hand'[t] # None => t = u
      BY <2>3, <3>1, <3>2 DEF HeldOnce, InHand, CoreTypeOK
    <3>6. Elements(wdHand') = Elements(wdHand) /\ NoRepeat(wdHand')
      BY <2>1 DEF HeldOnce
    <3>7. HeldOnce'
      BY <2>1, <2>2, <2>3, <3>1, <3>4, <3>5, <3>6 DEF HeldOnce
    <3>8. QED  BY <3>3, <3>7
  <2>6. QED  BY <2>4, <2>5
<1>3. CASE SenderRecord(s)
  <2>1. /\ sender[s] = "sent" /\ sentActions' = sentActions \cup {hand[s]}
        /\ hand' = [hand EXCEPT ![s] = None] /\ sender' = [sender EXCEPT ![s] = "select"]
        /\ UNCHANGED <<pendingActions, wdHand, call, answers, handler>>
    BY <1>3 DEF SenderRecord, callVars, wdVars
  <2>2. hand[s] # None /\ hand[s] \in Call /\ hand[s] \in InHand
    BY <2>1 DEF CoreTypeOK, HandFits, InHand
  <2>3. CoreTypeOK' /\ HandFits' /\ AnswerCount'
    BY <2>1, <2>2 DEF CoreTypeOK, HandFits, AnswerCount
  <2>4. InHand' = InHand \ {hand[s]}
    BY <2>1, <2>2 DEF InHand, CoreTypeOK, HeldOnce
  <2>5. \A t, u \in Stream : hand'[t] = hand'[u] /\ hand'[t] # None => t = u
    BY <2>1 DEF HeldOnce, CoreTypeOK
  <2>6. /\ Elements(wdHand') = Elements(wdHand) /\ NoRepeat(wdHand')
        /\ Elements(pendingActions') = Elements(pendingActions) /\ NoRepeat(pendingActions')
    BY <2>1 DEF HeldOnce
  <2>7. HeldOnce'
    BY <2>1, <2>2, <2>4, <2>5, <2>6 DEF HeldOnce
  <2>8. QED  BY <2>3, <2>7
<1>4. CASE SenderRequeue(s)
  <2>1. /\ sender[s] = "requeue" /\ pendingActions' = Append(pendingActions, hand[s])
        /\ hand' = [hand EXCEPT ![s] = None] /\ sender' = [sender EXCEPT ![s] = "done"]
        /\ UNCHANGED <<sentActions, wdHand, call, answers, handler>>
    BY <1>4 DEF SenderRequeue, Pushed, callVars, wdVars
  <2>2. hand[s] # None /\ hand[s] \in Call /\ hand[s] \in InHand
    BY <2>1 DEF CoreTypeOK, HandFits, InHand
  <2>3. /\ pendingActions' \in Seq(Call) /\ NoRepeat(pendingActions')
        /\ Elements(pendingActions') = Elements(pendingActions) \cup {hand[s]}
    BY <2>1, <2>2, AppendElements DEF CoreTypeOK, HeldOnce
  <2>4. CoreTypeOK' /\ HandFits' /\ AnswerCount'
    BY <2>1, <2>2, <2>3 DEF CoreTypeOK, HandFits, AnswerCount
  <2>5. InHand' = InHand \ {hand[s]}
    BY <2>1, <2>2 DEF InHand, CoreTypeOK, HeldOnce
  <2>6. \A t, u \in Stream : hand'[t] = hand'[u] /\ hand'[t] # None => t = u
    BY <2>1 DEF HeldOnce, CoreTypeOK
  <2>7. Elements(wdHand') = Elements(wdHand) /\ NoRepeat(wdHand')
    BY <2>1 DEF HeldOnce
  <2>8. HeldOnce'
    BY <2>1, <2>2, <2>3, <2>5, <2>6, <2>7 DEF HeldOnce
  <2>9. QED  BY <2>4, <2>8
<1>5. QED  BY <1>1, <1>2, <1>3, <1>4 DEF SenderStep

\* Answering calls that are in sentActions and taking them out of it.
LEMMA AnswerSent ==
  ASSUME ServerInv, NEW C \in SUBSET sentActions, NEW r, Callback(C, r),
         sentActions' = sentActions \ C,
         UNCHANGED <<pendingActions, wdHand, handler, sender, hand>>
  PROVE  ServerInv'
<1> USE DEF ServerInv
<1>1. C \in SUBSET Call /\ \A c \in C : call[c] = "waiting"
  BY DEF CoreTypeOK, HeldOnce
<1>2. /\ AnswerCount'
      /\ call' \in [Call -> {"idle", "pushing", "waiting", "done"}]
      /\ answers' \in [Call -> Nat]
      /\ \A d \in Call : call'[d] = IF d \in C THEN "done" ELSE call[d]
  BY <1>1, CallbackOnce
<1>3. CoreTypeOK' /\ HandFits'
  BY <1>2 DEF CoreTypeOK, HandFits
<1>4. /\ InHand' = InHand
      /\ Elements(wdHand') = Elements(wdHand) /\ NoRepeat(wdHand')
      /\ Elements(pendingActions') = Elements(pendingActions) /\ NoRepeat(pendingActions')
  BY DEF InHand, HeldOnce
<1>5. HeldOnce'
  BY <1>2, <1>4 DEF HeldOnce
<1>6. QED  BY <1>2, <1>3, <1>5

LEMMA ReceiverInv ==
  ASSUME ServerInv, NEW s \in Stream, ReceiverStep(s)
  PROVE  ServerInv'
<1>1. CASE ReceiverRecv(s)
  <2> DEFINE m == Head(up[s])
             known == {m.call} \cap sentActions
  <2>1. /\ Callback(known, m.status) /\ sentActions' = sentActions \ known
        /\ UNCHANGED <<pendingActions, wdHand, handler, sender, hand>>
    BY <1>1 DEF ReceiverRecv, Forget, handlerVars, wdVars
  <2>2. known \in SUBSET sentActions
    OBVIOUS
  <2> HIDE DEF known, m
  <2>3. QED  BY <2>1, <2>2, AnswerSent
<1>2. CASE ReceiverFail(s)
  BY <1>2, QuietStep DEF ReceiverFail, callVars, wdVars, ServerInv, CoreTypeOK, HandFits
<1>3. QED  BY <1>1, <1>2 DEF ReceiverStep

LEMMA FlushInv ==
  ASSUME ServerInv, Flush
  PROVE  ServerInv'
<1> USE DEF ServerInv
<1>1. CASE FlushBegin
  BY <1>1, QuietStep DEF FlushBegin, callVars, handlerVars, CoreTypeOK, HandFits
<1>2. CASE FlushDrain
  <2>1. CASE pendingActions = <<>>
    BY <1>2, <2>1, QuietStep DEF FlushDrain, callVars, handlerVars, CoreTypeOK, HandFits
  <2>2. CASE pendingActions # <<>>
    <3> DEFINE c == Head(pendingActions)
    <3>1. /\ pendingActions' = Tail(pendingActions) /\ wdHand' = Append(wdHand, c)
          /\ UNCHANGED <<sentActions, call, answers, handler, sender, hand>>
      BY <1>2, <2>2 DEF FlushDrain, callVars, handlerVars
    <3>2. /\ pendingActions' \in Seq(Call) /\ NoRepeat(pendingActions') /\ c \in Call
          /\ Elements(pendingActions) = {c} \cup Elements(pendingActions')
          /\ c \notin Elements(pendingActions')
      BY <2>2, <3>1, TailElements DEF CoreTypeOK, HeldOnce
    <3>3. c \notin Elements(wdHand) \cup sentActions \cup InHand
      BY <3>2 DEF HeldOnce
    <3>4. /\ wdHand' \in Seq(Call) /\ NoRepeat(wdHand')
          /\ Elements(wdHand') = Elements(wdHand) \cup {c}
      BY <3>1, <3>2, <3>3, AppendElements DEF CoreTypeOK, HeldOnce
    <3>5. CoreTypeOK' /\ HandFits' /\ AnswerCount'
      BY <3>1, <3>2, <3>4 DEF CoreTypeOK, HandFits, AnswerCount
    <3>6. InHand' = InHand
      BY <3>1 DEF InHand
    <3>7. HeldOnce'
      BY <3>1, <3>2, <3>3, <3>4, <3>6 DEF HeldOnce
    <3>8. QED  BY <3>5, <3>7
  <2>3. QED  BY <2>1, <2>2
<1>3. CASE FlushTimeOut \/ FlushPutBack
  <2> DEFINE c == Head(wdHand)
  <2>1. /\ wdHand # <<>> /\ wdHand' = Tail(wdHand)
        /\ UNCHANGED <<sentActions, handler, sender, hand>>
    BY <1>3 DEF FlushTimeOut, FlushPutBack, handlerVars
  <2>2. /\ wdHand' \in Seq(Call) /\ NoRepeat(wdHand') /\ c \in Call
        /\ Elements(wdHand) = {c} \cup Elements(wdHand')
        /\ c \notin Elements(wdHand')
    BY <2>1, TailElements DEF CoreTypeOK, HeldOnce
  <2>3. /\ call[c] = "waiting"
        /\ c \notin Elements(pendingActions) \cup sentActions \cup InHand
    BY <2>2 DEF HeldOnce
  <2>4. InHand' = InHand
    BY <2>1 DEF InHand
  <2>5. CASE FlushTimeOut
    <3>1. Callback({c}, "timedout") /\ UNCHANGED pendingActions
      BY <2>5 DEF FlushTimeOut
    <3>2. /\ AnswerCount'
          /\ call' \in [Call -> {"idle", "pushing", "waiting", "done"}]
          /\ answers' \in [Call -> Nat]
          /\ \A d \in Call : call'[d] = IF d \in {c} THEN "done" ELSE call[d]
      BY <3>1, <2>2, <2>3, CallbackOnce, ZenonT(40)
    <3>3. CoreTypeOK' /\ HandFits'
      BY <2>1, <2>2, <3>1, <3>2 DEF CoreTypeOK, HandFits
    <3>4. /\ Elements(pendingActions') = Elements(pendingActions)
          /\ NoRepeat(pendingActions')
      BY <3>1 DEF HeldOnce
    <3>5. HeldOnce'
      BY <2>1, <2>2, <2>3, <2>4, <3>2, <3>4 DEF HeldOnce
    <3>6. QED  BY <3>2, <3>3, <3>5
  <2>6. CASE FlushPutBack
    <3>1. /\ pendingActions' = Append(pendingActions, c)
          /\ UNCHANGED <<call, answers>>
      BY <2>6 DEF FlushPutBack, Pushed, callVars
    <3>2. /\ pendingActions' \in Seq(Call) /\ NoRepeat(pendingActions')
          /\ Elements(pendingActions') = Elements(pendingActions) \cup {c}
      BY <2>2, <2>3, <3>1, AppendElements DEF CoreTypeOK, HeldOnce
    <3>3. CoreTypeOK' /\ HandFits' /\ AnswerCount'
      BY <2>1, <2>2, <3>1, <3>2 DEF CoreTypeOK, HandFits, AnswerCount
    <3>4. HeldOnce'
      BY <2>1, <2>2, <2>3, <2>4, <3>1, <3>2 DEF HeldOnce
    <3>5. QED  BY <3>3, <3>4
  <2>7. QED  BY <1>3, <2>5, <2>6
<1>4. CASE FlushSent
  <2>1. Callback(sentActions \cap wdNow, "timedout")
    BY <1>4 DEF FlushSent
  <2>2. /\ sentActions' = sentActions \ (sentActions \cap wdNow)
        /\ UNCHANGED <<pendingActions, wdHand, handler, sender, hand>>
    BY <1>4 DEF FlushSent, Forget, handlerVars
  <2>3. sentActions \cap wdNow \in SUBSET sentActions
    OBVIOUS
  <2>4. QED  BY <2>1, <2>2, <2>3, AnswerSent
<1>5. QED  BY <1>1, <1>2, <1>3, <1>4 DEF Flush

LEMMA DestroyInv ==
  ASSUME ServerInv, Destroy
  PROVE  ServerInv'
<1> USE DEF ServerInv
<1>1. CASE DestroyBegin \/ DestroyDelete
  BY <1>1, QuietStep DEF DestroyBegin, DestroyDelete, callVars, handlerVars, wdVars,
                         CoreTypeOK, HandFits
<1>2. CASE DestroyDrain
  <2>1. CASE pendingActions = <<>>
    BY <1>2, <2>1, QuietStep DEF DestroyDrain, callVars, handlerVars, wdVars,
                                 CoreTypeOK, HandFits
  <2>2. CASE pendingActions # <<>>
    <3> DEFINE c == Head(pendingActions)
    <3>1. /\ pendingActions' = Tail(pendingActions) /\ Callback({c}, "cancelled")
          /\ UNCHANGED <<sentActions, wdHand, handler, sender, hand>>
      BY <1>2, <2>2 DEF DestroyDrain, handlerVars, wdVars
    <3>2. /\ pendingActions' \in Seq(Call) /\ NoRepeat(pendingActions') /\ c \in Call
          /\ Elements(pendingActions) = {c} \cup Elements(pendingActions')
          /\ c \notin Elements(pendingActions')
      BY <2>2, <3>1, TailElements DEF CoreTypeOK, HeldOnce
    <3>3. /\ call[c] = "waiting"
          /\ c \notin Elements(wdHand) \cup sentActions \cup InHand
      BY <3>2 DEF HeldOnce
    <3>4. /\ AnswerCount'
          /\ call' \in [Call -> {"idle", "pushing", "waiting", "done"}]
          /\ answers' \in [Call -> Nat]
          /\ \A d \in Call : call'[d] = IF d \in {c} THEN "done" ELSE call[d]
      BY <3>1, <3>2, <3>3, CallbackOnce
    <3>5. CoreTypeOK' /\ HandFits'
      BY <3>1, <3>2, <3>4 DEF CoreTypeOK, HandFits
    <3>6. InHand' = InHand /\ Elements(wdHand') = Elements(wdHand) /\ NoRepeat(wdHand')
      BY <3>1 DEF InHand, HeldOnce
    <3>7. HeldOnce'
      BY <3>1, <3>2, <3>3, <3>4, <3>6 DEF HeldOnce
    <3>8. QED  BY <3>4, <3>5, <3>7
  <2>3. QED  BY <2>1, <2>2
<1>3. CASE DestroySent
  <2>1. /\ Callback(sentActions, "cancelled") /\ sentActions' = sentActions \ sentActions
        /\ UNCHANGED <<pendingActions, wdHand, handler, sender, hand>>
    BY <1>3 DEF DestroySent, Forget, handlerVars, wdVars
  <2>2. sentActions \in SUBSET sentActions
    OBVIOUS
  <2>3. QED  BY <2>1, <2>2, AnswerSent
<1>4. QED  BY <1>1, <1>2, <1>3 DEF Destroy

-----------------------------------------------------------------------------

LEMMA ServerInvariant == ServerSpec => []ServerInv
<1>1. ServerInit => ServerInv
  BY InitInv
<1>2. ServerInv /\ [ServerNext]_serverVars => ServerInv'
  <2> SUFFICES ASSUME ServerInv, [ServerNext]_serverVars PROVE ServerInv'
    OBVIOUS
  <2>1. ASSUME NEW c \in Call, CallerStep(c) PROVE ServerInv'
    BY <2>1, CallerInv
  <2>2. ASSUME NEW s \in Stream,
               HandlerStep(s) \/ FirstRecv(s) \/ SenderStep(s) \/ ReceiverStep(s)
        PROVE  ServerInv'
    BY <2>2, HandlerInv, SenderInv, ReceiverInv
  <2>3. CASE Flush
    BY <2>3, FlushInv
  <2>4. CASE Destroy
    BY <2>4, DestroyInv
  <2>5. CASE UNCHANGED serverVars
    BY <2>5, QuietStep DEF serverVars, callVars, handlerVars, wdVars, ServerInv,
                           CoreTypeOK, HandFits
  <2>6. QED  BY <2>1, <2>2, <2>3, <2>4, <2>5 DEF ServerNext
<1>3. QED  BY <1>1, <1>2, PTL DEF ServerSpec

\* Whatever client the server is composed with, it behaves as ServerSpec says.
LEMMA SpecIsServerSpec == Spec => ServerSpec
<1>1. Init => ServerInit
  BY DEF Init
<1>2. [Next]_vars => [ServerNext]_serverVars
  <2> SUFFICES ASSUME [Next]_vars PROVE [ServerNext]_serverVars
    OBVIOUS
  <2>1. CASE ServerNext /\ UNCHANGED clientVars
    BY <2>1
  <2>2. CASE ClientNext /\ UNCHANGED serverVars
    BY <2>2
  <2>3. CASE \E s \in Stream : NetBreak(s) /\ UNCHANGED <<serverVars, clientVars>>
    BY <2>3
  <2>4. CASE UNCHANGED vars
    BY <2>4 DEF vars
  <2>5. QED  BY <2>1, <2>2, <2>3, <2>4 DEF Next
<1>3. QED  BY <1>1, <1>2, PTL DEF Spec, ServerSpec

\* The callback of an action is called at most once, whatever client and
\* network the server talks to: the receivers, the senders, the watchdog and
\* Destroy race for it, and all but one of them find it gone.
THEOREM ServerAnswersOnce == ServerSpec => []AnsweredOnce
<1>1. ServerInv => AnsweredOnce
  BY DEF ServerInv, AnswerCount, AnsweredOnce
<1>2. QED  BY <1>1, ServerInvariant, PTL

\* Every call that waits is in exactly one place, so it is neither lost nor
\* answered twice: the invariant that ServerAnswersOnce rests on.
THEOREM ServerHoldsOnce == ServerSpec => []HeldOnce
<1>1. ServerInv => HeldOnce
  BY DEF ServerInv
<1>2. QED  BY <1>1, ServerInvariant, PTL

\* Both for the server with the client and the network of module Actions.
THEOREM ActionsAnswerOnce == Spec => [](HeldOnce /\ AnsweredOnce)
<1>1. QED  BY SpecIsServerSpec, ServerAnswersOnce, ServerHoldsOnce, PTL

-----------------------------------------------------------------------------
(* Type correctness of the composition.                                    *)

Msg == Response \cup {InitMsg}

\* A goroutine of the client that talks to a stream has one, and holds a
\* message from the step that reads it to the step that passes it on.
ClientFits ==
  /\ crecv \in {"recv", "push"} => cstream \in Stream
  /\ crecv = "push" => creq \in Call
  /\ csend = "requeue" => cres \in Response

TypeInv == TypeOK /\ ServerInv /\ ClientFits

LEMMA QueueTypes ==
  ASSUME NEW S, NEW q \in Seq(S)
  PROVE  /\ \A x \in S : Append(q, x) \in Seq(S)
         /\ q # <<>> => Tail(q) \in Seq(S) /\ Head(q) \in S
         /\ <<>> \in Seq(S)
BY AppendProperties, HeadTailProperties, EmptySeq

LEMMA ServerKeepsWireTypes ==
  ASSUME TypeInv, ServerNext
  PROVE  WireTypeOK'
<1> USE DEF TypeInv, TypeOK, WireTypeOK
<1>1. ASSUME NEW s \in Stream, HandlerStep(s) PROVE WireTypeOK'
  BY <1>1 DEF HandlerStep, HandlerStart, HandlerFirst, HandlerGiveUp, HandlerConnect,
              HandlerReturn, Close, wireVars
<1>2. ASSUME NEW s \in Stream, FirstRecv(s) \/ ReceiverStep(s) PROVE WireTypeOK'
  <2>1. /\ \/ up' = up
           \/ up[s] # <<>> /\ up' = [up EXCEPT ![s] = Tail(@)]
           \/ up' = [up EXCEPT ![s] = <<>>]
        /\ UNCHANGED <<link, down>>
    BY <1>2 DEF FirstRecv, ReceiverStep, ReceiverRecv, ReceiverFail
  <2>2. <<>> \in Seq(Msg) /\ (up[s] # <<>> => Tail(up[s]) \in Seq(Msg))
    BY QueueTypes DEF Msg
  <2>3. QED  BY <2>1, <2>2 DEF Msg
<1>3. ASSUME NEW s \in Stream, SenderStep(s) PROVE WireTypeOK'
  <2>1. CASE SenderSend(s)
    <3>1. hand[s] \in Call
      BY <2>1 DEF SenderSend, ServerInv, CoreTypeOK, HandFits
    <3>2. Append(down[s], hand[s]) \in Seq(Call)
      BY <3>1, QueueTypes
    <3>3. QED  BY <2>1, <3>2 DEF SenderSend, SendDown
  <2>2. CASE ~SenderSend(s)
    BY <1>3, <2>2 DEF SenderStep, SenderQuit, SenderTake, SenderSendFails, SenderRecord,
                      SenderRequeue, wireVars
  <2>3. QED  BY <2>1, <2>2
<1>4. ASSUME NEW c \in Call, CallerStep(c) PROVE WireTypeOK'
  BY <1>4 DEF CallerStep, PerformActionBegin, PerformActionPush, Expire, wireVars
<1>5. CASE Flush \/ Destroy
  BY <1>5 DEF Flush, FlushBegin, FlushDrain, FlushTimeOut, FlushPutBack, FlushSent,
              Destroy, DestroyBegin, DestroyDrain, DestroySent, DestroyDelete, wireVars
<1>6. QED  BY <1>1, <1>2, <1>3, <1>4, <1>5 DEF ServerNext

\* The variables that ServerInv does not type.
RestTypeOK ==
  /\ registered \in BOOLEAN /\ actionsConn \in BOOLEAN
  /\ actionsDone \in Stream \cup {None} /\ actionsLock \in Stream \cup {None}
  /\ doneClosed \in SUBSET Stream
  /\ result \in [Call -> Result]
  /\ expired \in SUBSET Call
  /\ first \in [Stream -> {"off", "recv", "offer", "done"}]
  /\ receiver \in [Stream -> {"off", "recv", "done"}]
  /\ watchdog \in {"idle", "drain", "putback"}
  /\ wdNow \in SUBSET Call
  /\ destroy \in {"no", "drain", "sent", "delete", "done"}

LEMMA ServerTypes == ServerTypeOK <=> CoreTypeOK /\ RestTypeOK
BY DEF ServerTypeOK, CoreTypeOK, RestTypeOK

LEMMA ServerKeepsRestTypes ==
  ASSUME TypeInv, ServerNext
  PROVE  RestTypeOK'
<1>0. RestTypeOK /\ CoreTypeOK
  BY ServerTypes DEF TypeInv, TypeOK
<1> USE DEF RestTypeOK
<1>1. ASSUME NEW s \in Stream, HandlerStep(s) \/ FirstRecv(s) PROVE RestTypeOK'
  BY <1>0, <1>1 DEF HandlerStep, HandlerStart, HandlerFirst, HandlerGiveUp, HandlerConnect,
                    HandlerReturn, FirstRecv, callVars, wdVars, appVars
<1>2. ASSUME NEW s \in Stream, SenderStep(s) PROVE RestTypeOK'
  BY <1>0, <1>2 DEF SenderStep, SenderQuit, SenderTake, SenderSend, SenderSendFails,
                    SenderRecord, SenderRequeue, TakeLock, appVars, callVars, wdVars, Callback,
                    Result
<1>3. ASSUME NEW s \in Stream, ReceiverStep(s) PROVE RestTypeOK'
  <2>1. CASE ReceiverRecv(s)
    <3>1. Head(up[s]) \in Msg
      BY <2>1, QueueTypes DEF ReceiverRecv, TypeInv, TypeOK, WireTypeOK, Msg
    <3>2. Head(up[s]).status \in Result
      BY <3>1 DEF Msg, Response, InitMsg, Result
    <3>3. result' \in [Call -> Result]
      BY <1>0, <2>1, <3>2 DEF ReceiverRecv, Callback
    <3>4. QED  BY <1>0, <2>1, <3>3 DEF ReceiverRecv, appVars, handlerVars, wdVars
  <2>2. CASE ReceiverFail(s)
    BY <1>0, <2>2 DEF ReceiverFail, appVars, callVars, wdVars
  <2>3. QED  BY <1>3, <2>1, <2>2 DEF ReceiverStep
<1>4. ASSUME NEW c \in Call, CallerStep(c) PROVE RestTypeOK'
  BY <1>0, <1>4 DEF CallerStep, PerformActionBegin, PerformActionPush, Expire, appVars,
                    callVars, handlerVars, wdVars, Result
<1>5. CASE Flush
  BY <1>0, <1>5 DEF Flush, FlushBegin, FlushDrain, FlushTimeOut, FlushPutBack, FlushSent,
                    appVars, callVars, handlerVars, Callback, Result
<1>6. CASE Destroy
  BY <1>0, <1>6 DEF Destroy, DestroyBegin, DestroyDrain, DestroySent, DestroyDelete,
                    appVars, callVars, handlerVars, wdVars, Callback, Result
<1>7. QED  BY <1>1, <1>2, <1>3, <1>4, <1>5, <1>6 DEF ServerNext

LEMMA ClientKeepsTypes ==
  ASSUME TypeInv, ClientNext
  PROVE  WireTypeOK' /\ ClientTypeOK' /\ ClientFits'
<1> USE DEF TypeInv, TypeOK, WireTypeOK, ClientTypeOK, ClientFits
<1>1. ASSUME NEW s \in Stream, Dial(s) PROVE WireTypeOK' /\ ClientTypeOK' /\ ClientFits'
  BY <1>1 DEF Dial
<1>2. CASE LoopEnd
  BY <1>2 DEF LoopEnd, wireVars
<1>3. CASE ReceivingStep
  <2>1. CASE ClientRecv
    <3>1. Head(down[cstream]) \in Call /\ Tail(down[cstream]) \in Seq(Call)
      BY <2>1, QueueTypes DEF ClientRecv
    <3>2. QED  BY <2>1, <3>1 DEF ClientRecv
  <2>2. CASE ClientRefuse
    <3>1. [call |-> creq, status |-> "failed"] \in Response
      BY <2>2 DEF ClientRefuse, Refusal, Response
    <3>2. results' \in Seq(Response)
      BY <2>2, <3>1, QueueTypes DEF ClientRefuse, Refusal, PushResult
    <3>3. QED  BY <2>2, <3>2 DEF ClientRefuse, wireVars
  <2>3. CASE ClientRecvFail
    <3>1. <<>> \in Seq(Call)
      BY QueueTypes
    <3>2. QED  BY <2>3, <3>1 DEF ClientRecvFail
  <2>4. QED  BY <1>3, <2>1, <2>2, <2>3 DEF ReceivingStep
<1>4. CASE SendingStep
  <2>1. CASE SendInit
    <3>1. InitMsg \in Msg
      BY DEF Msg
    <3>2. up' \in [Stream -> Seq(Msg)]
      BY <2>1, <3>1, QueueTypes DEF SendInit, SendUp, Msg
    <3>3. QED  BY <2>1, <3>2 DEF SendInit, SendUp, Msg
  <2>2. CASE ClientSend
    <3>1. Head(results) \in Response /\ Tail(results) \in Seq(Response)
      BY <2>2, QueueTypes DEF ClientSend
    <3>2. up' \in [Stream -> Seq(Msg)]
      BY <2>2, <3>1, QueueTypes DEF ClientSend, SendUp, Msg
    <3>3. QED  BY <2>2, <3>1, <3>2 DEF ClientSend, SendUp, Msg
  <2>3. CASE ClientSendFails
    <3>1. Head(results) \in Response /\ Tail(results) \in Seq(Response)
      BY <2>3, QueueTypes DEF ClientSendFails
    <3>2. QED  BY <2>3, <3>1 DEF ClientSendFails, wireVars
  <2>4. CASE ClientRequeue
    <3>1. [call |-> cres.call, status |-> cres.status] \in Response
      BY <2>4 DEF ClientRequeue, Response
    <3>2. results' \in Seq(Response)
      BY <2>4, <3>1, QueueTypes DEF ClientRequeue, PutBack, PushResult
    <3>3. QED  BY <2>4, <3>2 DEF ClientRequeue, wireVars
  <2>5. CASE SendInitFails \/ ClientSendQuit
    BY <2>5 DEF SendInitFails, ClientSendQuit, wireVars
  <2>6. QED  BY <1>4, <2>1, <2>2, <2>3, <2>4, <2>5 DEF SendingStep
<1>5. ASSUME NEW c \in Call, Execute(c) PROVE WireTypeOK' /\ ClientTypeOK' /\ ClientFits'
  <2>1. \A st \in {"success", "failed"} : [call |-> c, status |-> st] \in Response
    BY DEF Response
  <2>2. results' \in Seq(Response)
    BY <1>5, <2>1, QueueTypes DEF Execute, PushResult
  <2>3. QED  BY <1>5, <2>2 DEF Execute, wireVars
<1>6. CASE ClientRestart
  <2>1. <<>> \in Seq(Response)
    BY QueueTypes
  <2>2. QED  BY <1>6, <2>1 DEF ClientRestart, Fresh
<1>7. QED  BY <1>1, <1>2, <1>3, <1>4, <1>5, <1>6 DEF ClientNext

LEMMA TypeInvariant == Spec => []TypeInv
<1>1. Init => TypeInv
  <2> SUFFICES ASSUME Init PROVE TypeInv
    OBVIOUS
  <2>1. ServerInv /\ CoreTypeOK
    BY InitInv DEF Init, ServerInv
  <2>2. RestTypeOK
    BY DEF Init, ServerInit, RestTypeOK, Result
  <2>3. WireTypeOK
    BY EmptySeq DEF Init, WireInit, WireTypeOK
  <2>4. ClientTypeOK /\ ClientFits
    BY EmptySeq DEF Init, ClientInit, ClientTypeOK, ClientFits
  <2>5. QED  BY <2>1, <2>2, <2>3, <2>4, ServerTypes DEF TypeInv, TypeOK
<1>2. TypeInv /\ ServerInv' /\ [Next]_vars => TypeInv'
  <2> SUFFICES ASSUME TypeInv, ServerInv', [Next]_vars PROVE TypeInv'
    OBVIOUS
  <2>0. CoreTypeOK' /\ RestTypeOK
    BY ServerTypes DEF ServerInv, TypeInv, TypeOK
  <2>1. CASE ServerNext /\ UNCHANGED clientVars
    <3>1. WireTypeOK' /\ RestTypeOK'
      BY <2>1, ServerKeepsWireTypes, ServerKeepsRestTypes
    <3>2. ClientTypeOK' /\ ClientFits'
      BY <2>1 DEF TypeInv, TypeOK, ClientTypeOK, ClientFits, clientVars
    <3>3. ServerTypeOK'
      BY <2>0, <3>1 DEF ServerTypeOK, CoreTypeOK, RestTypeOK
    <3>4. QED  BY <3>1, <3>2, <3>3 DEF TypeInv, TypeOK
  <2>2. CASE ClientNext /\ UNCHANGED serverVars
    <3>1. WireTypeOK' /\ ClientTypeOK' /\ ClientFits'
      BY <2>2, ClientKeepsTypes
    <3>2. ServerTypeOK'
      BY <2>0, <2>2 DEF ServerTypeOK, CoreTypeOK, RestTypeOK, serverVars, appVars, callVars,
                        handlerVars, wdVars
    <3>3. QED  BY <3>1, <3>2 DEF TypeInv, TypeOK
  <2>3. CASE \E s \in Stream : NetBreak(s) /\ UNCHANGED <<serverVars, clientVars>>
    <3>1. WireTypeOK'
      BY <2>3 DEF TypeInv, TypeOK, WireTypeOK, NetBreak, Close
    <3>2. ServerTypeOK'
      BY <2>0, <2>3 DEF ServerTypeOK, CoreTypeOK, RestTypeOK, serverVars, appVars, callVars,
                        handlerVars, wdVars
    <3>3. ClientTypeOK' /\ ClientFits'
      BY <2>3 DEF TypeInv, TypeOK, ClientTypeOK, ClientFits, clientVars
    <3>4. QED  BY <3>1, <3>2, <3>3 DEF TypeInv, TypeOK
  <2>4. CASE UNCHANGED vars
    <3>1. ServerTypeOK'
      BY <2>0, <2>4 DEF vars, ServerTypeOK, CoreTypeOK, RestTypeOK, serverVars, appVars,
                        callVars, handlerVars, wdVars
    <3>2. WireTypeOK' /\ ClientTypeOK' /\ ClientFits'
      BY <2>4 DEF vars, TypeInv, TypeOK, WireTypeOK, ClientTypeOK, ClientFits, clientVars,
                  wireVars
    <3>3. QED  BY <3>1, <3>2 DEF TypeInv, TypeOK
  <2>5. QED  BY <2>1, <2>2, <2>3, <2>4 DEF Next
<1>3. Spec => []ServerInv
  BY SpecIsServerSpec, ServerInvariant, PTL
<1>4. QED  BY <1>1, <1>2, <1>3, PTL DEF Spec

\* Every variable of the server, the client and the wire keeps its type.
THEOREM ActionsTypeCorrect == Spec => []TypeOK
<1>1. TypeInv => TypeOK
  BY DEF TypeInv
<1>2. QED  BY <1>1, TypeInvariant, PTL

-----------------------------------------------------------------------------
(* From here on the two ends together.  The argument is about traces:      *)
(* whatever the client has of an action (the request, the execution, the   *)
(* response) was sent by a sender that held actionsLock until the server   *)
(* had recorded it.                                                        *)


-----------------------------------------------------------------------------
(* One stream.                                                             *)

\* actionsDone channels are closed by Destroy only.
Stops ==
  /\ actionsConn => doneClosed = {}
  /\ actionsDone \in Stream \cup {None}

StreamInv == CoreTypeOK /\ OneStream /\ Stops

LEMMA HandlerKeepsOneStream ==
  ASSUME StreamInv, NEW s \in Stream, HandlerStep(s)
  PROVE  OneStream' /\ Stops'
<1> USE DEF StreamInv
<1>1. handler \in [Stream -> {"idle", "await", "found", "serving", "closed"}]
  BY DEF CoreTypeOK
<1>2. CASE HandlerStart(s) \/ HandlerFirst(s) \/ HandlerGiveUp(s)
  <2>1. UNCHANGED <<actionsDone, doneClosed, actionsConn>>
    BY <1>2 DEF HandlerStart, HandlerFirst, HandlerGiveUp, appVars
  <2>2. \A t \in Stream : handler'[t] = "serving" <=> handler[t] = "serving"
    BY <1>1, <1>2 DEF HandlerStart, HandlerFirst, HandlerGiveUp
  <2>3. QED  BY <2>1, <2>2 DEF OneStream, Stops
<1>3. CASE HandlerConnect(s)
  <2>1. CASE MayConnect
    <3>1. \A t \in Stream : handler[t] # "serving"
      BY <2>1, NoneAssumption DEF MayConnect, OneStream, Stops
    <3>2. /\ handler' = [handler EXCEPT ![s] = "serving"] /\ actionsDone' = s
          /\ UNCHANGED <<doneClosed, actionsConn>>
      BY <1>3, <2>1 DEF HandlerConnect
    <3>3. \A t \in Stream : handler'[t] = "serving" <=> t = s
      BY <1>1, <3>1, <3>2
    <3>4. QED  BY <3>2, <3>3 DEF OneStream, Stops
  <2>2. CASE ~MayConnect
    <3>1. /\ handler[s] = "found" /\ handler' = [handler EXCEPT ![s] = "closed"]
          /\ UNCHANGED <<actionsDone, doneClosed, actionsConn>>
      BY <1>3, <2>2 DEF HandlerConnect
    <3>2. QED  BY <1>1, <3>1 DEF OneStream, Stops
  <2>3. QED  BY <2>1, <2>2
<1>4. CASE HandlerReturn(s)
  <2>1. /\ handler[s] = "serving" /\ handler' = [handler EXCEPT ![s] = "closed"]
        /\ actionsDone' = None /\ UNCHANGED <<doneClosed, actionsConn>>
    BY <1>4 DEF HandlerReturn
  <2>2. \A t \in Stream : handler'[t] # "serving"
    BY <1>1, <2>1 DEF OneStream
  <2>3. QED  BY <2>1, <2>2 DEF OneStream, Stops
<1>5. QED  BY <1>2, <1>3, <1>4 DEF HandlerStep

\* At most one handler serves an application, and as long as it can be
\* stopped Destroy knows its channel, whatever the client and the network do.
THEOREM ServerOneStream == ServerSpec => []OneStream
<1>1. ServerInit => OneStream /\ Stops
  BY DEF ServerInit, OneStream, Stops
<1>2. /\ CoreTypeOK /\ OneStream /\ Stops /\ [ServerNext]_serverVars
      => OneStream' /\ Stops'
  <2> SUFFICES ASSUME StreamInv, [ServerNext]_serverVars PROVE OneStream' /\ Stops'
    BY DEF StreamInv
  <2> USE DEF StreamInv
  <2>1. ASSUME NEW s \in Stream, HandlerStep(s) PROVE OneStream' /\ Stops'
    BY <2>1, HandlerKeepsOneStream
  <2>2. CASE DestroyBegin
    BY <2>2 DEF DestroyBegin, handlerVars, OneStream, Stops
  <2>3. ASSUME UNCHANGED <<handler, actionsDone, doneClosed, actionsConn>>
        PROVE  OneStream' /\ Stops'
    BY <2>3 DEF OneStream, Stops
  <2>4. ASSUME NEW s \in Stream, FirstRecv(s) \/ SenderStep(s) \/ ReceiverStep(s)
        PROVE  UNCHANGED <<handler, actionsDone, doneClosed, actionsConn>>
    BY <2>4 DEF FirstRecv, SenderStep, SenderQuit, SenderTake, SenderSend, SenderSendFails,
                SenderRecord, SenderRequeue, ReceiverStep, ReceiverRecv, ReceiverFail,
                appVars, handlerVars
  <2>5. ASSUME NEW c \in Call, CallerStep(c)
        PROVE  UNCHANGED <<handler, actionsDone, doneClosed, actionsConn>>
    BY <2>5 DEF CallerStep, PerformActionBegin, PerformActionPush, Expire,
                appVars, handlerVars
  <2>6. CASE Flush
    BY <2>3, <2>6 DEF Flush, FlushBegin, FlushDrain, FlushTimeOut, FlushPutBack, FlushSent,
                      appVars, handlerVars
  <2>7. CASE DestroyDrain \/ DestroySent \/ DestroyDelete
    BY <2>3, <2>7 DEF DestroyDrain, DestroySent, DestroyDelete, appVars, handlerVars
  <2>8. CASE UNCHANGED serverVars
    BY <2>3, <2>8 DEF serverVars, appVars, handlerVars
  <2>9. QED  BY <2>1, <2>2, <2>3, <2>4, <2>5, <2>6, <2>7, <2>8 DEF ServerNext, Destroy
<1>3. ServerInv => CoreTypeOK
  BY DEF ServerInv
<1>4. QED  BY <1>1, <1>2, <1>3, ServerInvariant, PTL DEF ServerSpec

\* The same for the server with the client and the network of module Actions.
THEOREM ActionsOneStream == Spec => []OneStream
<1>1. QED  BY SpecIsServerSpec, ServerOneStream, PTL

-----------------------------------------------------------------------------
(* What the client has of an action, the server knows.                     *)

\* A sender between Send and the entry in sentActions holds the lock.
LockHeld == \A s \in Stream : sender[s] = "sent" => actionsLock = s

\* The server has recorded that it sent c, or a sender that holds the lock is
\* about to.
Known(c) ==
  \/ call[c] = "done"
  \/ c \in sentActions
  \/ \E s \in Stream : sender[s] = "sent" /\ hand[s] = c

Named(q) == {r.call : r \in Elements(q)}

OnWire(c)   == \E s \in Stream : c \in Elements(down[s]) \/ c \in Named(up[s])
AtClient(c) ==
  \/ creq = c \/ c \in executing \/ execs[c] # 0
  \/ c \in Named(results) \/ cres.call = c

Traced(c) == OnWire(c) \/ AtClient(c)

TracesKnown == \A c \in Call : Traced(c) => Known(c)

\* A request that is on its way is on one stream, once, and was not executed.
SentOnce ==
  \A s \in Stream :
    /\ NoRepeat(down[s])
    /\ \A c \in Elements(down[s]) : execs[c] = 0
    /\ \A t \in Stream : s # t => Elements(down[s]) \cap Elements(down[t]) = {}

AnswersInv == TypeInv /\ LockHeld /\ TracesKnown /\ SentOnce /\ ExecutedOnce

LEMMA NamedQueue ==
  ASSUME NEW S, NEW q \in Seq(S)
  PROVE  /\ \A r \in S : Named(Append(q, r)) = Named(q) \cup {r.call}
         /\ q # <<>> => Named(q) = {Head(q).call} \cup Named(Tail(q))
         /\ Named(<<>>) = {} /\ Elements(<<>>) = {} /\ NoRepeat(<<>>)
<1>1. ASSUME NEW r \in S PROVE Named(Append(q, r)) = Named(q) \cup {r.call}
  <2>1. Elements(Append(q, r)) = Elements(q) \cup {r}
    BY AppendElements
  <2>2. QED  BY <2>1 DEF Named
<1>2. ASSUME q # <<>> PROVE Named(q) = {Head(q).call} \cup Named(Tail(q))
  <2>1. Elements(q) = {Head(q)} \cup Elements(Tail(q))
    BY <1>2, TailElements
  <2>2. QED  BY <2>1 DEF Named
<1>3. Named(<<>>) = {} /\ Elements(<<>>) = {} /\ NoRepeat(<<>>)
  BY DEF Named, Elements, NoRepeat
<1>4. QED  BY <1>1, <1>2, <1>3

\* What the server knows of a call it knows for good.
LEMMA KnownStays ==
  ASSUME ServerInv, ServerNext, NEW c \in Call, Known(c)
  PROVE  Known(c)'
<1> USE DEF ServerInv
<1>0. /\ call \in [Call -> {"idle", "pushing", "waiting", "done"}]
      /\ sender \in [Stream -> {"off", "select", "holding", "sent", "requeue", "done"}]
      /\ hand \in [Stream -> Call \cup {None}]
  BY DEF CoreTypeOK
<1>1. ASSUME NEW C, NEW r, Callback(C, r)
      PROVE  /\ call[c] = "done" => call'[c] = "done"
             /\ c \in C => call'[c] = "done"
  BY <1>1 DEF Callback
<1>2. ASSUME UNCHANGED <<sender, hand>>, call[c] = "done" => call'[c] = "done",
             c \in sentActions => c \in sentActions' \/ call'[c] = "done"
      PROVE  Known(c)'
  BY <1>2 DEF Known
<1>3. ASSUME NEW d \in Call, CallerStep(d) PROVE Known(c)'
  BY <1>0, <1>2, <1>3 DEF CallerStep, PerformActionBegin, PerformActionPush, Expire,
                          callVars, handlerVars
<1>4. ASSUME NEW s \in Stream, FirstRecv(s) \/ HandlerStart(s) \/ HandlerFirst(s)
                               \/ HandlerGiveUp(s) \/ ReceiverFail(s)
      PROVE  Known(c)'
  BY <1>2, <1>4 DEF FirstRecv, HandlerStart, HandlerFirst, HandlerGiveUp, ReceiverFail,
                    callVars
<1>5. ASSUME NEW s \in Stream, HandlerConnect(s) \/ HandlerReturn(s) PROVE Known(c)'
  <2>1. UNCHANGED <<call, sentActions, hand>>
    BY <1>5 DEF HandlerConnect, HandlerReturn, callVars
  <2>2. \A t \in Stream : sender[t] = "sent" => sender'[t] = "sent"
    BY <1>0, <1>5 DEF HandlerConnect, HandlerReturn, HandFits
  <2>3. QED  BY <2>1, <2>2 DEF Known
<1>6. ASSUME NEW s \in Stream, SenderStep(s) PROVE Known(c)'
  <2>1. CASE SenderRecord(s)
    <3>1. /\ sentActions' = sentActions \cup {hand[s]} /\ UNCHANGED call
          /\ hand' = [hand EXCEPT ![s] = None] /\ sender' = [sender EXCEPT ![s] = "select"]
      BY <2>1 DEF SenderRecord, callVars
    <3>2. \A t \in Stream : t # s => sender'[t] = sender[t] /\ hand'[t] = hand[t]
      BY <1>0, <3>1
    <3>3. QED  BY <3>1, <3>2 DEF Known
  <2>2. CASE SenderQuit(s) \/ SenderSend(s) \/ SenderSendFails(s) \/ SenderRequeue(s)
    <3>1. UNCHANGED <<call, sentActions>>
      BY <2>2 DEF SenderQuit, SenderSend, SenderSendFails, SenderRequeue, callVars
    <3>2. sender[s] # "sent"
      BY <2>2 DEF SenderQuit, SenderSend, SenderSendFails, SenderRequeue
    <3>3. \A t \in Stream : t # s => sender'[t] = sender[t] /\ hand'[t] = hand[t]
      BY <1>0, <2>2 DEF SenderQuit, SenderSend, SenderSendFails, SenderRequeue
    <3>4. QED  BY <3>1, <3>2, <3>3 DEF Known
  <2>3. CASE SenderTake(s)
    <3>1. sender[s] # "sent" /\ UNCHANGED sentActions
      BY <2>3 DEF SenderTake
    <3>2. \A t \in Stream : t # s => sender'[t] = sender[t] /\ hand'[t] = hand[t]
      BY <1>0, <2>3 DEF SenderTake
    <3>3. call[c] = "done" => call'[c] = "done"
      BY <1>1, <2>3 DEF SenderTake, callVars
    <3>4. QED  BY <3>1, <3>2, <3>3 DEF Known
  <2>4. QED  BY <1>6, <2>1, <2>2, <2>3 DEF SenderStep
<1>7. ASSUME NEW s \in Stream, ReceiverRecv(s) PROVE Known(c)'
  <2> DEFINE known == {Head(up[s]).call} \cap sentActions
  <2>1. /\ Callback(known, Head(up[s]).status) /\ sentActions' = sentActions \ known
        /\ UNCHANGED <<sender, hand>>
    BY <1>7 DEF ReceiverRecv, Forget, handlerVars
  <2> HIDE DEF known
  <2>2. QED  BY <1>1, <1>2, <2>1
<1>8. CASE Flush
  <2>1. CASE FlushBegin \/ FlushDrain \/ FlushPutBack
    BY <1>2, <2>1 DEF FlushBegin, FlushDrain, FlushPutBack, callVars, handlerVars
  <2>2. CASE FlushTimeOut
    BY <1>1, <1>2, <2>2 DEF FlushTimeOut, handlerVars
  <2>3. CASE FlushSent
    <3>1. /\ Callback(sentActions \cap wdNow, "timedout")
          /\ sentActions' = sentActions \ (sentActions \cap wdNow)
          /\ UNCHANGED <<sender, hand>>
      BY <2>3 DEF FlushSent, Forget, handlerVars
    <3>2. QED  BY <1>1, <1>2, <3>1
  <2>4. QED  BY <1>8, <2>1, <2>2, <2>3 DEF Flush
<1>9. CASE Destroy
  <2>1. CASE DestroyBegin \/ DestroyDelete
    BY <1>2, <2>1 DEF DestroyBegin, DestroyDelete, callVars, handlerVars
  <2>2. CASE DestroyDrain
    BY <1>1, <1>2, <2>2 DEF DestroyDrain, callVars, handlerVars
  <2>3. CASE DestroySent
    <3>1. Callback(sentActions, "cancelled") /\ UNCHANGED <<sender, hand>>
      BY <2>3 DEF DestroySent, handlerVars
    <3>2. QED  BY <1>1, <1>2, <3>1
  <2>4. QED  BY <1>9, <2>1, <2>2, <2>3 DEF Destroy
<1>10. QED  BY <1>3, <1>4, <1>5, <1>6, <1>7, <1>8, <1>9
               DEF ServerNext, HandlerStep, ReceiverStep

-----------------------------------------------------------------------------
(* Steps of the server.                                                    *)

LEMMA LockStays ==
  ASSUME TypeInv, LockHeld, ServerNext
  PROVE  LockHeld'
<1>0. sender \in [Stream -> {"off", "select", "holding", "sent", "requeue", "done"}]
  BY DEF TypeInv, ServerInv, CoreTypeOK
<1>1. ASSUME NEW s \in Stream, SenderSend(s) PROVE LockHeld'
  <2>1. \A t \in Stream : sender[t] # "sent"
    BY <1>1, NoneAssumption DEF SenderSend, LockFree, LockHeld
  <2>2. sender' = [sender EXCEPT ![s] = "sent"] /\ actionsLock' = s
    BY <1>1 DEF SenderSend, TakeLock
  <2>3. QED  BY <1>0, <2>1, <2>2 DEF LockHeld
<1>2. ASSUME NEW s \in Stream, SenderRecord(s) PROVE LockHeld'
  <2>1. \A t \in Stream : sender[t] = "sent" => t = s
    BY <1>2 DEF SenderRecord, LockHeld
  <2>2. sender' = [sender EXCEPT ![s] = "select"]
    BY <1>2 DEF SenderRecord
  <2>3. QED  BY <1>0, <2>1, <2>2 DEF LockHeld
<1>3. ASSUME NEW s \in Stream,
             HandlerStep(s) \/ FirstRecv(s) \/ ReceiverStep(s) \/ SenderQuit(s)
               \/ SenderTake(s) \/ SenderSendFails(s) \/ SenderRequeue(s)
      PROVE  LockHeld'
  <2>1. UNCHANGED actionsLock
    BY <1>3 DEF HandlerStep, HandlerStart, HandlerFirst, HandlerGiveUp, HandlerConnect,
                HandlerReturn, FirstRecv, ReceiverStep, ReceiverRecv, ReceiverFail,
                SenderQuit, SenderTake, SenderSendFails, SenderRequeue, appVars
  <2>2. \A t \in Stream : sender'[t] = "sent" => sender[t] = "sent"
    BY <1>0, <1>3 DEF HandlerStep, HandlerStart, HandlerFirst, HandlerGiveUp,
                HandlerConnect, HandlerReturn, FirstRecv, ReceiverStep, ReceiverRecv,
                ReceiverFail, SenderQuit, SenderTake, SenderSendFails, SenderRequeue,
                handlerVars
  <2>3. QED  BY <2>1, <2>2 DEF LockHeld
<1>4. ASSUME NEW c \in Call, CallerStep(c) PROVE LockHeld'
  BY <1>4 DEF CallerStep, PerformActionBegin, PerformActionPush, Expire, appVars,
              handlerVars, LockHeld
<1>5. CASE Flush \/ Destroy
  BY <1>5 DEF Flush, FlushBegin, FlushDrain, FlushTimeOut, FlushPutBack, FlushSent,
              Destroy, DestroyBegin, DestroyDrain, DestroySent, DestroyDelete, appVars,
              handlerVars, LockHeld
<1>6. QED  BY <1>1, <1>2, <1>3, <1>4, <1>5 DEF ServerNext, SenderStep

\* Only a sender that holds an action puts a request on a stream.
LEMMA ServerWire ==
  ASSUME ServerNext
  PROVE  \/ \E s \in Stream : SenderSend(s)
         \/ /\ UNCHANGED down
            /\ \/ UNCHANGED up
               \/ \E s \in Stream : \/ up[s] # <<>> /\ up' = [up EXCEPT ![s] = Tail(@)]
                                    \/ up' = [up EXCEPT ![s] = <<>>]
<1>1. ASSUME NEW s \in Stream, HandlerStep(s) PROVE UNCHANGED <<up, down>>
  BY <1>1 DEF HandlerStep, HandlerStart, HandlerFirst, HandlerGiveUp, HandlerConnect,
              HandlerReturn, Close, wireVars
<1>2. ASSUME NEW s \in Stream, FirstRecv(s) \/ ReceiverStep(s)
      PROVE  /\ UNCHANGED down
             /\ \/ UNCHANGED up
                \/ up[s] # <<>> /\ up' = [up EXCEPT ![s] = Tail(@)]
                \/ up' = [up EXCEPT ![s] = <<>>]
  BY <1>2 DEF FirstRecv, ReceiverStep, ReceiverRecv, ReceiverFail
<1>3. ASSUME NEW s \in Stream, SenderStep(s), ~SenderSend(s) PROVE UNCHANGED <<up, down>>
  BY <1>3 DEF SenderStep, SenderQuit, SenderTake, SenderSendFails, SenderRecord,
              SenderRequeue, wireVars
<1>4. ASSUME NEW c \in Call, CallerStep(c) PROVE UNCHANGED <<up, down>>
  BY <1>4 DEF CallerStep, PerformActionBegin, PerformActionPush, Expire, wireVars
<1>5. CASE Flush \/ Destroy
  BY <1>5 DEF Flush, FlushBegin, FlushDrain, FlushTimeOut, FlushPutBack, FlushSent,
              Destroy, DestroyBegin, DestroyDrain, DestroySent, DestroyDelete, wireVars
<1>6. QED  BY <1>1, <1>2, <1>3, <1>4, <1>5 DEF ServerNext

LEMMA ServerKeepsTraces ==
  ASSUME AnswersInv, ServerNext, UNCHANGED clientVars
  PROVE  TracesKnown' /\ SentOnce' /\ ExecutedOnce'
<1> USE DEF AnswersInv, TypeInv, TypeOK, WireTypeOK
<1>0. /\ UNCHANGED <<creq, executing, execs, results, cres>>
      /\ \A c \in Call : AtClient(c)' <=> AtClient(c)
  BY DEF clientVars, AtClient
<1>1. \A c \in Call : Known(c) => Known(c)'
  BY KnownStays
<1>2. ExecutedOnce'
  BY <1>0 DEF ExecutedOnce
<1>3. ASSUME NEW s \in Stream, SenderSend(s) PROVE TracesKnown' /\ SentOnce'
  <2> DEFINE h == hand[s]
  <2>1. /\ sender[s] = "holding" /\ LockFree
        /\ sender' = [sender EXCEPT ![s] = "sent"] /\ UNCHANGED <<hand, up>>
        /\ \/ down' = [down EXCEPT ![s] = Append(@, h)]
           \/ down' = down
    BY <1>3 DEF SenderSend, SendDown
  <2>2. h \in Call /\ h \in InHand
    BY <2>1 DEF ServerInv, CoreTypeOK, HandFits, InHand
  <2>3. call[h] = "waiting" /\ h \notin sentActions
    BY <2>2 DEF ServerInv, HeldOnce
  <2>4. \A t \in Stream : sender[t] # "sent"
    BY <2>1, NoneAssumption DEF LockFree, LockHeld
  <2>5. ~Traced(h)
    BY <2>2, <2>3, <2>4 DEF Known, TracesKnown
  <2>6. \A t \in Stream : h \notin Elements(down[t])
    BY <2>5 DEF Traced, OnWire
  <2>7. execs[h] = 0
    BY <2>5 DEF Traced, AtClient
  <2>8. ASSUME NEW c \in Call, c = h PROVE Known(c)'
    <3>1. sender'[s] = "sent" /\ hand'[s] = c
      BY <2>1, <2>8 DEF ServerInv, CoreTypeOK
    <3>2. QED  BY <3>1 DEF Known
  <2>9. /\ Elements(Append(down[s], h)) = Elements(down[s]) \cup {h}
        /\ NoRepeat(down[s]) => NoRepeat(Append(down[s], h))
    BY <2>2, <2>6, AppendElements
  <2> HIDE DEF h
  <2>10. CASE down' = down
    <3>1. TracesKnown'
      BY <1>0, <1>1, <2>1, <2>10 DEF TracesKnown, Traced, OnWire
    <3>2. SentOnce'
      BY <1>0, <2>10 DEF SentOnce
    <3>3. QED  BY <3>1, <3>2
  <2>11. CASE down' = [down EXCEPT ![s] = Append(@, h)]
    <3>1. /\ down'[s] = Append(down[s], h)
          /\ \A t \in Stream : t # s => down'[t] = down[t]
      BY <2>11
    <3>2. ASSUME NEW c \in Call, Traced(c)' PROVE Known(c)'
      <4>1. c = h \/ Traced(c)
        <5>1. CASE AtClient(c)'
          BY <1>0, <5>1 DEF Traced
        <5>2. CASE OnWire(c)'
          <6>1. PICK t \in Stream : c \in Elements(down'[t]) \/ c \in Named(up'[t])
            BY <5>2 DEF OnWire
          <6>2. CASE t = s
            BY <2>1, <2>9, <3>1, <6>1, <6>2 DEF Traced, OnWire
          <6>3. CASE t # s
            BY <2>1, <3>1, <6>1, <6>3 DEF Traced, OnWire
          <6>4. QED  BY <6>2, <6>3
        <5>3. QED  BY <3>2, <5>1, <5>2 DEF Traced
      <4>2. QED  BY <1>1, <2>8, <4>1 DEF TracesKnown
    <3>3. \A t \in Stream : NoRepeat(down'[t]) /\ \A c \in Elements(down'[t]) : execs[c] = 0
      BY <2>7, <2>9, <3>1 DEF SentOnce
    <3>4. \A t, u \in Stream : t # u => Elements(down'[t]) \cap Elements(down'[u]) = {}
      <4>1. ASSUME NEW t \in Stream, NEW u \in Stream, t # u, t # s
            PROVE  Elements(down'[t]) \cap Elements(down'[u]) = {}
        <5>1. CASE u = s
          BY <2>6, <2>9, <3>1, <4>1, <5>1 DEF SentOnce
        <5>2. CASE u # s
          BY <3>1, <4>1, <5>2 DEF SentOnce
        <5>3. QED  BY <5>1, <5>2
      <4>2. QED  BY <4>1
    <3>5. QED  BY <1>0, <3>2, <3>3, <3>4 DEF TracesKnown, SentOnce
  <2>12. QED  BY <2>1, <2>10, <2>11
<1>4. ASSUME UNCHANGED down,
             \A t \in Stream, c \in Call : c \in Named(up'[t]) => c \in Named(up[t])
      PROVE  TracesKnown' /\ SentOnce'
  <2>1. ASSUME NEW c \in Call, Traced(c)' PROVE Known(c)'
    <3>1. Traced(c)
      BY <1>0, <1>4, <2>1 DEF Traced, OnWire
    <3>2. QED  BY <1>1, <3>1 DEF TracesKnown
  <2>2. SentOnce'
    BY <1>0, <1>4 DEF SentOnce
  <2>3. QED  BY <2>1, <2>2 DEF TracesKnown
<1>5. ASSUME NEW s \in Stream, UNCHANGED down,
             \/ up[s] # <<>> /\ up' = [up EXCEPT ![s] = Tail(@)]
             \/ up' = [up EXCEPT ![s] = <<>>]
      PROVE  TracesKnown' /\ SentOnce'
  <2>1. up[s] \in Seq(Msg)
    BY DEF Msg
  <2>2. /\ up[s] # <<>> => Named(Tail(up[s])) \subseteq Named(up[s])
        /\ Named(<<>>) = {}
    BY <2>1, NamedQueue
  <2>3. \A t \in Stream, c \in Call : c \in Named(up'[t]) => c \in Named(up[t])
    BY <1>5, <2>2
  <2>4. QED  BY <1>4, <1>5, <2>3
<1>6. CASE UNCHANGED <<up, down>>
  <2>1. \A t \in Stream, c \in Call : c \in Named(up'[t]) => c \in Named(up[t])
    BY <1>6
  <2>2. QED  BY <1>2, <1>4, <1>6, <2>1
<1>7. QED  BY <1>2, <1>3, <1>5, <1>6, ServerWire

-----------------------------------------------------------------------------
(* Steps of the client.                                                    *)

\* A step of the client passes on what it has of an action and adds nothing.
LEMMA ClientTraces ==
  ASSUME TypeInv, ClientNext, NEW c \in Call, Traced(c)'
  PROVE  Traced(c)
<1> USE DEF TypeInv, TypeOK, WireTypeOK, ClientTypeOK
<1>0. c # None /\ InitMsg.call = None
  BY NoneAssumption DEF InitMsg
<1>1. \A t \in Stream : up[t] \in Seq(Msg) /\ down[t] \in Seq(Call)
  BY DEF Msg
<1>2. ASSUME UNCHANGED <<up, down>>, AtClient(c)' => AtClient(c) PROVE Traced(c)
  BY <1>2 DEF Traced, OnWire
<1>3. CASE (\E s \in Stream : Dial(s)) \/ LoopEnd \/ SendInitFails \/ ClientSendQuit
  BY <1>2, <1>3 DEF Dial, LoopEnd, SendInitFails, ClientSendQuit, wireVars, AtClient
<1>4. CASE ClientRestart
  <2>1. Named(<<>>) = {}
    BY <1>1, EmptySeq, NamedQueue
  <2>2. QED  BY <1>0, <1>2, <1>4, <2>1 DEF ClientRestart, Fresh, AtClient
<1>5. CASE ClientRecv
  <2> DEFINE h == Head(down[cstream])
  <2>1. cstream \in Stream /\ down[cstream] # <<>>
    BY <1>5 DEF ClientRecv, ClientFits
  <2>2. /\ Elements(down[cstream]) = {h} \cup Elements(Tail(down[cstream]))
        /\ h \in Call
    BY <1>1, <2>1, TailElements
  <2> HIDE DEF h
  <2>3. /\ down' = [down EXCEPT ![cstream] = Tail(@)] /\ UNCHANGED <<up, results, cres>>
        /\ \/ creq' = h /\ UNCHANGED <<executing, execs>>
           \/ /\ executing' = executing \cup {h} /\ UNCHANGED creq
              /\ execs' = [execs EXCEPT ![h] = @ + 1]
    BY <1>5 DEF ClientRecv, h
  <2>4. OnWire(c)' => OnWire(c)
    BY <2>1, <2>2, <2>3 DEF OnWire
  <2>5. AtClient(c)' => AtClient(c) \/ c = h
    BY <2>2, <2>3 DEF AtClient
  <2>6. c = h => OnWire(c)
    BY <2>1, <2>2 DEF OnWire
  <2>7. QED  BY <2>4, <2>5, <2>6 DEF Traced
<1>6. CASE ClientRecvFail
  <2>1. cstream \in Stream /\ Elements(<<>>) = {}
    BY <1>6 DEF ClientRecvFail, ClientFits, Elements
  <2>2. OnWire(c)' => OnWire(c)
    BY <1>6, <2>1 DEF ClientRecvFail, OnWire
  <2>3. AtClient(c)' => AtClient(c)
    BY <1>6 DEF ClientRecvFail, AtClient
  <2>4. QED  BY <2>2, <2>3 DEF Traced
<1>7. CASE ClientRefuse
  <2> DEFINE r == [call |-> creq, status |-> Refusal]
  <2>1. r \in Response /\ r.call = creq
    BY <1>7 DEF ClientRefuse, ClientFits, Refusal, Response
  <2>2. Named(Append(results, r)) = Named(results) \cup {creq}
    BY <2>1, NamedQueue
  <2>3. results' = Append(results, r) /\ creq' = None
        /\ UNCHANGED <<up, down, executing, execs, cres>>
    BY <1>7 DEF ClientRefuse, PushResult, wireVars
  <2> HIDE DEF r
  <2>4. QED  BY <1>0, <1>2, <2>2, <2>3 DEF AtClient
<1>8. ASSUME NEW d \in Call, Execute(d) PROVE Traced(c)
  <2>1. PICK st \in {"success", "failed"} : PushResult(d, st)
    BY <1>8 DEF Execute
  <2> DEFINE r == [call |-> d, status |-> st]
  <2>2. r \in Response /\ r.call = d
    BY DEF Response
  <2>3. Named(Append(results, r)) = Named(results) \cup {d}
    BY <2>2, NamedQueue
  <2>4. /\ results' = Append(results, r)
        /\ d \in executing /\ executing' = executing \ {d}
        /\ UNCHANGED <<up, down, creq, execs, cres>>
    BY <1>8, <2>1 DEF Execute, PushResult, wireVars
  <2> HIDE DEF r
  <2>5. QED  BY <1>2, <2>3, <2>4 DEF AtClient
<1>9. CASE SendInit
  <2>1. ASSUME NEW t \in Stream PROVE c \in Named(up'[t]) => c \in Named(up[t])
    <3>1. \/ up'[t] = up[t]
          \/ up'[t] = Append(up[t], InitMsg)
      BY <1>9 DEF SendInit, SendUp
    <3>2. Named(Append(up[t], InitMsg)) = Named(up[t]) \cup {None}
      <4>1. InitMsg \in Msg /\ up[t] \in Seq(Msg)
        BY <1>1 DEF Msg
      <4>2. QED  BY <1>0, <4>1, NamedQueue
    <3>3. QED  BY <1>0, <3>1, <3>2
  <2>2. UNCHANGED <<down, creq, executing, execs, results, cres>>
    BY <1>9 DEF SendInit, SendUp
  <2>3. QED  BY <2>1, <2>2 DEF Traced, OnWire, AtClient
<1>10. CASE ClientSend
  <2>1. /\ Head(results) \in Msg
        /\ Named(results) = {Head(results).call} \cup Named(Tail(results))
    BY <1>10, TailElements, NamedQueue DEF ClientSend, Msg
  <2>2. ASSUME NEW t \in Stream
        PROVE  c \in Named(up'[t]) => c \in Named(up[t]) \cup Named(results)
    <3>1. \/ up'[t] = up[t]
          \/ up'[t] = Append(up[t], Head(results))
      BY <1>10 DEF ClientSend, SendUp
    <3>2. Named(Append(up[t], Head(results))) = Named(up[t]) \cup {Head(results).call}
      BY <1>1, <2>1, NamedQueue
    <3>3. QED  BY <2>1, <3>1, <3>2
  <2>3. results' = Tail(results) /\ UNCHANGED <<down, creq, executing, execs, cres>>
    BY <1>10 DEF ClientSend, SendUp
  <2>4. OnWire(c)' => OnWire(c) \/ c \in Named(results)
    BY <2>2, <2>3 DEF OnWire
  <2>5. AtClient(c)' => AtClient(c)
    BY <2>1, <2>3 DEF AtClient
  <2>6. c \in Named(results) => AtClient(c)
    BY DEF AtClient
  <2>7. QED  BY <2>4, <2>5, <2>6 DEF Traced
<1>11. CASE ClientSendFails
  <2>1. Named(results) = {Head(results).call} \cup Named(Tail(results))
    BY <1>11, NamedQueue DEF ClientSendFails
  <2>2. /\ results' = Tail(results) /\ cres' = Head(results)
        /\ UNCHANGED <<up, down, creq, executing, execs>>
    BY <1>11 DEF ClientSendFails, wireVars
  <2>3. QED  BY <1>2, <2>1, <2>2 DEF AtClient
<1>12. CASE ClientRequeue
  <2> DEFINE r == [call |-> cres.call, status |-> cres.status]
  <2>1. r \in Response /\ r.call = cres.call
    BY <1>12 DEF ClientRequeue, ClientFits, Response
  <2>2. Named(Append(results, r)) = Named(results) \cup {cres.call}
    BY <2>1, NamedQueue
  <2>3. results' = Append(results, r) /\ cres' = InitMsg
        /\ UNCHANGED <<up, down, creq, executing, execs>>
    BY <1>12 DEF ClientRequeue, PutBack, PushResult, wireVars
  <2> HIDE DEF r
  <2>4. QED  BY <1>0, <1>2, <2>2, <2>3 DEF AtClient
<1>13. QED  BY <1>3, <1>4, <1>5, <1>6, <1>7, <1>8, <1>9, <1>10, <1>11, <1>12
               DEF ClientNext, ReceivingStep, SendingStep

LEMMA ClientKeepsTraces ==
  ASSUME AnswersInv, ClientNext, UNCHANGED serverVars
  PROVE  TracesKnown' /\ SentOnce' /\ ExecutedOnce'
<1> USE DEF AnswersInv, TypeInv, TypeOK, WireTypeOK, ClientTypeOK
<1>1. \A c \in Call : Known(c)' <=> Known(c)
  BY DEF serverVars, callVars, handlerVars, Known
<1>2. TracesKnown'
  BY <1>1, ClientTraces DEF TracesKnown
<1>3. CASE ClientRecv
  <2> DEFINE h == Head(down[cstream])
  <2>1. cstream \in Stream /\ down[cstream] # <<>> /\ down[cstream] \in Seq(Call)
    BY <1>3 DEF ClientRecv, ClientFits
  <2>2. /\ Elements(down[cstream]) = {h} \cup Elements(Tail(down[cstream])) /\ h \in Call
        /\ h \notin Elements(Tail(down[cstream])) /\ NoRepeat(Tail(down[cstream]))
    BY <2>1, TailElements DEF SentOnce
  <2> HIDE DEF h
  <2>3. /\ down'[cstream] = Tail(down[cstream])
        /\ \A t \in Stream : t # cstream => down'[t] = down[t]
        /\ execs' = execs \/ execs' = [execs EXCEPT ![h] = @ + 1]
    BY <1>3, <2>1 DEF ClientRecv, h
  <2>4. execs[h] = 0 /\ \A c \in Call : c # h => execs'[c] = execs[c]
    BY <2>1, <2>2, <2>3 DEF SentOnce
  <2>5. \A t \in Stream : /\ h \notin Elements(down'[t])
                          /\ Elements(down'[t]) \subseteq Elements(down[t])
                          /\ NoRepeat(down'[t])
    BY <2>1, <2>2, <2>3 DEF SentOnce
  <2>6. \A t \in Stream : Elements(down[t]) \subseteq Call
    BY DEF Elements
  <2>7. \A t \in Stream : \A c \in Elements(down'[t]) : execs'[c] = 0
    BY <2>4, <2>5, <2>6 DEF SentOnce
  <2>8. \A t, u \in Stream : t # u => Elements(down'[t]) \cap Elements(down'[u]) = {}
    BY <2>5 DEF SentOnce
  <2>9. ExecutedOnce'
    BY <2>2, <2>3, <2>4 DEF ExecutedOnce
  <2>10. QED  BY <1>2, <2>5, <2>7, <2>8, <2>9 DEF SentOnce
<1>4. CASE ClientRecvFail
  <2>1. cstream \in Stream /\ Elements(<<>>) = {} /\ NoRepeat(<<>>)
    BY <1>4 DEF ClientRecvFail, ClientFits, Elements, NoRepeat
  <2>2. /\ down'[cstream] = <<>> /\ UNCHANGED execs
        /\ \A t \in Stream : t # cstream => down'[t] = down[t]
    BY <1>4, <2>1 DEF ClientRecvFail
  <2>3. \A t \in Stream : Elements(down'[t]) \subseteq Elements(down[t]) /\ NoRepeat(down'[t])
    BY <2>1, <2>2 DEF SentOnce
  <2>4. SentOnce'
    BY <2>2, <2>3 DEF SentOnce
  <2>5. QED  BY <1>2, <2>2, <2>4 DEF ExecutedOnce
<1>5. CASE ~ClientRecv /\ ~ClientRecvFail
  <2>1. UNCHANGED <<down, execs>>
    BY <1>5 DEF ClientNext, Dial, LoopEnd, ReceivingStep, ClientRefuse, SendingStep,
                SendInit, SendInitFails, ClientSend, ClientSendFails, ClientRequeue,
                ClientSendQuit, Execute, ClientRestart, SendUp, wireVars
  <2>2. QED  BY <1>2, <2>1 DEF SentOnce, ExecutedOnce
<1>6. QED  BY <1>3, <1>4, <1>5

-----------------------------------------------------------------------------

LEMMA AnswersInvariant == Spec => []AnswersInv
<1>1. Init => LockHeld /\ TracesKnown /\ SentOnce /\ ExecutedOnce
  <2> SUFFICES ASSUME Init PROVE LockHeld /\ TracesKnown /\ SentOnce /\ ExecutedOnce
    OBVIOUS
  <2>1. Named(<<>>) = {} /\ Elements(<<>>) = {} /\ NoRepeat(<<>>)
    BY DEF Named, Elements, NoRepeat
  <2>2. \A c \in Call : execs[c] = 0
    BY DEF Init, ClientInit
  <2>3. \A c \in Call : ~Traced(c)
    BY <2>1, <2>2, NoneAssumption
       DEF Init, WireInit, ClientInit, Traced, OnWire, AtClient, InitMsg
  <2>4. SentOnce
    BY <2>1 DEF Init, WireInit, SentOnce
  <2>5. LockHeld
    BY DEF Init, ServerInit, LockHeld
  <2>6. QED  BY <2>2, <2>3, <2>4, <2>5 DEF TracesKnown, ExecutedOnce
<1>2. AnswersInv /\ [Next]_vars => (LockHeld /\ TracesKnown /\ SentOnce /\ ExecutedOnce)'
  <2> SUFFICES ASSUME AnswersInv, [Next]_vars
               PROVE  LockHeld' /\ TracesKnown' /\ SentOnce' /\ ExecutedOnce'
    OBVIOUS
  <2>1. CASE ServerNext /\ UNCHANGED clientVars
    BY <2>1, LockStays, ServerKeepsTraces DEF AnswersInv
  <2>2. CASE ClientNext /\ UNCHANGED serverVars
    BY <2>2, ClientKeepsTraces
       DEF AnswersInv, LockHeld, serverVars, appVars, handlerVars
  <2>3. CASE \/ \E s \in Stream : NetBreak(s) /\ UNCHANGED <<serverVars, clientVars>>
             \/ UNCHANGED vars
    <3>1. UNCHANGED <<up, down, sender, hand, actionsLock, call, sentActions, creq,
                      executing, execs, results, cres>>
      BY <2>3 DEF NetBreak, vars, wireVars, serverVars, appVars, callVars, handlerVars,
                  clientVars
    <3>2. \A c \in Call : (Traced(c)' <=> Traced(c)) /\ (Known(c)' <=> Known(c))
      BY <3>1 DEF Traced, OnWire, AtClient, Known
    <3>3. QED
      BY <3>1, <3>2 DEF AnswersInv, LockHeld, TracesKnown, SentOnce, ExecutedOnce
  <2>4. QED  BY <2>1, <2>2, <2>3 DEF Next
<1>3. QED  BY <1>1, <1>2, TypeInvariant, PTL DEF Spec, AnswersInv

\* No action is executed twice: a sender takes an action that nobody sent, and
\* one whose Send failed left nothing on the stream.
THEOREM ActionsExecuteOnce == Spec => []ExecutedOnce
<1>1. AnswersInv => ExecutedOnce
  BY DEF AnswersInv
<1>2. QED  BY <1>1, AnswersInvariant, PTL

\* A receiver takes the lock, so no sender is between Send and the entry: an
\* answer finds its action in sentActions, unless the call has returned.
THEOREM ActionsDropNoAnswer == Spec => NoAnswerDropped
<1>1. ASSUME AnswersInv, NEW s \in Stream, ReceiverRecv(s), Head(up[s]).call \in Call
      PROVE  call'[Head(up[s]).call] = "done"
  <2> DEFINE c == Head(up[s]).call
  <2>1. up[s] # <<>> /\ up[s] \in Seq(Msg)
    BY <1>1 DEF ReceiverRecv, AnswersInv, TypeInv, TypeOK, WireTypeOK, Msg
  <2>2. c \in Named(up[s])
    BY <2>1, NamedQueue
  <2>3. Known(c)
    BY <1>1, <2>2 DEF AnswersInv, TracesKnown, Traced, OnWire
  <2>4. \A t \in Stream : sender[t] # "sent"
    BY <1>1, NoneAssumption DEF ReceiverRecv, LockFree, AnswersInv, LockHeld
  <2>5. c \in sentActions \/ call[c] = "done"
    BY <2>3, <2>4 DEF Known
  <2>6. call' = [d \in Call |-> IF d \in {c} \cap sentActions THEN "done" ELSE call[d]]
    BY <1>1 DEF ReceiverRecv, Callback
  <2>7. QED  BY <1>1, <2>5, <2>6
<1>2. AnswersInv /\ [Next]_vars
        => [\A s \in Stream : ReceiverRecv(s) /\ Head(up[s]).call \in Call
              => call'[Head(up[s]).call] = "done"]_vars
  BY <1>1
<1>3. QED  BY <1>2, AnswersInvariant, PTL DEF Spec, NoAnswerDropped
-----------------------------------------------------------------------------
(* What PerformAction promises.  An answer is earned: its action was       *)
(* executed, or could not be.                                              *)

Earned(r) ==
  r.call \in Call => \/ execs[r.call] = 1
                     \/ r.status = "failed" /\ r.call \in Undefined

AllEarned ==
  /\ \A s \in Stream : \A r \in Elements(up[s]) : Earned(r)
  /\ \A r \in Elements(results) : Earned(r)
  /\ Earned(cres)
  /\ \A c \in executing : execs[c] = 1
  /\ creq # None => creq \in Undefined

\* Nothing lowers the count of executions.
LEMMA EarnedStays ==
  ASSUME AnswersInv, [Next]_vars
  PROVE  /\ \A c \in Call : execs[c] = 1 => execs'[c] = 1
         /\ \A r \in Msg : Earned(r) => Earned(r)'
<1>1. execs \in [Call -> Nat]
  BY DEF AnswersInv, TypeInv, TypeOK, ClientTypeOK
<1>2. CASE UNCHANGED execs
  BY <1>2 DEF Earned
<1>3. CASE ClientRecv
  <2> DEFINE h == Head(down[cstream])
  <2>1. /\ cstream \in Stream /\ down[cstream] # <<>> /\ down[cstream] \in Seq(Call)
        /\ execs' = execs \/ execs' = [execs EXCEPT ![h] = @ + 1]
    BY <1>3 DEF ClientRecv, AnswersInv, TypeInv, TypeOK, WireTypeOK, ClientFits
  <2>2. h \in Elements(down[cstream])
    BY <2>1, TailElements
  <2>3. execs[h] = 0
    BY <2>1, <2>2 DEF AnswersInv, SentOnce
  <2> HIDE DEF h
  <2>4. \A c \in Call : execs[c] = 1 => execs'[c] = 1
    BY <1>1, <2>1, <2>3
  <2>5. QED  BY <2>4 DEF Earned
<1>4. CASE ClientNext /\ ~ClientRecv
  <2>1. UNCHANGED execs
    BY <1>4 DEF ClientNext, Dial, LoopEnd, ReceivingStep, ClientRefuse, ClientRecvFail,
                SendingStep, SendInit, SendInitFails, ClientSend, ClientSendFails,
                ClientRequeue, ClientSendQuit, Execute, ClientRestart
  <2>2. QED  BY <1>2, <2>1
<1>5. QED  BY <1>2, <1>3, <1>4 DEF Next, vars, clientVars

LEMMA ServerKeepsEarned ==
  ASSUME AnswersInv, AllEarned, ServerNext, UNCHANGED clientVars
  PROVE  AllEarned'
<1> USE DEF AnswersInv, TypeInv, TypeOK, WireTypeOK
<1>1. UNCHANGED <<creq, executing, execs, results, cres>>
  BY DEF clientVars
<1>2. ASSUME NEW s \in Stream PROVE Elements(up'[s]) \subseteq Elements(up[s])
  <2>1. up[s] \in Seq(Msg) /\ Elements(<<>>) = {}
    BY DEF Msg, Elements
  <2>2. \/ up'[s] = up[s] \/ up'[s] = <<>>
        \/ up[s] # <<>> /\ up'[s] = Tail(up[s])
    BY ServerWire DEF SenderSend, SendDown
  <2>3. QED  BY <2>1, <2>2, TailElements, ZenonT(40)
<1>3. QED  BY <1>1, <1>2 DEF AllEarned, Earned

LEMMA ClientKeepsEarned ==
  ASSUME AnswersInv, AllEarned, ClientNext, UNCHANGED serverVars
  PROVE  AllEarned'
<1> USE DEF AnswersInv, TypeInv, TypeOK, WireTypeOK, ClientTypeOK
<1>0. None \notin Call /\ InitMsg.call = None /\ InitMsg \in Msg
  BY NoneAssumption DEF InitMsg, Msg
<1>1. /\ \A c \in Call : execs[c] = 1 => execs'[c] = 1
      /\ \A r \in Msg : Earned(r) => Earned(r)'
  BY EarnedStays DEF Next
<1>2. /\ \A s \in Stream : up[s] \in Seq(Msg) /\ \A r \in Elements(up[s]) : r \in Msg
      /\ results \in Seq(Msg) /\ \A r \in Elements(results) : r \in Response /\ r \in Msg
      /\ cres \in Msg
  BY DEF Msg, Elements
<1>3. ASSUME \A s \in Stream : \A r \in Elements(up'[s]) :
               r \in Elements(up[s]) \/ r \in Elements(results) \/ r = InitMsg,
             \A r \in Elements(results') :
               \/ r \in Elements(results) \/ r = cres
               \/ r \in Msg /\ Earned(r)',
             cres' = cres \/ cres' = InitMsg \/ cres' \in Elements(results),
             \A c \in executing' : c \in executing \/ execs'[c] = 1,
             creq' = creq \/ creq' = None \/ creq' \in Undefined
      PROVE  AllEarned'
  <2>1. Earned(InitMsg)' /\ \A r \in Msg : Earned(r) => Earned(r)'
    BY <1>0, <1>1 DEF Earned
  <2>2. \A s \in Stream : \A r \in Elements(up'[s]) : Earned(r)'
    BY <1>2, <1>3, <2>1 DEF AllEarned
  <2>3. \A r \in Elements(results') : Earned(r)'
    BY <1>2, <1>3, <2>1 DEF AllEarned
  <2>4. Earned(cres)'
    <3>1. ASSUME NEW r \in Msg, r = cres', Earned(r) PROVE Earned(cres)'
      BY <1>1, <3>1 DEF Earned
    <3>2. \E r \in Msg : r = cres' /\ Earned(r)
      BY <1>0, <1>2, <1>3 DEF AllEarned, Earned
    <3>3. QED  BY <3>1, <3>2
  <2>5. \A c \in executing' : execs'[c] = 1
    BY <1>1, <1>3 DEF AllEarned
  <2>6. QED  BY <1>3, <2>2, <2>3, <2>4, <2>5 DEF AllEarned
<1>4. CASE ClientRecv
  <2> DEFINE h == Head(down[cstream])
  <2>1. /\ cstream \in Stream /\ down[cstream] # <<>> /\ down[cstream] \in Seq(Call)
        /\ UNCHANGED <<up, results, cres>>
        /\ \/ h \in Undefined /\ creq' = h /\ UNCHANGED <<executing, execs>>
           \/ /\ executing' = executing \cup {h} /\ UNCHANGED creq
              /\ execs' = [execs EXCEPT ![h] = @ + 1]
    BY <1>4 DEF ClientRecv, ClientFits
  <2>2. h \in Call /\ h \in Elements(down[cstream])
    BY <2>1, TailElements
  <2>3. execs[h] = 0
    BY <2>1, <2>2 DEF SentOnce
  <2> HIDE DEF h
  <2>4. \A c \in executing' : c \in executing \/ execs'[c] = 1
    BY <2>1, <2>2, <2>3
  <2>5. QED  BY <1>3, <2>1, <2>4
<1>5. CASE \/ \E s \in Stream : Dial(s)
           \/ LoopEnd \/ SendInitFails \/ ClientSendQuit \/ ClientRecvFail
  <2>1. UNCHANGED <<up, results, cres, executing, execs, creq>>
    BY <1>5 DEF Dial, LoopEnd, SendInitFails, ClientSendQuit, ClientRecvFail, wireVars
  <2>2. QED  BY <1>3, <2>1
<1>6. CASE ClientRestart
  <2>1. Elements(<<>>) = {}
    BY DEF Elements
  <2>2. QED  BY <1>3, <1>6, <2>1 DEF ClientRestart, Fresh
<1>7. ASSUME NEW r \in Response, Earned(r)', results' = Append(results, r),
             UNCHANGED up,
             cres' = cres \/ cres' = InitMsg, executing' \subseteq executing,
             creq' = creq \/ creq' = None
      PROVE  AllEarned'
  <2>1. Elements(results') = Elements(results) \cup {r} /\ r \in Msg
    BY <1>7, AppendElements DEF Msg
  <2>2. QED  BY <1>3, <1>7, <2>1
<1>8. CASE ClientRefuse
  <2> DEFINE r == [call |-> creq, status |-> Refusal]
  <2>1. r \in Response /\ r.call \in Undefined /\ r.status = "failed"
    BY <1>0, <1>8 DEF ClientRefuse, ClientFits, Refusal, Response, AllEarned
  <2>2. /\ results' = Append(results, r) /\ creq' = None
        /\ UNCHANGED <<up, executing, cres>>
    BY <1>8 DEF ClientRefuse, PushResult, wireVars
  <2>3. ASSUME NEW q \in Response, q = r PROVE Earned(q)'
    BY <2>1, <2>3 DEF Earned
  <2> HIDE DEF r
  <2>4. QED  BY <1>7, <2>1, <2>2, <2>3
<1>9. ASSUME NEW d \in Call, Execute(d) PROVE AllEarned'
  <2>1. PICK st \in {"success", "failed"} : PushResult(d, st)
    BY <1>9 DEF Execute
  <2> DEFINE r == [call |-> d, status |-> st]
  <2>2. r \in Response /\ r.call = d
    BY DEF Response
  <2>3. /\ results' = Append(results, r) /\ d \in executing /\ executing' = executing \ {d}
        /\ UNCHANGED <<up, creq, execs, cres>>
    BY <1>9, <2>1 DEF Execute, PushResult, wireVars
  <2>4. execs'[d] = 1
    BY <2>3 DEF AllEarned
  <2>5. ASSUME NEW q \in Response, q = r PROVE Earned(q)'
    BY <2>2, <2>4, <2>5 DEF Earned
  <2> HIDE DEF r
  <2>6. QED  BY <1>7, <2>2, <2>3, <2>5
<1>10. CASE ClientRequeue
  <2> DEFINE r == [call |-> cres.call, status |-> cres.status]
  <2>1. cres \in Response /\ r = cres
    BY <1>10 DEF ClientRequeue, ClientFits, Response
  <2>2. results' = Append(results, r) /\ cres' = InitMsg
        /\ UNCHANGED <<up, creq, executing, execs>>
    BY <1>10 DEF ClientRequeue, PutBack, PushResult, wireVars
  <2> HIDE DEF r
  <2>3. ASSUME NEW q \in Response, q = r PROVE Earned(q)'
    BY <1>1, <2>1, <2>3 DEF AllEarned, Msg
  <2>4. QED  BY <1>7, <2>1, <2>2, <2>3
<1>11. CASE SendInit
  <2>1. ASSUME NEW s \in Stream, NEW r \in Elements(up'[s])
        PROVE  r \in Elements(up[s]) \/ r = InitMsg
    <3>1. up'[s] = up[s] \/ up'[s] = Append(up[s], InitMsg)
      BY <1>11 DEF SendInit, SendUp
    <3>2. Elements(Append(up[s], InitMsg)) = Elements(up[s]) \cup {InitMsg}
      BY <1>0, <1>2, AppendElements
    <3>3. CASE up'[s] = up[s]
      BY <2>1, <3>3
    <3>4. CASE up'[s] = Append(up[s], InitMsg)
      BY <2>1, <3>2, <3>4
    <3>5. QED  BY <3>1, <3>3, <3>4
  <2>2. UNCHANGED <<results, creq, executing, execs, cres>>
    BY <1>11 DEF SendInit
  <2>3. QED  BY <1>3, <2>1, <2>2
<1>12. CASE ClientSend \/ ClientSendFails
  <2>1. /\ results # <<>> /\ results' = Tail(results)
        /\ cres' = cres \/ cres' = Head(results)
        /\ UNCHANGED <<creq, executing, execs>>
    BY <1>12 DEF ClientSend, ClientSendFails
  <2>2. /\ Elements(results) = {Head(results)} \cup Elements(Tail(results))
        /\ Head(results) \in Msg
    BY <1>2, <2>1, TailElements
  <2>3. ASSUME NEW s \in Stream, NEW r \in Elements(up'[s])
        PROVE  r \in Elements(up[s]) \/ r \in Elements(results)
    <3>1. up'[s] = up[s] \/ up'[s] = Append(up[s], Head(results))
      BY <1>12 DEF ClientSend, ClientSendFails, SendUp, wireVars
    <3>2. Elements(Append(up[s], Head(results))) = Elements(up[s]) \cup {Head(results)}
      BY <1>2, <2>2, AppendElements
    <3>3. QED  BY <2>2, <2>3, <3>1, <3>2
  <2>4. QED  BY <1>3, <2>1, <2>2, <2>3
<1>13. QED  BY <1>4, <1>5, <1>6, <1>8, <1>9, <1>10, <1>11, <1>12
               DEF ClientNext, ReceivingStep, SendingStep

LEMMA EarnedInvariant == Spec => [](AnswersInv /\ AllEarned)
<1>1. Init => AllEarned
  <2>1. Elements(<<>>) = {}
    BY DEF Elements
  <2>2. QED
    BY <2>1, NoneAssumption DEF Init, WireInit, ClientInit, AllEarned, Earned, InitMsg
<1>2. AnswersInv /\ AllEarned /\ [Next]_vars => AllEarned'
  <2> SUFFICES ASSUME AnswersInv, AllEarned, [Next]_vars PROVE AllEarned'
    OBVIOUS
  <2>1. CASE ServerNext /\ UNCHANGED clientVars
    BY <2>1, ServerKeepsEarned
  <2>2. CASE ClientNext /\ UNCHANGED serverVars
    BY <2>2, ClientKeepsEarned
  <2>3. CASE \/ \E s \in Stream : NetBreak(s) /\ UNCHANGED <<serverVars, clientVars>>
             \/ UNCHANGED vars
    <3>1. UNCHANGED <<up, results, cres, executing, execs, creq>>
      BY <2>3 DEF NetBreak, vars, wireVars, clientVars
    <3>2. QED  BY <3>1 DEF AllEarned, Earned
  <2>4. QED  BY <2>1, <2>2, <2>3 DEF Next
<1>3. QED  BY <1>1, <1>2, AnswersInvariant, PTL DEF Spec

-----------------------------------------------------------------------------
(* The refinement: steps of the protocol are steps of ActionCall.          *)

Outcome == {"success", "failed", "timedout", "cancelled"}

\* Answering calls that wait is a Return, answering nobody is no step.
LEMMA CallbackReturns ==
  ASSUME AnswersInv, NEW C \in SUBSET Call, NEW r, Callback(C, r), UNCHANGED execs,
         \A c \in C : /\ call[c] = "waiting" /\ r \in Outcome
                      /\ \/ r \in {"timedout", "cancelled"}
                         \/ r \in {"success", "failed"} /\ execs[c] = 1
                         \/ r = "failed" /\ c \in Undefined
  PROVE  [Promise!Next]_(Promise!callVars)
<1>1. /\ call \in [Call -> {"idle", "pushing", "waiting", "done"}]
      /\ result \in [Call -> Result]
  BY DEF AnswersInv, TypeInv, TypeOK, ServerTypeOK
<1>2. /\ call'   = [c \in Call |-> IF c \in C THEN "done" ELSE call[c]]
      /\ result' = [c \in Call |-> IF c \in C THEN r ELSE result[c]]
  BY DEF Callback
<1>3. CASE C = {}
  <2>1. call' = call /\ result' = result
    BY <1>1, <1>2, <1>3
  <2>2. QED  BY <2>1 DEF Promise!callVars
<1>4. CASE C # {}
  <2>1. r \in Outcome
    BY <1>4
  <2>2. Promise!Return(C, r)
    BY <1>1, <1>2 DEF Promise!Return, Promise!Justified
  <2>3. QED  BY <2>1, <2>2 DEF Promise!Next, Outcome
<1>5. QED  BY <1>3, <1>4

\* A step that changes no call but from pushing to waiting is no step.
LEMMA QuietPromise ==
  ASSUME UNCHANGED <<result, execs>>,
         \A c \in Call : call'[c] = call[c] \/ (call[c] = "pushing" /\ call'[c] = "waiting")
  PROVE  UNCHANGED Promise!callVars
<1> DEFINE phase(st) == CASE st = "idle" -> "idle"
                          [] st \in {"pushing", "waiting"} -> "called"
                          [] st = "done" -> "returned"
<1>1. \A c \in Call : phase(call'[c]) = phase(call[c])
  OBVIOUS
<1> HIDE DEF phase
<1>2. [c \in Call |-> phase(call'[c])] = [c \in Call |-> phase(call[c])]
  BY <1>1
<1>3. QED  BY <1>2 DEF Promise!callVars, phase

LEMMA ServerKeepsPromise ==
  ASSUME AnswersInv, AllEarned, ServerNext, UNCHANGED clientVars
  PROVE  [Promise!Next]_(Promise!callVars)
<1>0. UNCHANGED execs
  BY DEF clientVars
<1> DEFINE Kept == [Promise!Next]_(Promise!callVars)
<1>1. /\ call \in [Call -> {"idle", "pushing", "waiting", "done"}]
      /\ result \in [Call -> Result]
      /\ pendingActions \in Seq(Call) /\ wdHand \in Seq(Call) /\ sentActions \in SUBSET Call
  BY DEF AnswersInv, TypeInv, TypeOK, ServerTypeOK
<1>2. ASSUME UNCHANGED callVars PROVE Kept
  <2>1. UNCHANGED result /\ \A c \in Call : call'[c] = call[c]
    BY <1>2 DEF callVars
  <2>2. QED  BY <1>0, <2>1, QuietPromise
<1>3. ASSUME NEW C \in SUBSET Call, NEW r \in {"timedout", "cancelled"}, Callback(C, r),
             \A c \in C : call[c] = "waiting"
      PROVE  Kept
  BY <1>0, <1>3, CallbackReturns DEF Outcome
<1>4. ASSUME NEW c \in Call, PerformActionBegin(c) PROVE Kept
  <2>1. CASE actionsConn
    <3>1. /\ call[c] = "idle" /\ call' = [call EXCEPT ![c] = "pushing"]
          /\ UNCHANGED <<result, execs>>
      BY <1>0, <1>4, <2>1 DEF PerformActionBegin
    <3>2. Promise!Invoke(c)
      BY <1>1, <3>1 DEF Promise!Invoke
    <3>3. QED  BY <3>2 DEF Promise!Next
  <2>2. CASE ~actionsConn
    <3>1. /\ call[c] = "idle" /\ call' = [call EXCEPT ![c] = "done"]
          /\ result' = [result EXCEPT ![c] = "cancelled"] /\ UNCHANGED execs
      BY <1>0, <1>4, <2>2 DEF PerformActionBegin
    <3>2. Promise!Reject(c)
      BY <1>1, <3>1 DEF Promise!Reject
    <3>3. QED  BY <3>2 DEF Promise!Next
  <2>3. QED  BY <2>1, <2>2
<1>5. ASSUME NEW c \in Call, PerformActionPush(c) PROVE Kept
  <2>1. call[c] = "pushing" /\ call' = [call EXCEPT ![c] = "waiting"] /\ UNCHANGED result
    BY <1>5 DEF PerformActionPush
  <2>2. \A d \in Call : call'[d] = call[d] \/ (call[d] = "pushing" /\ call'[d] = "waiting")
    BY <1>1, <2>1
  <2>3. QED  BY <1>0, <2>1, <2>2, QuietPromise
<1>6. ASSUME NEW s \in Stream, \/ HandlerStep(s) \/ FirstRecv(s) \/ ReceiverFail(s)
                               \/ SenderStep(s) /\ ~SenderTake(s)
      PROVE  Kept
  BY <1>2, <1>6 DEF HandlerStep, HandlerStart, HandlerFirst, HandlerGiveUp, HandlerConnect,
                    HandlerReturn, FirstRecv, ReceiverFail, SenderStep, SenderQuit,
                    SenderSend, SenderSendFails, SenderRecord, SenderRequeue
<1>7. ASSUME NEW q \in Seq(Call), q # <<>>, q = pendingActions \/ q = wdHand
      PROVE  {Head(q)} \in SUBSET Call /\ \A c \in {Head(q)} : call[c] = "waiting"
  <2>1. Head(q) \in Call /\ Head(q) \in Elements(q)
    BY <1>7, TailElements
  <2>2. QED  BY <1>7, <2>1 DEF AnswersInv, TypeInv, ServerInv, HeldOnce
<1>8. \A C : C \subseteq sentActions => C \in SUBSET Call /\ \A c \in C : call[c] = "waiting"
  BY <1>1 DEF AnswersInv, TypeInv, ServerInv, HeldOnce
<1>9. ASSUME NEW s \in Stream, SenderTake(s) PROVE Kept
  <2>1. pendingActions # <<>>
        /\ (UNCHANGED callVars \/ Callback({Head(pendingActions)}, "timedout"))
    BY <1>9 DEF SenderTake
  <2>2. QED  BY <1>1, <1>2, <1>3, <1>7, <2>1
<1>10. ASSUME NEW s \in Stream, ReceiverRecv(s) PROVE Kept
  <2> DEFINE m == Head(up[s])
             C == {m.call} \cap sentActions
  <2>1. Callback(C, m.status)
    BY <1>10 DEF ReceiverRecv
  <2>2. m \in Msg /\ m \in Elements(up[s])
    BY <1>10, TailElements DEF ReceiverRecv, AnswersInv, TypeInv, TypeOK, WireTypeOK, Msg
  <2>3. Earned(m)
    BY <2>2 DEF AllEarned
  <2>4. m.status \in {"success", "failed"}
    BY <2>2 DEF Msg, Response, InitMsg
  <2>5. C \in SUBSET Call /\ \A c \in C : call[c] = "waiting" /\ c = m.call
    BY <1>8
  <2> HIDE DEF m, C
  <2>6. QED
    BY <1>0, <2>1, <2>3, <2>4, <2>5, CallbackReturns DEF Earned, Outcome
<1>11. CASE Flush
  <2>1. CASE FlushBegin \/ FlushDrain \/ FlushPutBack
    BY <1>2, <2>1 DEF FlushBegin, FlushDrain, FlushPutBack
  <2>2. CASE FlushTimeOut
    BY <1>1, <1>3, <1>7, <2>2 DEF FlushTimeOut
  <2>3. CASE FlushSent
    BY <1>3, <1>8, <2>3 DEF FlushSent
  <2>4. QED  BY <1>11, <2>1, <2>2, <2>3 DEF Flush
<1>12. CASE Destroy
  <2>1. CASE DestroyBegin \/ DestroyDelete
    BY <1>2, <2>1 DEF DestroyBegin, DestroyDelete
  <2>2. CASE DestroyDrain
    BY <1>1, <1>2, <1>3, <1>7, <2>2 DEF DestroyDrain
  <2>3. CASE DestroySent
    BY <1>3, <1>8, <2>3 DEF DestroySent
  <2>4. QED  BY <1>12, <2>1, <2>2, <2>3 DEF Destroy
<1>13. ASSUME NEW c \in Call, Expire(c) PROVE Kept
  BY <1>2, <1>13 DEF Expire
<1>14. QED  BY <1>4, <1>5, <1>6, <1>9, <1>10, <1>11, <1>12, <1>13
               DEF ServerNext, CallerStep, ReceiverStep

LEMMA ClientKeepsPromise ==
  ASSUME AnswersInv, ClientNext, UNCHANGED serverVars
  PROVE  [Promise!Next]_(Promise!callVars)
<1>1. /\ call \in [Call -> {"idle", "pushing", "waiting", "done"}]
      /\ execs \in [Call -> Nat] /\ UNCHANGED <<call, result>>
  BY DEF AnswersInv, TypeInv, TypeOK, ServerTypeOK, ClientTypeOK, serverVars, callVars
<1>2. CASE UNCHANGED execs
  <2>1. UNCHANGED <<result, execs>> /\ \A c \in Call : call'[c] = call[c]
    BY <1>1, <1>2
  <2>2. QED  BY <2>1, QuietPromise
<1>3. CASE ClientRecv /\ execs' # execs
  <2> DEFINE h == Head(down[cstream])
  <2>1. /\ cstream \in Stream /\ down[cstream] # <<>> /\ down[cstream] \in Seq(Call)
        /\ execs' = [execs EXCEPT ![h] = @ + 1]
    BY <1>3 DEF ClientRecv, AnswersInv, TypeInv, TypeOK, WireTypeOK, ClientFits
  <2>2. h \in Call /\ h \in Elements(down[cstream])
    BY <2>1, TailElements
  <2>3. execs[h] = 0 /\ Known(h)
    BY <2>1, <2>2 DEF AnswersInv, SentOnce, TracesKnown, Traced, OnWire
  <2>4. call[h] # "idle"
    BY <2>2, <2>3, NoneAssumption
       DEF AnswersInv, TypeInv, ServerInv, HeldOnce, InHand, Known
  <2> HIDE DEF h
  <2>5. execs' = [execs EXCEPT ![h] = 1]
    BY <1>1, <2>1, <2>2, <2>3
  <2>6. Promise!Execute(h)
    BY <1>1, <2>2, <2>3, <2>4, <2>5 DEF Promise!Execute
  <2>7. QED  BY <2>2, <2>6 DEF Promise!Next
<1>4. CASE ~ClientRecv
  <2>1. UNCHANGED execs
    BY <1>4 DEF ClientNext, Dial, LoopEnd, ReceivingStep, ClientRefuse, ClientRecvFail,
                SendingStep, SendInit, SendInitFails, ClientSend, ClientSendFails,
                ClientRequeue, ClientSendQuit, Execute, ClientRestart
  <2>2. QED  BY <1>2, <2>1
<1>5. QED  BY <1>2, <1>3, <1>4

-----------------------------------------------------------------------------

\* What PerformAction promises holds of the two ends and the streams between
\* them: a call returns once, its action is executed at most once and never
\* before the call, and an answer of the application is never invented.
THEOREM ActionsKeepPromise == Spec => KeepsPromise
<1>1. Init => Promise!Init
  BY DEF Init, ServerInit, ClientInit, Promise!Init
<1>2. AnswersInv /\ AllEarned /\ [Next]_vars => [Promise!Next]_(Promise!callVars)
  <2> SUFFICES ASSUME AnswersInv, AllEarned, [Next]_vars
               PROVE  [Promise!Next]_(Promise!callVars)
    OBVIOUS
  <2>1. CASE ServerNext /\ UNCHANGED clientVars
    BY <2>1, ServerKeepsPromise
  <2>2. CASE ClientNext /\ UNCHANGED serverVars
    BY <2>2, ClientKeepsPromise
  <2>3. CASE \/ \E s \in Stream : NetBreak(s) /\ UNCHANGED <<serverVars, clientVars>>
             \/ UNCHANGED vars
    <3>1. UNCHANGED <<result, execs>> /\ \A c \in Call : call'[c] = call[c]
      BY <2>3 DEF vars, serverVars, callVars, clientVars
    <3>2. QED  BY <3>1, QuietPromise
  <2>4. QED  BY <2>1, <2>2, <2>3 DEF Next
<1>3. QED  BY <1>1, <1>2, EarnedInvariant, PTL DEF Spec, KeepsPromise, Promise!Spec
=============================================================================
