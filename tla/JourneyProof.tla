---------------------------- MODULE JourneyProof ----------------------------
(***************************************************************************)
(* What is said of one event in Journey, proved for any keys and values,   *)
(* any decoding, any chains and any number of looks at it.                 *)
(***************************************************************************)
EXTENDS Journey, TLAPS

(* The forms of an event are documents and maps, whichever it has. *)
LEMMA FormsType ==
    ASSUME NEW e \in Event
    PROVE  /\ Parse(e) \in Doc
           /\ Parsed(e) \in Doc
           /\ Decoded(e) \in Map
<1>1. Empty \in Doc /\ Empty \in Map
  BY DEF Empty, Doc, Map
<1>2. e.data \in Doc \cup {Nil} /\ e.parsed \in Doc \cup {Nil} /\ e.decoded \in Map \cup {Nil}
  BY DEF Event
<1>3. Parse(e) \in Doc
  BY <1>1, <1>2 DEF Parse
<1>4. Parsed(e) \in Doc
  BY <1>2, <1>3 DEF Parsed
<1>5. Decoded(e) \in Map
  BY <1>1, <1>2 DEF Decoded
<1> QED
  BY <1>3, <1>4, <1>5

(* Decoding a value, or what is absent, gives a value, nil or nothing. *)
LEMMA DecodingType ==
    ASSUME NEW v \in Value \cup {Absent}
    PROVE  Decoding(v) \in Value \cup {Nil, Absent}
BY EventDocAssumption DEF Decoding

(* So does Get. *)
LEMMA GetType ==
    ASSUME NEW e \in Event, NEW k \in Key
    PROVE  Get(e, k) \in Value \cup {Nil, Absent}
<1>1. Parsed(e)[k] \in Value \cup {Absent} /\ Decoded(e)[k] \in Value \cup {Nil, Absent}
  BY FormsType DEF Doc, Map
<1>2. Decoding(Parsed(e)[k]) \in Value \cup {Nil, Absent}
  BY <1>1, DecodingType
<1> QED
  BY <1>1, <1>2 DEF Get

(* A document or decoded contents under decoded values are of their kind. *)
LEMMA OverlayType ==
    ASSUME NEW above \in Map
    PROVE  /\ \A below \in Doc : Overlay(below, above) \in Doc
           /\ \A below \in Map : Overlay(below, above) \in Map
BY DEF Overlay, Doc, Map

(* The bytes of an event are a document, if there are any. *)
LEMMA MarshalType ==
    ASSUME NEW e \in Event
    PROVE  /\ MarshalJSON(e) \in Doc \cup {Nil}
           /\ Sent(e) \in Doc
           /\ AfterMarshal(e) \in Event
<1>1. e.data \in Doc \cup {Nil} /\ e.decoded \in Map \cup {Nil}
  BY DEF Event
<1>2. MarshalJSON(e) \in Doc \cup {Nil}
  BY <1>1, FormsType, OverlayType DEF MarshalJSON
<1>3. Empty \in Doc
  BY DEF Empty, Doc
<1> QED
  BY <1>2, <1>3 DEF Sent, AfterMarshal, Event

(* What the component calls makes an event of an event. *)
LEMMA CallsType ==
    ASSUME NEW e \in Event, NEW k \in Key
    PROVE  /\ AfterGet(e, k) \in Event
           /\ \A v \in Value \cup {Nil} : Put(e, k, v) \in Event
           /\ Delete(e, k) \in Event
           /\ \A v \in Value : PutEncoded(e, k, v) \in Event
<1>1. Parsed(e) \in Doc /\ Decoded(e) \in Map
  BY FormsType
<1>2. Get(e, k) \in Value \cup {Nil, Absent}
  BY GetType
<1>3. AfterGet(e, k) \in Event
  <2>1. [Decoded(e) EXCEPT ![k] = Get(e, k)] \in Map
    BY <1>1, <1>2 DEF Map
  <2> QED
    BY <1>1, <2>1 DEF AfterGet, Event
<1>4. ASSUME NEW v \in Value \cup {Nil} PROVE Put(e, k, v) \in Event
  <2>1. [Decoded(e) EXCEPT ![k] = v] \in Map
    BY <1>1 DEF Map
  <2> QED
    BY <2>1 DEF Put, Event
<1>5. ASSUME NEW v \in Value PROVE PutEncoded(e, k, v) \in Event
  <2>1. [Parsed(e) EXCEPT ![k] = v] \in Doc
    BY <1>1 DEF Doc
  <2> QED
    BY <1>1, <2>1 DEF PutEncoded, Event
<1> QED
  BY <1>3, <1>4, <1>5 DEF Delete

(* An event made of bytes is an event. *)
LEMMA FromEventType ==
    ASSUME NEW data \in Doc \cup {Nil}
    PROVE  FromEvent(data) \in Event
BY DEF FromEvent, Event

(* The contents of an event are decoded values. *)
LEMMA ContentsType ==
    ASSUME NEW e \in Event
    PROVE  Contents(e) \in Map
<1> DEFINE below == [k \in Key |-> Decoding(Parse(e)[k])]
<1>1. below \in Map
  BY FormsType, DecodingType DEF Map, Doc
<1> QED
  BY <1>1, FormsType, OverlayType DEF Contents

(* What the spooler makes of decoded values is an event. *)
LEMMA SpooledType ==
    ASSUME NEW contents \in Map
    PROVE  Spooled(contents) \in Event
<1>1. "zero" \in Value
  BY JourneyAssumption DEF Known
<1>2. [contents EXCEPT !["@timestamp"] = IF @ = Absent THEN "zero" ELSE @] \in Map
  BY <1>1 DEF Map
<1> QED
  BY <1>2 DEF Spooled, New, FromEvent, Event
-----------------------------------------------------------------------------
(* What is cut of the bytes is what they are, until something is decoded. *)
CutIsBytes == ev.decoded = Nil => ev.parsed \in {Nil, Parse(ev)}

(* Over the wire a component that is not done yet has the bytes only. *)
ArrivesAsBytes ==
    mode = "wire" /\ edits = 0 /\ Here \in {"host", "spooler", "output"}
        => ev = FromEvent(ev.data)

(* A document is made by the last component, once. *)
MadeLast == out # Nil => at = Len(route) /\ Here = "output" /\ edits = 1

IInv == TypeOK /\ CutIsBytes /\ ArrivesAsBytes /\ MadeLast

(* The routes: an input comes first and nowhere else. *)
LEMMA RouteFacts ==
    ASSUME <<mode, route>> \in Journeys
    PROVE  /\ mode \in Mode
           /\ route \in Seq(Input \cup Component)
           /\ Len(route) \in Nat /\ Len(route) >= 1
           /\ route[1] \in Input
           /\ \A i \in 1 .. Len(route) : i # 1 => route[i] \in Component
           /\ \A i \in 1 .. Len(route) : route[i] \in {"output", "end"} => i = Len(route)
<1>1. mode \in Mode /\ route \in Seq(Input \cup Component) /\ route # <<>>
  BY JourneyAssumption
<1>2. Len(route) \in Nat /\ Len(route) >= 1
  BY <1>1
<1>3. \A i \in 1 .. Len(route) :
          /\ route[i] \in Input <=> i = 1
          /\ route[i] \in {"output", "end"} => i = Len(route)
  BY JourneyAssumption
<1> QED
  BY <1>1, <1>2, <1>3

(* Both inputs make an event of what they put into an empty one. *)
LEMMA MadeType ==
    /\ FakeEvent \in Event /\ QuickEvent \in Event
    /\ FakeEvent.decoded # Nil /\ QuickEvent.decoded # Nil
<1> DEFINE a == Put(New, "_id", "id")
           b == Put(a, "_index", "random")
           c == Put(b, "random", "id")
           q == Put(New, "random", "id")
<1>1. /\ {"_index", "_id", "random", "@timestamp", "host"} \subseteq Key
      /\ {"id", "random", "now"} \subseteq Value
  BY JourneyAssumption DEF Known
<1>2. New \in Event
  BY FromEventType DEF New
<1>3. a \in Event /\ q \in Event
  BY <1>1, <1>2, CallsType
<1>4. b \in Event
  BY <1>1, <1>3, CallsType
<1>5. c \in Event
  BY <1>1, <1>4, CallsType
<1>6. FakeEvent \in Event
  BY <1>1, <1>5, CallsType DEF FakeEvent
<1>7. QuickEvent \in Event
  BY <1>1, <1>3, CallsType DEF QuickEvent
<1>8. ASSUME NEW e \in Event, NEW v \in Value
      PROVE  Put(e, "@timestamp", v).decoded # Nil
  <2>1. Decoded(e) \in Map
    BY FormsType
  <2>2. [Decoded(e) EXCEPT !["@timestamp"] = v] \in Map
    BY <1>1, <2>1 DEF Map
  <2>3. Nil \notin Map
    BY EventDocAssumption
  <2> QED
    BY <2>2, <2>3 DEF Put, Event
<1>9. FakeEvent.decoded # Nil
  BY <1>1, <1>5, <1>8 DEF FakeEvent
<1>10. QuickEvent.decoded # Nil
  BY <1>1, <1>3, <1>8 DEF QuickEvent
<1> QED
  BY <1>6, <1>7, <1>9, <1>10

LEMMA InitInv == Init => IInv
<1> SUFFICES ASSUME Init PROVE IInv
  OBVIOUS
<1>1. <<mode, route>> \in Journeys
  BY JourneyAssumption DEF Init
<1>2. at \in 1 .. Len(route) /\ Here \in Input
  BY <1>1, RouteFacts DEF Init, Here
<1>3. ev \in Event /\ ev.decoded # Nil
  BY MadeType DEF Init
<1>4. TypeOK
  BY <1>1, <1>2, <1>3, JourneyAssumption DEF Init, TypeOK, Call
<1> QED
  BY <1>2, <1>3, <1>4 DEF IInv, Init, CutIsBytes, ArrivesAsBytes, MadeLast, Input

(* Whatever a processor calls on its event leaves the cut in order. *)
LEMMA CallsKeepCut ==
    ASSUME NEW e \in Event, NEW k \in Key, e.decoded = Nil => e.parsed \in {Nil, Parse(e)}
    PROVE  /\ LET f == AfterGet(e, k) IN f.decoded = Nil => f.parsed \in {Nil, Parse(f)}
           /\ \A v \in Value \cup {Nil} : Put(e, k, v).decoded # Nil
           /\ \A v \in Value : PutEncoded(e, k, v).decoded # Nil
<1>1. Parsed(e) \in Doc /\ Decoded(e) \in Map
  BY FormsType
<1>2. Nil \notin Map
  BY EventDocAssumption
<1>3. ASSUME NEW v \in Value \cup {Nil} PROVE Put(e, k, v).decoded # Nil
  <2>1. [Decoded(e) EXCEPT ![k] = v] \in Map
    BY <1>1 DEF Map
  <2> QED
    BY <2>1, <1>2 DEF Put, Event
<1>4. ASSUME NEW v \in Value PROVE PutEncoded(e, k, v).decoded # Nil
  BY <1>1, <1>2 DEF PutEncoded, Event
<1> DEFINE f == AfterGet(e, k)
<1>5. f.decoded = Nil => f.parsed \in {Nil, Parse(f)}
  <2>1. CASE Decoded(e)[k] # Absent
    BY <2>1 DEF AfterGet
  <2>2. CASE Decoded(e)[k] = Absent /\ Parsed(e)[k] = Absent
    <3>1. f = [e EXCEPT !.parsed = Parsed(e)]
      BY <2>2 DEF AfterGet, Event
    <3>2. f.decoded = e.decoded /\ f.parsed = Parsed(e) /\ f.data = e.data
      BY <3>1 DEF Event
    <3>3. Parse(f) = Parse(e)
      BY <3>2 DEF Parse
    <3> QED
      BY <3>2, <3>3 DEF Parsed
  <2>3. CASE Decoded(e)[k] = Absent /\ Parsed(e)[k] # Absent
    <3>1. Get(e, k) \in Value \cup {Nil, Absent}
      BY GetType
    <3>2. [Decoded(e) EXCEPT ![k] = Get(e, k)] \in Map
      BY <1>1, <3>1 DEF Map
    <3>3. f.decoded = [Decoded(e) EXCEPT ![k] = Get(e, k)]
      BY <2>3 DEF AfterGet, Event
    <3> QED
      BY <3>2, <3>3, <1>2
  <2> QED
    BY <2>1, <2>2, <2>3
<1> QED
  BY <1>3, <1>4, <1>5
-----------------------------------------------------------------------------
LEMMA NextInv == IInv /\ [Next]_vars => IInv'
<1> SUFFICES ASSUME IInv, [Next]_vars PROVE IInv'
  OBVIOUS
<1>1. TypeOK /\ ev \in Event /\ <<mode, route>> \in Journeys
  BY DEF IInv, TypeOK
<1>2. /\ at \in 1 .. Len(route) /\ edits \in 0 .. MaxEdits + 1
      /\ out \in Doc \cup {Nil, Refused} /\ call \in Call
  BY <1>1 DEF TypeOK
<1>3. ev.decoded = Nil => ev.parsed \in {Nil, Parse(ev)}
  BY DEF IInv, CutIsBytes
<1>4. MaxEdits \in Nat /\ EditKeys \subseteq Key /\ Values \subseteq Value
  BY JourneyAssumption
<1>5. "host" \in Key /\ "host info" \in Value /\ {"_index", "_id"} \subseteq Key
  BY JourneyAssumption DEF Known
<1> USE DEF CutIsBytes
<1>6. ASSUME NEW e \in Event, NEW what \in Call, Edit(e, what),
             e.decoded = Nil => e.parsed \in {Nil, Parse(e)}
      PROVE  IInv'
  <2>1. TypeOK'
    BY <1>1, <1>2, <1>4, <1>6 DEF Edit, TypeOK
  <2>2. ArrivesAsBytes'
    BY <1>6 DEF Edit, ArrivesAsBytes, Here
  <2>3. CutIsBytes'
    BY <1>6 DEF Edit, Parse
  <2>4. MadeLast'
    BY <1>6 DEF IInv, Edit, MadeLast, Here
  <2> QED
    BY <2>1, <2>2, <2>3, <2>4 DEF IInv
<1>7. ASSUME NEW k \in EditKeys, GetField(k) PROVE IInv'
  <2>1. Get(ev, k) \in Value \cup {Nil, Absent}
    BY <1>1, <1>4, GetType
  <2>2. <<"Get", k, Get(ev, k)>> \in Call
    BY <2>1, <1>4 DEF Call
  <2>3. AfterGet(ev, k) \in Event
    BY <1>1, <1>4, CallsType
  <2>4. AfterGet(ev, k).decoded = Nil => AfterGet(ev, k).parsed \in {Nil, Parse(AfterGet(ev, k))}
    BY <1>1, <1>3, <1>4, CallsKeepCut
  <2> QED
    BY <1>6, <1>7, <2>2, <2>3, <2>4 DEF GetField
<1>8. ASSUME NEW k \in EditKeys, DeleteField(k) PROVE IInv'
  <2>1. <<"Delete", k>> \in Call
    BY <1>4 DEF Call
  <2>2. Delete(ev, k) \in Event /\ Delete(ev, k).decoded # Nil
    BY <1>1, <1>3, <1>4, CallsType, CallsKeepCut DEF Delete
  <2> QED
    BY <1>6, <1>8, <2>1, <2>2 DEF DeleteField
<1>9. ASSUME NEW k \in EditKeys, NEW v \in Values, PutField(k, v) PROVE IInv'
  <2>1. <<"Put", k, v>> \in Call
    BY <1>4 DEF Call
  <2>2. Put(ev, k, v) \in Event /\ Put(ev, k, v).decoded # Nil
    BY <1>1, <1>3, <1>4, CallsType, CallsKeepCut
  <2> QED
    BY <1>6, <1>9, <2>1, <2>2 DEF PutField
<1>10. ASSUME NEW k \in EditKeys, NEW v \in Values, EncodeField(k, v) PROVE IInv'
  <2>1. <<"PutEncoded", k, v>> \in Call
    BY <1>4 DEF Call
  <2>2. PutEncoded(ev, k, v) \in Event /\ PutEncoded(ev, k, v).decoded # Nil
    BY <1>1, <1>3, <1>4, CallsType, CallsKeepCut
  <2> QED
    BY <1>6, <1>10, <2>1, <2>2 DEF EncodeField
<1>11. CASE Host
  <2>1. <<"PutEncoded", "host", "host info">> \in Call
    BY <1>5 DEF Call
  <2>2. ev' \in Event /\ ev'.decoded # Nil
    BY <1>1, <1>3, <1>5, <1>11, CallsType, CallsKeepCut DEF Host
  <2>3. edits' = 1 /\ call' \in Call /\ UNCHANGED <<mode, route, at, out>>
    BY <1>11, <2>1 DEF Host, Once
  <2>4. MadeLast'
    BY <1>11, <2>3 DEF IInv, Host, Once, MadeLast, Here
  <2> QED
    BY <1>1, <1>2, <1>4, <2>2, <2>3, <2>4 DEF IInv, TypeOK, ArrivesAsBytes, Here
<1>12. CASE Spool
  <2>1. Contents(ev) \in Map
    BY <1>1, ContentsType
  <2>2. ev' \in Event
    BY <1>12, <2>1, SpooledType DEF Spool
  <2>3. <<"Contents">> \in Call
    BY DEF Call
  <2>4. edits' = 1 /\ call' \in Call /\ UNCHANGED <<mode, route, at, out>>
    BY <1>12, <2>3 DEF Spool, Once
  <2>5. ev'.parsed = Nil
    BY <1>12 DEF Spool, Spooled, New, FromEvent
  <2>6. MadeLast'
    BY <1>12, <2>4 DEF IInv, Spool, Once, MadeLast, Here
  <2> QED
    BY <1>1, <1>2, <1>4, <2>2, <2>4, <2>5, <2>6 DEF IInv, TypeOK, ArrivesAsBytes, Here
<1>13. CASE Pass
  <2>1. MarshalJSON(ev) \in Doc \cup {Nil} /\ AfterMarshal(ev) \in Event
    BY <1>1, MarshalType
  <2>2. mode \in Mode
    BY <1>1, RouteFacts
  <2>3. \/ mode = "wire" /\ ev' = FromEvent(MarshalJSON(ev))
        \/ mode # "wire" /\ ev' = ev
        \/ mode # "wire" /\ ev' = AfterMarshal(ev)
    BY <1>13, <2>2 DEF Pass, Hop, Mode
  <2>4. ev' \in Event
    BY <1>1, <2>1, <2>3, FromEventType
  <2>5. <<"Send">> \in Call
    BY DEF Call
  <2>6. edits' = 0 /\ call' \in Call /\ at' = at + 1 /\ UNCHANGED <<mode, route, out>>
    BY <1>13, <2>5 DEF Pass
  <2>7. at' \in 1 .. Len(route)
    BY <1>1, <1>2, <1>13, RouteFacts DEF Pass
  <2>8. TypeOK'
    BY <1>1, <1>2, <1>4, <2>4, <2>6, <2>7 DEF TypeOK
  <2>9. CutIsBytes'
    <3>1. CASE ev' = FromEvent(MarshalJSON(ev))
      BY <3>1 DEF FromEvent
    <3>2. CASE ev' = ev
      BY <3>2, <1>3
    <3>3. CASE ev' = AfterMarshal(ev)
      BY <3>3, <1>1, <1>3 DEF AfterMarshal, Event
    <3> QED
      BY <2>3, <3>1, <3>2, <3>3
  <2>10. ArrivesAsBytes'
    BY <2>3, <2>6 DEF ArrivesAsBytes, FromEvent
  <2>11. MadeLast'
    BY <1>1, <1>2, <1>13, <2>6, RouteFacts DEF IInv, Pass, MadeLast
  <2> QED
    BY <2>8, <2>9, <2>10, <2>11 DEF IInv
<1>14. CASE Output
  <2> DEFINE unindexed == Delete(AfterGet(ev, "_index"), "_index")
             read == AfterGet(unindexed, "_id")
             left == IF Get(unindexed, "_id") = Absent THEN read ELSE Delete(read, "_id")
  <2>1. AfterGet(ev, "_index") \in Event
    BY <1>1, <1>5, CallsType
  <2>2. unindexed \in Event /\ unindexed.decoded # Nil
    BY <2>1, <1>1, <1>3, <1>5, CallsType, CallsKeepCut DEF Delete
  <2>3. read \in Event /\ (read.decoded = Nil => read.parsed \in {Nil, Parse(read)})
    BY <2>2, <1>5, CallsType, CallsKeepCut
  <2>4. left \in Event /\ (left.decoded = Nil => left.parsed \in {Nil, Parse(left)})
    BY <2>3, <1>5, CallsType, CallsKeepCut DEF Delete
  <2>5. MarshalJSON(left) \in Doc \cup {Nil} /\ AfterMarshal(left) \in Event
    BY <2>4, MarshalType
  <2>6. AfterMarshal(left).decoded = Nil
          => AfterMarshal(left).parsed \in {Nil, Parse(AfterMarshal(left))}
    BY <2>4 DEF AfterMarshal, Event
  <2>7. AfterGet(ev, "_index").decoded = Nil
          => AfterGet(ev, "_index").parsed \in {Nil, Parse(AfterGet(ev, "_index"))}
    BY <1>1, <1>3, <1>5, CallsKeepCut
  <2>8. \/ ev' = AfterMarshal(left) /\ out' = MarshalJSON(left)
        \/ ev' = read /\ out' = Refused
        \/ ev' = AfterGet(ev, "_index") /\ out' = Refused
    BY <1>14 DEF Output
  <2>9. ev' \in Event /\ out' \in Doc \cup {Nil, Refused}
    BY <2>1, <2>3, <2>5, <2>8
  <2>10. CutIsBytes'
    BY <2>3, <2>6, <2>7, <2>8
  <2>11. <<"MarshalJSON">> \in Call
    BY DEF Call
  <2>12. edits' = 1 /\ call' \in Call /\ UNCHANGED <<mode, route, at>>
    BY <1>14, <2>11 DEF Output, Once
  <2>13. TypeOK'
    BY <1>1, <1>2, <1>4, <2>9, <2>12 DEF TypeOK
  <2>14. MadeLast'
    BY <1>1, <1>2, <1>14, <2>12, RouteFacts DEF Output, Once, MadeLast, Here
  <2> QED
    BY <2>10, <2>12, <2>13, <2>14 DEF IInv, ArrivesAsBytes
<1>15. CASE UNCHANGED vars
  BY <1>15, <1>1, <1>3 DEF IInv, TypeOK, ArrivesAsBytes, MadeLast, Here, Parse, vars
<1> QED
  BY <1>7, <1>8, <1>9, <1>10, <1>11, <1>12, <1>13, <1>14, <1>15 DEF Next

LEMMA Invariant == Spec => []IInv
BY InitInv, NextInv, PTL DEF Spec

(***************************************************************************)
(* An event keeps its three forms, and a chain its place, whatever the     *)
(* components call.                                                        *)
(***************************************************************************)
THEOREM JourneyTypeCorrect == Spec => []TypeOK
<1>1. IInv => TypeOK
  BY DEF IInv
<1> QED
  BY <1>1, Invariant, PTL

(***************************************************************************)
(* A component always sees what the next one would be sent.                *)
(***************************************************************************)
THEOREM JourneyGetIsSent == Spec => []GetIsSent
<1>1. IInv => GetIsSent
  <2> SUFFICES ASSUME IInv, NEW k \in Key
               PROVE  LET got == Get(ev, k)
                          sent == Sent(ev)[k]
                      IN  IF got = Nil THEN sent = Absent \/ Decode[sent] = Nil
                          ELSE got \in {sent, Decoding(sent)}
    BY DEF GetIsSent
  <2>1. ev \in Event /\ (ev.decoded = Nil => ev.parsed \in {Nil, Parse(ev)})
    BY DEF IInv, TypeOK, CutIsBytes
  <2>2. Parsed(ev) \in Doc /\ Parse(ev) \in Doc /\ Decoded(ev) \in Map
    BY <2>1, FormsType
  <2>3. Nil \notin Map /\ Nil \notin Doc /\ Nil # Absent /\ Nil \notin Value
    BY EventDocAssumption DEF Map, Doc
  <2>4. CASE ev.decoded = Nil
    <3>1. Decoded(ev)[k] = Absent
      BY <2>4 DEF Decoded, Empty
    <3>2. Parsed(ev) = Parse(ev)
      BY <2>1, <2>4 DEF Parsed
    <3>3. Sent(ev) = Parse(ev)
      BY <2>4 DEF Sent, MarshalJSON, Parse
    <3>4. Get(ev, k) = Decoding(Sent(ev)[k])
      BY <3>1, <3>2, <3>3 DEF Get
    <3> QED
      BY <3>4, <2>3 DEF Decoding
  <2>5. CASE ev.decoded # Nil
    <3>1. Decoded(ev) = ev.decoded /\ ev.decoded \in Map
      BY <2>1, <2>5 DEF Decoded, Event
    <3>2. Overlay(Parsed(ev), ev.decoded) \in Doc
      BY <2>2, <3>1, OverlayType
    <3>3. Sent(ev) = Overlay(Parsed(ev), ev.decoded)
      BY <2>3, <2>5, <3>2 DEF Sent, MarshalJSON
    <3>4. CASE ev.decoded[k] = Absent
      <4>1. Sent(ev)[k] = Parsed(ev)[k] /\ Get(ev, k) = Decoding(Parsed(ev)[k])
        BY <2>3, <3>1, <3>3, <3>4 DEF Overlay, Get
      <4> QED
        BY <4>1, <2>3 DEF Decoding
    <3>5. CASE ev.decoded[k] = Nil
      <4>1. Sent(ev)[k] = Absent /\ Get(ev, k) = Nil
        BY <3>1, <3>3, <3>5, <2>3 DEF Overlay, Get
      <4> QED
        BY <4>1
    <3>6. CASE ev.decoded[k] # Absent /\ ev.decoded[k] # Nil
      <4>1. Sent(ev)[k] = ev.decoded[k] /\ Get(ev, k) = ev.decoded[k]
        BY <3>1, <3>3, <3>6, <2>3 DEF Overlay, Get
      <4> QED
        BY <4>1, <3>6
    <3> QED
      BY <3>4, <3>5, <3>6
  <2> QED
    BY <2>4, <2>5
<1> QED
  BY <1>1, Invariant, PTL
-----------------------------------------------------------------------------
(* An event is what was cut of its bytes, under what was decoded. *)
LEMMA SentIsOverlay ==
    ASSUME NEW e \in Event, e.decoded = Nil => e.parsed \in {Nil, Parse(e)}
    PROVE  /\ Sent(e) = Overlay(Parsed(e), Decoded(e))
           /\ Sent(e) \in Doc
<1>1. Parsed(e) \in Doc /\ Parse(e) \in Doc /\ Decoded(e) \in Map
  BY FormsType
<1>2. Nil \notin Map /\ Nil \notin Doc /\ Nil # Absent
  BY EventDocAssumption DEF Map, Doc
<1>3. CASE e.decoded = Nil
  <2>1. Parsed(e) = Parse(e) /\ Decoded(e) = Empty
    BY <1>3 DEF Parsed, Decoded
  <2>2. Sent(e) = Parse(e)
    BY <1>3 DEF Sent, MarshalJSON, Parse
  <2>3. Overlay(Parse(e), Empty) = Parse(e)
    BY <1>1, <1>2 DEF Overlay, Empty, Doc
  <2> QED
    BY <1>1, <2>1, <2>2, <2>3
<1>4. CASE e.decoded # Nil
  <2>1. Decoded(e) = e.decoded
    BY <1>4 DEF Decoded
  <2>2. Overlay(Parsed(e), Decoded(e)) \in Doc
    BY <1>1, OverlayType
  <2> QED
    BY <1>2, <1>4, <2>1, <2>2 DEF Sent, MarshalJSON
<1> QED
  BY <1>3, <1>4

(* Put and Delete change one key of the document. *)
LEMMA PutIsWrite ==
    ASSUME NEW e \in Event, e.decoded = Nil => e.parsed \in {Nil, Parse(e)},
           NEW k \in Key
    PROVE  /\ \A v \in Value : Sent(Put(e, k, v)) = [Sent(e) EXCEPT ![k] = v]
           /\ Sent(Delete(e, k)) = [Sent(e) EXCEPT ![k] = Absent]
<1>1. Parsed(e) \in Doc /\ Decoded(e) \in Map
  BY FormsType
<1>2. Nil # Absent /\ Nil \notin Value /\ Absent \notin Value
  BY EventDocAssumption
<1>3. Sent(e) = Overlay(Parsed(e), Decoded(e))
  BY SentIsOverlay
<1>4. ASSUME NEW v \in Value \cup {Nil}
      PROVE  Sent(Put(e, k, v)) = [Sent(e) EXCEPT ![k] = IF v = Nil THEN Absent ELSE v]
  <2> DEFINE f == Put(e, k, v)
  <2>1. f \in Event /\ f.decoded # Nil
    BY CallsType, CallsKeepCut
  <2>2. Sent(f) = Overlay(Parsed(f), Decoded(f))
    BY <2>1, SentIsOverlay
  <2>3. f.decoded = [Decoded(e) EXCEPT ![k] = v] /\ f.parsed = e.parsed /\ f.data = e.data
    BY DEF Put, Event
  <2>4. Decoded(f) = [Decoded(e) EXCEPT ![k] = v]
    BY <2>1, <2>3 DEF Decoded
  <2>5. Parsed(f) = Parsed(e)
    BY <2>3 DEF Parsed, Parse
  <2> DEFINE below == Parsed(e)
             above == Decoded(e)
  <2>6. Overlay(below, [above EXCEPT ![k] = v])
          = [Overlay(below, above) EXCEPT ![k] = IF v = Nil THEN Absent ELSE v]
    <3>1. below \in Doc /\ above \in Map
      BY <1>1
    <3> HIDE DEF below, above
    <3>2. ASSUME NEW j \in Key
          PROVE  Overlay(below, [above EXCEPT ![k] = v])[j]
                   = [Overlay(below, above) EXCEPT ![k] = IF v = Nil THEN Absent ELSE v][j]
      <4>1. CASE j = k
        BY <3>1, <4>1, <1>2 DEF Overlay, Map
      <4>2. CASE j # k
        BY <3>1, <4>2 DEF Overlay, Map
      <4> QED
        BY <4>1, <4>2
    <3> QED
      BY <3>2 DEF Overlay
  <2> QED
    BY <1>3, <2>2, <2>4, <2>5, <2>6
<1>5. ASSUME NEW v \in Value PROVE Sent(Put(e, k, v)) = [Sent(e) EXCEPT ![k] = v]
  BY <1>2, <1>4
<1>6. Sent(Delete(e, k)) = [Sent(e) EXCEPT ![k] = Absent]
  BY <1>4 DEF Delete
<1> QED
  BY <1>5, <1>6

(* PutEncoded changes it too, if nothing decoded is in the way. *)
LEMMA PutEncodedIsWrite ==
    ASSUME NEW e \in Event, e.decoded = Nil => e.parsed \in {Nil, Parse(e)},
           NEW k \in Key, Decoded(e)[k] = Absent, NEW v \in Value
    PROVE  Sent(PutEncoded(e, k, v)) = [Sent(e) EXCEPT ![k] = v]
<1> DEFINE f == PutEncoded(e, k, v)
           below == Parsed(e)
           above == Decoded(e)
<1>1. below \in Doc /\ above \in Map /\ above[k] = Absent
  BY FormsType
<1>2. Nil # Absent /\ Nil \notin Map /\ Nil \notin Doc
  BY EventDocAssumption DEF Map, Doc
<1>3. f \in Event /\ f.decoded # Nil
  BY CallsType, CallsKeepCut
<1>4. Sent(f) = Overlay(Parsed(f), Decoded(f)) /\ Sent(e) = Overlay(below, above)
  BY <1>3, SentIsOverlay
<1>5. f.decoded = above /\ f.parsed = [below EXCEPT ![k] = v]
  BY DEF PutEncoded, Event
<1>6. Decoded(f) = above
  BY <1>3, <1>5 DEF Decoded
<1>7. Parsed(f) = [below EXCEPT ![k] = v]
  <2>1. [below EXCEPT ![k] = v] \in Doc
    BY <1>1 DEF Doc
  <2> QED
    BY <1>2, <1>5, <2>1 DEF Parsed
<1> HIDE DEF below, above, f
<1>8. Overlay([below EXCEPT ![k] = v], above) = [Overlay(below, above) EXCEPT ![k] = v]
  <2>1. ASSUME NEW j \in Key
        PROVE  Overlay([below EXCEPT ![k] = v], above)[j]
                 = [Overlay(below, above) EXCEPT ![k] = v][j]
    <3>1. CASE j = k
      BY <3>1, <1>1, <1>2 DEF Overlay, Doc
    <3>2. CASE j # k
      BY <3>2, <1>1 DEF Overlay, Doc
    <3> QED
      BY <3>1, <3>2
  <2> QED
    BY <2>1 DEF Overlay
<1> QED
  BY <1>4, <1>6, <1>7, <1>8 DEF f

(* Get leaves the document as it is, or replaces the value it decoded. *)
LEMMA GetIsRead ==
    ASSUME NEW e \in Event, e.decoded = Nil => e.parsed \in {Nil, Parse(e)},
           NEW k \in Key
    PROVE  Sent(AfterGet(e, k)) \in {Sent(e), [Sent(e) EXCEPT ![k] = D!Clean(@)]}
<1> DEFINE f == AfterGet(e, k)
           below == Parsed(e)
           above == Decoded(e)
<1>1. below \in Doc /\ above \in Map
  BY FormsType
<1>2. Nil # Absent /\ Nil \notin Map /\ Nil \notin Doc /\ Nil \notin Value /\ Absent \notin Value
  BY EventDocAssumption DEF Map, Doc
<1>3. f \in Event /\ (f.decoded = Nil => f.parsed \in {Nil, Parse(f)})
  BY CallsType, CallsKeepCut
<1>4. Sent(f) = Overlay(Parsed(f), Decoded(f)) /\ Sent(e) = Overlay(below, above)
  BY <1>3, SentIsOverlay
<1>5. CASE above[k] # Absent
  BY <1>5 DEF AfterGet
<1>6. CASE above[k] = Absent /\ below[k] = Absent
  <2>1. f.decoded = e.decoded /\ f.parsed = below
    BY <1>6 DEF AfterGet, Event
  <2>2. Parsed(f) = below /\ Decoded(f) = above
    BY <1>1, <1>2, <2>1 DEF Parsed, Decoded
  <2> QED
    BY <1>4, <2>2
<1>7. CASE above[k] = Absent /\ below[k] # Absent
  <2> DEFINE val == Decode[below[k]]
  <2>1. below[k] \in Value /\ val \in Value \cup {Nil}
    BY <1>1, <1>7, EventDocAssumption DEF Doc
  <2>2. Get(e, k) = val
    BY <1>7 DEF Get, Decoding
  <2>3. f.decoded = [above EXCEPT ![k] = val] /\ f.parsed = below
    BY <1>7, <2>2 DEF AfterGet, Event
  <2>4. [above EXCEPT ![k] = val] \in Map
    BY <1>1, <2>1 DEF Map
  <2>5. Parsed(f) = below /\ Decoded(f) = [above EXCEPT ![k] = val]
    BY <1>1, <1>2, <2>3, <2>4 DEF Parsed, Decoded
  <2>6. Overlay(below, above)[k] = below[k]
    BY <1>1, <1>2, <1>7 DEF Overlay
  <2>7. D!Clean(below[k]) = IF val = Nil THEN Absent ELSE val
    BY <1>7 DEF D!Clean
  <2> HIDE DEF val, below, above, f
  <2>8. Overlay(below, [above EXCEPT ![k] = val])
          = [Overlay(below, above) EXCEPT ![k] = D!Clean(@)]
    <3>1. ASSUME NEW j \in Key
          PROVE  Overlay(below, [above EXCEPT ![k] = val])[j]
                   = [Overlay(below, above) EXCEPT ![k] = D!Clean(@)][j]
      <4>1. CASE j = k
        <5>1. [Overlay(below, above) EXCEPT ![k] = D!Clean(@)][j] = D!Clean(below[k])
          BY <4>1, <2>6 DEF Overlay
        <5>2. [above EXCEPT ![k] = val][j] = val
          BY <1>1, <4>1 DEF Map
        <5>3. Overlay(below, [above EXCEPT ![k] = val])[j] = IF val = Nil THEN Absent ELSE val
          BY <5>2, <2>1, <1>2 DEF Overlay
        <5> QED
          BY <5>1, <5>3, <2>7
      <4>2. CASE j # k
        BY <4>2, <1>1 DEF Overlay, Map
      <4> QED
        BY <4>1, <4>2
    <3> QED
      BY <3>1 DEF Overlay
  <2> QED
    BY <1>4, <2>5, <2>8 DEF f, below, above
<1> HIDE DEF f, below, above
<1> QED
  BY <1>5, <1>6, <1>7 DEF f
(* Where nothing was decoded Get decodes what would be sent. *)
LEMMA GetDecodes ==
    ASSUME NEW e \in Event, e.decoded = Nil => e.parsed \in {Nil, Parse(e)},
           NEW k \in Key, Decoded(e)[k] = Absent
    PROVE  Get(e, k) = Decoding(Sent(e)[k])
<1>1. Sent(e)[k] = Parsed(e)[k]
  BY SentIsOverlay, EventDocAssumption DEF Overlay
<1> QED
  BY <1>1 DEF Get

(* What Get returns is in the document, or what that decodes to. *)
LEMMA GetIsAllowed ==
    ASSUME IInv, NEW k \in Key
    PROVE  \/ Get(ev, k) \in {Sent(ev)[k], D!Clean(Sent(ev)[k])}
           \/ Get(ev, k) = Nil /\ D!Clean(Sent(ev)[k]) = Absent
<1>1. ev \in Event /\ (ev.decoded = Nil => ev.parsed \in {Nil, Parse(ev)})
  BY DEF IInv, TypeOK, CutIsBytes
<1>2. Nil # Absent /\ Absent \notin Value
  BY EventDocAssumption
<1>3. CASE Decoded(ev)[k] = Absent
  <2>1. Get(ev, k) = Decoding(Sent(ev)[k])
    BY <1>1, <1>3, GetDecodes
  <2> QED
    BY <2>1 DEF Decoding, D!Clean
<1>4. CASE Decoded(ev)[k] # Absent
  <2>1. Get(ev, k) = Decoded(ev)[k]
    BY <1>4 DEF Get
  <2>2. Sent(ev)[k] = IF Decoded(ev)[k] = Nil THEN Absent ELSE Decoded(ev)[k]
    BY <1>1, <1>2, <1>4, SentIsOverlay DEF Overlay
  <2> QED
    BY <2>1, <2>2 DEF D!Clean
<1> QED
  BY <1>3, <1>4

(* The spooler's event is the decoded document, with a time. *)
LEMMA SpoolIsSpool ==
    ASSUME NEW e \in Event, e = FromEvent(e.data), NEW k \in Key
    PROVE  Sent(Spooled(Contents(e)))[k]
             = IF k = "@timestamp" /\ Sent(e)[k] = Absent THEN "zero" ELSE D!Clean(Sent(e)[k])
<1> DEFINE f == Spooled(Contents(e))
           bytes == Parse(e)
<1>1. e.decoded = Nil /\ bytes \in Doc
  BY FormsType DEF FromEvent
<1>2. Nil # Absent /\ Absent \notin Value /\ Nil \notin Value /\ "zero" \in Value /\ Nil \notin Map
  BY EventDocAssumption, JourneyAssumption DEF Known
<1>3. Sent(e) = bytes
  BY <1>1 DEF Sent, MarshalJSON, Parse
<1>4. bytes[k] \in Value \cup {Absent}
  BY <1>1 DEF Doc
<1>5. Contents(e)[k] = Decoding(bytes[k])
  BY <1>1, <1>2 DEF Contents, Decoded, Overlay, Empty
<1>6. Contents(e) \in Map
  BY ContentsType
<1> DEFINE kept == [Contents(e) EXCEPT !["@timestamp"] = IF @ = Absent THEN "zero" ELSE @]
<1>7. kept \in Map
  BY <1>2, <1>6 DEF Map
<1>8. f \in Event /\ f.decoded = kept /\ f.parsed = Nil /\ f.data = Nil
  BY <1>6, SpooledType DEF Spooled, New, FromEvent
<1>9. Decoded(f) = kept /\ Parsed(f) = Empty /\ f.decoded # Nil
  BY <1>2, <1>7, <1>8 DEF Decoded, Parsed, Parse
<1>10. Sent(f) = Overlay(Empty, kept)
  BY <1>8, <1>9, SentIsOverlay
<1>11. kept[k] = IF k = "@timestamp" /\ Contents(e)[k] = Absent THEN "zero" ELSE Contents(e)[k]
  BY <1>6 DEF Map
<1> HIDE DEF kept, f
<1>12. Sent(f)[k] = IF kept[k] = Nil THEN Absent ELSE kept[k]
  BY <1>2, <1>10 DEF Overlay, Empty
<1>13. CASE bytes[k] = Absent
  <2>1. Contents(e)[k] = Absent /\ D!Clean(bytes[k]) = Absent
    BY <1>5, <1>13 DEF Decoding, D!Clean
  <2> QED
    BY <1>2, <1>3, <1>11, <1>12, <1>13, <2>1 DEF f
<1>14. CASE bytes[k] # Absent
  <2>1. Contents(e)[k] = Decode[bytes[k]] /\ Decode[bytes[k]] # Absent
    BY <1>4, <1>5, <1>14, EventDocAssumption DEF Decoding
  <2>2. kept[k] = Decode[bytes[k]]
    BY <1>11, <2>1
  <2> QED
    BY <1>3, <1>12, <1>14, <2>2 DEF f, D!Clean
<1> QED
  BY <1>13, <1>14

(***************************************************************************)
(* newDoc takes index and identifier out of an event that arrives as       *)
(* bytes: of what is left the document is made.                            *)
(***************************************************************************)
LEMMA OutputTakesOut ==
    ASSUME NEW e \in Event, e = FromEvent(e.data)
    PROVE  LET unindexed == Delete(AfterGet(e, "_index"), "_index")
               id == Get(unindexed, "_id")
               read == AfterGet(unindexed, "_id")
               left == IF id = Absent THEN read ELSE Delete(read, "_id")
           IN  /\ Get(e, "_index") = Decoding(Sent(e)["_index"])
               /\ id = Decoding(Sent(e)["_id"])
               /\ MarshalJSON(left) = [Sent(e) EXCEPT !["_index"] = Absent, !["_id"] = Absent]
<1> DEFINE seen == AfterGet(e, "_index")
           unindexed == Delete(seen, "_index")
           id == Get(unindexed, "_id")
           read == AfterGet(unindexed, "_id")
           left == IF id = Absent THEN read ELSE Delete(read, "_id")
           d == Sent(e)
           u == [d EXCEPT !["_index"] = Absent]
<1>1. "_index" \in Key /\ "_id" \in Key
  BY JourneyAssumption
<1>2. Nil # Absent /\ Absent \notin Value /\ Nil \notin Map /\ Nil \notin Doc
  BY EventDocAssumption DEF Map, Doc
<1>3. e.decoded = Nil /\ e.parsed = Nil
  BY DEF FromEvent
<1>4. d \in Doc
  BY MarshalType
<1>5. Decoded(e) = Empty
  BY <1>3 DEF Decoded
<1>6. Get(e, "_index") = Decoding(d["_index"])
  BY <1>1, <1>3, <1>5, GetDecodes DEF Empty
<1>7. seen \in Event /\ (seen.decoded = Nil => seen.parsed \in {Nil, Parse(seen)})
  BY <1>1, <1>3, CallsType, CallsKeepCut
<1>8. Decoded(seen)["_id"] = Absent
  <2>1. \/ seen.decoded = Nil
        \/ seen.decoded = [Empty EXCEPT !["_index"] = Get(e, "_index")]
    BY <1>3, <1>5 DEF AfterGet, Event
  <2> QED
    BY <1>1, <2>1 DEF Decoded, Empty
<1>9. unindexed \in Event /\ unindexed.decoded # Nil
  BY <1>1, <1>7, CallsType, CallsKeepCut DEF Delete
<1>10. Decoded(unindexed)["_id"] = Absent
  <2>1. unindexed.decoded = [Decoded(seen) EXCEPT !["_index"] = Nil]
    BY <1>7 DEF Delete, Put, Event
  <2>2. Decoded(seen) \in Map
    BY <1>7, FormsType
  <2> QED
    BY <1>1, <1>8, <1>9, <2>1, <2>2 DEF Decoded, Map
<1>11. Sent(unindexed) = u
  <2>1. Sent(unindexed) = [Sent(seen) EXCEPT !["_index"] = Absent]
    BY <1>1, <1>7, PutIsWrite
  <2>2. Sent(seen) \in {d, [d EXCEPT !["_index"] = D!Clean(@)]}
    BY <1>1, <1>3, GetIsRead
  <2> QED
    BY <1>1, <1>4, <2>1, <2>2 DEF Doc
<1>12. u \in Doc /\ u["_id"] = d["_id"]
  BY <1>1, <1>4 DEF Doc
<1>13. id = Decoding(d["_id"])
  <2> HIDE DEF unindexed, u
  <2>1. Get(unindexed, "_id") = Decoding(Sent(unindexed)["_id"])
    BY <1>1, <1>9, <1>10, GetDecodes
  <2> QED
    BY <2>1, <1>11, <1>12
<1>14. read \in Event /\ (read.decoded = Nil => read.parsed \in {Nil, Parse(read)})
  BY <1>1, <1>9, CallsType, CallsKeepCut
<1>15. Sent(read) \in {u, [u EXCEPT !["_id"] = D!Clean(@)]}
  BY <1>1, <1>9, <1>11, GetIsRead
<1>16. Sent(left) = [u EXCEPT !["_id"] = Absent]
  <2>1. CASE id = Absent
    <3>1. d["_id"] = Absent
      BY <1>1, <1>4, <1>13, <2>1, EventDocAssumption DEF Decoding, Doc
    <3>2. D!Clean(u["_id"]) = Absent
      BY <3>1, <1>12 DEF D!Clean
    <3>3. [u EXCEPT !["_id"] = Absent] = u
      BY <1>12, <3>1 DEF Doc
    <3> HIDE DEF u, read, id
    <3>4. Sent(read) = u
      BY <1>15, <3>2, <3>3
    <3> QED
      BY <2>1, <3>3, <3>4
  <2>2. CASE id # Absent
    <3>1. Sent(Delete(read, "_id")) = [Sent(read) EXCEPT !["_id"] = Absent]
      BY <1>1, <1>14, PutIsWrite
    <3> HIDE DEF u, read, id
    <3>2. [[u EXCEPT !["_id"] = D!Clean(@)] EXCEPT !["_id"] = Absent] = [u EXCEPT !["_id"] = Absent]
      BY <1>1, <1>12 DEF Doc
    <3>3. Sent(Delete(read, "_id")) = [u EXCEPT !["_id"] = Absent]
      BY <1>15, <3>1, <3>2
    <3> QED
      BY <2>2, <3>3
  <2> QED
    BY <2>1, <2>2
<1>17. left.decoded # Nil
  <2>1. read.decoded # Nil
    <3>1. \/ read.decoded = unindexed.decoded
          \/ read.decoded = [Decoded(unindexed) EXCEPT !["_id"] = id]
      BY <1>9 DEF AfterGet, Event
    <3>2. Decoded(unindexed) \in Map /\ id \in Value \cup {Nil, Absent}
      BY <1>1, <1>9, FormsType, GetType
    <3>3. [Decoded(unindexed) EXCEPT !["_id"] = id] \in Map
      BY <3>2 DEF Map
    <3> QED
      BY <1>2, <1>9, <3>1, <3>3
  <2>2. Delete(read, "_id").decoded # Nil
    BY <1>1, <1>14, CallsKeepCut DEF Delete
  <2> QED
    BY <2>1, <2>2
<1>18. MarshalJSON(left) = Sent(left)
  <2>1. left \in Event
    BY <1>1, <1>14, CallsType
  <2>2. Parsed(left) \in Doc /\ Decoded(left) \in Map /\ Decoded(left) = left.decoded
    BY <2>1, <1>17, FormsType DEF Decoded
  <2>3. Overlay(Parsed(left), left.decoded) \in Doc
    BY <2>2, OverlayType
  <2> HIDE DEF left
  <2> QED
    BY <1>2, <1>17, <2>3 DEF Sent, MarshalJSON
<1> QED
  BY <1>6, <1>13, <1>16, <1>18
LEMMA InitKeeps == Init => D!Init
BY DEF Init, D!Init

(* A step of a chain over the wire is a step of the document. *)
LEMMA NextKeeps ==
    ASSUME IInv, IInv', [Next]_vars, mode = "wire", Overwrites = {}
    PROVE  [D!Next]_(D!vars)
<1>1. ev \in Event /\ (ev.decoded = Nil => ev.parsed \in {Nil, Parse(ev)})
  BY DEF IInv, TypeOK, CutIsBytes
<1>2. EditKeys \subseteq Key /\ Values \subseteq Value
  BY JourneyAssumption
<1>3. Absent # Nil /\ Nil \notin Map
  BY EventDocAssumption
<1>4. ASSUME NEW k \in EditKeys, GetField(k) PROVE D!Next
  <2>1. Get(ev, k) \in Value \cup {Nil, Absent}
    BY <1>1, <1>2, GetType
  <2>2. Sent(ev)' \in {Sent(ev), [Sent(ev) EXCEPT ![k] = D!Clean(@)]}
    BY <1>1, <1>2, <1>4, GetIsRead DEF GetField, Edit
  <2>3. D!Get(k, Get(ev, k))
    BY <1>2, <1>4, <2>2, GetIsAllowed DEF GetField, Edit, D!Get
  <2> QED
    BY <1>2, <2>1, <2>3 DEF D!Next
<1>5. ASSUME NEW k \in EditKeys, DeleteField(k) PROVE D!Next
  <2>1. Sent(ev)' = [Sent(ev) EXCEPT ![k] = Absent]
    BY <1>1, <1>2, <1>5, PutIsWrite DEF DeleteField, Edit
  <2>2. D!Delete(k)
    BY <1>5, <2>1 DEF DeleteField, Edit, D!Delete
  <2> QED
    BY <1>2, <2>2 DEF D!Next
<1>6. ASSUME NEW k \in EditKeys, NEW v \in Values, PutField(k, v) PROVE D!Next
  <2>1. Sent(ev)' = [Sent(ev) EXCEPT ![k] = v]
    BY <1>1, <1>2, <1>6, PutIsWrite DEF PutField, Edit
  <2>2. D!Write(k, v)
    BY <1>6, <2>1 DEF PutField, Edit, D!Write
  <2> QED
    BY <1>2, <2>2 DEF D!Next
<1>7. ASSUME NEW k \in EditKeys, NEW v \in Values, EncodeField(k, v) PROVE D!Next
  <2>1. Decoded(ev)[k] = Absent
    BY <1>7 DEF EncodeField
  <2>2. Sent(ev)' = [Sent(ev) EXCEPT ![k] = v]
    BY <1>1, <1>2, <1>7, <2>1, PutEncodedIsWrite DEF EncodeField, Edit
  <2>3. D!Write(k, v)
    BY <1>7, <2>2 DEF EncodeField, Edit, D!Write
  <2> QED
    BY <1>2, <2>3 DEF D!Next
<1>8. CASE Host
  <2>1. ev = FromEvent(ev.data)
    BY <1>8 DEF IInv, ArrivesAsBytes, Host, Once
  <2>2. "host" \in Key /\ "host info" \in Value
    BY JourneyAssumption DEF Known
  <2>3. ev.decoded = Nil
    BY <2>1 DEF FromEvent
  <2>4. Decoded(ev)["host"] = Absent
    BY <2>2, <2>3 DEF Decoded, Empty
  <2>5. Sent(ev)' = [Sent(ev) EXCEPT !["host"] = "host info"]
    BY <1>1, <1>8, <2>2, <2>4, PutEncodedIsWrite DEF Host
  <2>6. D!Write("host", "host info")
    BY <1>8, <2>5 DEF Host, D!Write
  <2> QED
    BY <2>2, <2>6 DEF D!Next
<1>9. CASE Spool
  <2>1. ev = FromEvent(ev.data)
    BY <1>9 DEF IInv, ArrivesAsBytes, Spool, Once
  <2>2. ev' = Spooled(Contents(ev)) /\ ev' \in Event
    BY <1>9 DEF IInv, TypeOK, Spool
  <2>3. Sent(ev)' \in Doc
    BY <2>2, MarshalType
  <2>4. \A k \in Key :
          Sent(ev')[k] = IF k = "@timestamp" /\ Sent(ev)[k] = Absent THEN "zero"
                         ELSE D!Clean(Sent(ev)[k])
    BY <1>1, <2>1, <2>2, SpoolIsSpool
  <2>5. Sent(ev)' = [k \in Key |-> IF k = "@timestamp" /\ Sent(ev)[k] = Absent THEN "zero"
                                  ELSE D!Clean(Sent(ev)[k])]
    BY <2>3, <2>4 DEF Doc
  <2>6. D!Spool
    BY <1>9, <2>5 DEF Spool, D!Spool
  <2> QED
    BY <2>6 DEF D!Next
<1>10. CASE Pass
  <2>1. ev' = FromEvent(MarshalJSON(ev))
    BY <1>10 DEF Pass, Hop
  <2>2. Sent(ev)' = Sent(ev)
    BY <2>1 DEF Sent, MarshalJSON, FromEvent
  <2>3. D!Send
    BY <1>10, <2>2 DEF Pass, D!Send
  <2> QED
    BY <2>3 DEF D!Next
<1>11. CASE Output
  <2>1. ev = FromEvent(ev.data)
    BY <1>11 DEF IInv, ArrivesAsBytes, Output, Once
  <2>2. out = Nil /\ call' = <<"MarshalJSON">>
    BY <1>11 DEF IInv, MadeLast, Output, Once
  <2>3. Sent(ev)' \in [Key -> Value \cup {Absent}]
    BY MarshalType DEF IInv, TypeOK, Doc
  <2> DEFINE d == Sent(ev)
             id == Get(Delete(AfterGet(ev, "_index"), "_index"), "_id")
  <2>4. /\ Get(ev, "_index") = Decoding(d["_index"])
        /\ id = Decoding(d["_id"])
    BY <1>1, <2>1, OutputTakesOut
  <2>5. {d["_index"], d["_id"]} \subseteq Value \cup {Absent}
    BY <1>1, MarshalType, JourneyAssumption DEF Doc
  <2>6. ASSUME NEW v \in Value \cup {Absent}
        PROVE  /\ Decoding(v) \in Strings <=> v \in Strings
               /\ Decoding(v) = Absent <=> v = Absent
    BY EventDocAssumption, JourneyAssumption DEF Decoding
  <2>7. Get(ev, "_index") \in Strings /\ id \in Strings \cup {Absent} <=> D!Indexable
    <3>1. Get(ev, "_index") \in Strings <=> d["_index"] \in Strings
      BY <2>4, <2>5, <2>6
    <3>2. id \in Strings \cup {Absent} <=> d["_id"] \in Strings \cup {Absent}
      BY <2>4, <2>5, <2>6
    <3> QED
      BY <3>1, <3>2 DEF D!Indexable
  <2>8. out' = IF D!Indexable THEN [d EXCEPT !["_index"] = Absent, !["_id"] = Absent] ELSE Refused
    <3>1. CASE D!Indexable
      BY <1>1, <1>11, <2>1, <2>7, <3>1, OutputTakesOut DEF Output
    <3>2. CASE ~ D!Indexable
      BY <1>11, <2>7, <3>2 DEF Output
    <3> QED
      BY <3>1, <3>2
  <2>9. D!Store
    BY <2>2, <2>3, <2>8 DEF D!Store
  <2> QED
    BY <2>9 DEF D!Next
<1>12. CASE UNCHANGED vars
  BY <1>12 DEF vars, D!vars, Sent, MarshalJSON, Parsed, Parse
<1> QED
  BY <1>4, <1>5, <1>6, <1>7, <1>8, <1>9, <1>10, <1>11, <1>12 DEF Next

(***************************************************************************)
(* Over the wire, with processors that encode nothing over what they have  *)
(* decoded, an event is the document that its components make of it.       *)
(***************************************************************************)
THEOREM JourneyKeepsDocument ==
    ASSUME \A j \in Journeys : j[1] = "wire", Overwrites = {}
    PROVE  Spec => KeepsDocument
<1>1. IInv => mode = "wire"
  BY DEF IInv, TypeOK
<1>2. IInv /\ IInv' /\ [Next]_vars => [D!Next]_(D!vars)
  BY <1>1, NextKeeps
<1>3. Spec => D!Spec
  BY <1>2, InitKeeps, Invariant, PTL DEF Spec, D!Spec
<1> QED
  BY <1>3 DEF KeepsDocument
=============================================================================
