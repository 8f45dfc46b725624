------------------------------ MODULE Journey ------------------------------
(***************************************************************************)
(* One event on its way through a chain of components, over the wire       *)
(* between processes or handed on in the agent's own process               *)
(* (elastic-agent-input-fake, agent/quick.go, processor-host,              *)
(* processor-spooler, output-elasticsearch, pipeline/direct.go).           *)
(*                                                                         *)
(* It is about what the event says; whether it arrives is the matter of    *)
(* Delivery.  A "processor" stands for any that is written with the SDK.   *)
(***************************************************************************)
EXTENDS Naturals, Sequences, EventDoc

CONSTANTS
    Journeys,   \* <<mode, route>>: how a chain is made, and of what
    Strings,    \* the values that are strings
    Refused,    \* no document could be made of the event
    EditKeys,   \* the keys that a processor looks at
    Values,     \* the values that it puts
    Overwrites, \* the keys that it may encode over what it has decoded
    MaxEdits    \* how often a processor looks at one event

(* What the components of the repository put into events. *)
Known == {"id", "random", "now", "zero", "host info"}

Mode == {"wire", "direct", "encode"}
Input == {"input", "quick"}
Component == {"processor", "host", "spooler", "output", "end"}

ASSUME JourneyAssumption ==
    /\ {"_index", "_id", "random", "@timestamp", "host"} \subseteq Key
    /\ Known \subseteq Value /\ Values \subseteq Value
    /\ EditKeys \subseteq Key
    /\ Strings \subseteq Value /\ {"id", "random"} \subseteq Strings
    /\ \A v \in Strings \cup Known : Decode[v] = v
    /\ \A v \in Value : Decode[v] \in Strings => v \in Strings
    /\ Refused # Nil
    /\ MaxEdits \in Nat
    /\ Journeys \subseteq Mode \X Seq(Input \cup Component)
    /\ \A j \in Journeys :
        /\ j[2] # <<>>
        /\ \A i \in 1 .. Len(j[2]) :
            /\ j[2][i] \in Input <=> i = 1
            /\ j[2][i] \in {"output", "end"} => i = Len(j[2])

VARIABLES
    mode, route,
    at,         \* the component that has the event
    edits,      \* what it has done to it
    ev,         \* the event
    call,       \* what was called on it last
    out         \* the document of the bulk request; Nil before it is made

vars == <<mode, route, at, edits, ev, call, out>>

Here == route[at]

(***************************************************************************)
(* The fake input's event and that of QuickComponent, which has neither    *)
(* index nor identifier.                                                   *)
(***************************************************************************)
FakeEvent ==
    Put(Put(Put(Put(New, "_id", "id"), "_index", "random"), "random", "id"),
        "@timestamp", "now")

QuickEvent == Put(Put(New, "random", "id"), "@timestamp", "now")

Init ==
    /\ \E j \in Journeys : mode = j[1] /\ route = j[2]
    /\ at = 1
    /\ edits = 0
    /\ ev = IF route[1] = "input" THEN FakeEvent ELSE QuickEvent
    /\ call = <<"Make">>
    /\ out = Nil
-----------------------------------------------------------------------------
(* The processor's function looks at the event or changes it. *)
Edit(e, what) ==
    /\ Here = "processor" /\ edits < MaxEdits
    /\ ev' = e
    /\ call' = what
    /\ edits' = edits + 1
    /\ UNCHANGED <<mode, route, at, out>>

GetField(k) == Edit(AfterGet(ev, k), <<"Get", k, Get(ev, k)>>)

PutField(k, v) == Edit(Put(ev, k, v), <<"Put", k, v>>)

DeleteField(k) == Edit(Delete(ev, k), <<"Delete", k>>)

EncodeField(k, v) ==
    /\ k \in Overwrites \/ Decoded(ev)[k] = Absent
    /\ Edit(PutEncoded(ev, k, v), <<"PutEncoded", k, v>>)

Once(component) == Here = component /\ edits = 0 /\ edits' = 1

Host ==
    /\ Once("host")
    /\ ev' = PutEncoded(ev, "host", "host info")
    /\ call' = <<"PutEncoded", "host", "host info">>
    /\ UNCHANGED <<mode, route, at, out>>

(***************************************************************************)
(* toBeatEvent takes the time out of the contents if it is one, and        *)
(* toEvent puts the zero time first and everything else over it.  The      *)
(* queue in between keeps what it is given.                                *)
(***************************************************************************)
Spooled(contents) ==
    [New EXCEPT !.decoded = [contents EXCEPT !["@timestamp"] = IF @ = Absent THEN "zero" ELSE @]]

Spool ==
    /\ Once("spooler")
    /\ ev' = Spooled(Contents(ev))
    /\ call' = <<"Contents">>
    /\ UNCHANGED <<mode, route, at, out>>

(***************************************************************************)
(* Over the wire go the bytes of the event.  EncodeSend makes them too and *)
(* then hands on the event itself, like DirectSend.                        *)
(***************************************************************************)
Hop(e) ==
    CASE mode = "wire" -> FromEvent(MarshalJSON(e))
      [] mode = "direct" -> e
      [] mode = "encode" -> AfterMarshal(e)

Pass ==
    /\ at < Len(route)
    /\ Here \in {"host", "spooler"} => edits = 1
    /\ at' = at + 1
    /\ edits' = 0
    /\ ev' = Hop(ev)
    /\ call' = <<"Send">>
    /\ UNCHANGED <<mode, route, out>>

(* newDoc: index and identifier are taken out of the event, then its bytes. *)
Output ==
    /\ Once("output")
    /\ LET unindexed == Delete(AfterGet(ev, "_index"), "_index")
           id == Get(unindexed, "_id")
           read == AfterGet(unindexed, "_id")
           left == IF id = Absent THEN read ELSE Delete(read, "_id")
       IN  IF Get(ev, "_index") \in Strings /\ id \in Strings \cup {Absent}
           THEN ev' = AfterMarshal(left) /\ out' = MarshalJSON(left)
           ELSE /\ ev' = IF Get(ev, "_index") \in Strings THEN read
                         ELSE AfterGet(ev, "_index")
                /\ out' = Refused
    /\ call' = <<"MarshalJSON">>
    /\ UNCHANGED <<mode, route, at>>

Next ==
    \/ \E k \in EditKeys :
        \/ GetField(k)
        \/ DeleteField(k)
        \/ \E v \in Values : PutField(k, v) \/ EncodeField(k, v)
    \/ Host
    \/ Spool
    \/ Pass
    \/ Output

Spec == Init /\ [][Next]_vars
-----------------------------------------------------------------------------
Call ==
    {<<"Make">>, <<"Send">>, <<"Contents">>, <<"MarshalJSON">>}
        \cup ({"Get"} \X Key \X (Value \cup {Nil, Absent}))
        \cup ({"Put", "PutEncoded"} \X Key \X Value)
        \cup ({"Delete"} \X Key)

TypeOK ==
    /\ <<mode, route>> \in Journeys
    /\ at \in 1 .. Len(route)
    /\ edits \in 0 .. MaxEdits + 1
    /\ ev \in Event
    /\ call \in Call
    /\ out \in Doc \cup {Nil, Refused}

(* The document that an event stands for: what it would be sent as. *)
Sent(e) == IF MarshalJSON(e) = Nil THEN Empty ELSE MarshalJSON(e)

(***************************************************************************)
(* A component sees what the next one would be sent, whatever it did with  *)
(* the event before: Get finds the value, as it is or decoded, and finds   *)
(* nil where nothing would be sent.                                        *)
(***************************************************************************)
GetIsSent ==
    \A k \in Key :
        LET got == Get(ev, k)
            sent == Sent(ev)[k]
        IN  IF got = Nil THEN sent = Absent \/ Decode[sent] = Nil
            ELSE got \in {sent, Decoding(sent)}

(***************************************************************************)
(* The three forms an event has are one document to those who use it: what *)
(* components do to the event, and hand on, is what was done to the        *)
(* document.                                                               *)
(***************************************************************************)
D == INSTANCE Document WITH
        doc <- Sent(ev),
        Made <- {Sent(FakeEvent), Sent(QuickEvent)},
        Zero <- "zero"

KeepsDocument == D!Spec

(***************************************************************************)
(* "Contents return the all the contents of the event decoded" (event.go): *)
(* the spooler, which keeps the contents only, keeps every field the event *)
(* would be sent with.                                                     *)
(***************************************************************************)
ContentsIsAll ==
    Here = "spooler" =>
        \A k \in Key : Sent(ev)[k] # Absent => Contents(ev)[k] # Absent
=============================================================================
