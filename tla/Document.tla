------------------------------ MODULE Document ------------------------------
(***************************************************************************)
(* What an event is to those who write components: a document that is      *)
(* changed key by key and handed on as it is.  Only reading it may change  *)
(* a value, to what it decodes to.                                         *)
(***************************************************************************)
CONSTANTS
    Key, Value, Decode, Absent, Nil,    \* those of EventDoc
    Strings,                            \* the values that are strings
    Made,                               \* the documents that inputs make
    Zero,                               \* Go's zero time, encoded
    Refused                             \* the output's answer to some documents

VARIABLES
    doc,        \* the document
    call,       \* what was called on the event last, and what Get returned
    out         \* what became of it in Elasticsearch; Nil before

vars == <<doc, call, out>>

Init ==
    /\ doc \in Made
    /\ call = <<"Make">>
    /\ out = Nil

(* What is left of a value that was decoded. *)
Clean(v) == IF v = Absent \/ Decode[v] = Nil THEN Absent ELSE Decode[v]

(* Nil is what Get finds where nothing is left. *)
Get(k, value) ==
    /\ call' = <<"Get", k, value>>
    /\ value \in {doc[k], Clean(doc[k])} \/ (value = Nil /\ Clean(doc[k]) = Absent)
    /\ doc' = doc \/ doc' = [doc EXCEPT ![k] = Clean(@)]
    /\ UNCHANGED out

(* Put and PutEncoded differ in nothing but what they save. *)
Write(k, value) ==
    /\ call' \in {<<"Put", k, value>>, <<"PutEncoded", k, value>>}
    /\ doc' = [doc EXCEPT ![k] = value]
    /\ UNCHANGED out

Delete(k) ==
    /\ call' = <<"Delete", k>>
    /\ doc' = [doc EXCEPT ![k] = Absent]
    /\ UNCHANGED out

Send ==
    /\ call' = <<"Send">>
    /\ UNCHANGED <<doc, out>>

(* The spooler reads everything, and an event has a time from then on. *)
Spool ==
    /\ call' = <<"Contents">>
    /\ doc' = [k \in Key |-> IF k = "@timestamp" /\ doc[k] = Absent THEN Zero
                             ELSE Clean(doc[k])]
    /\ UNCHANGED out

Indexable == doc["_index"] \in Strings /\ doc["_id"] \in Strings \cup {Absent}

(***************************************************************************)
(* Elasticsearch is given the document without its index and identifier if *)
(* these can be had, and the document is refused otherwise.  Nobody looks  *)
(* at the event any more.                                                  *)
(***************************************************************************)
Store ==
    /\ out = Nil
    /\ call' = <<"MarshalJSON">>
    /\ doc' \in [Key -> Value \cup {Absent}]
    /\ out' = IF Indexable THEN [doc EXCEPT !["_index"] = Absent, !["_id"] = Absent]
              ELSE Refused

Next ==
    \/ \E k \in Key :
        \/ \E value \in Value \cup {Nil, Absent} : Get(k, value)
        \/ \E value \in Value : Write(k, value)
        \/ Delete(k)
    \/ Send
    \/ Spool
    \/ Store

Spec == Init /\ [][Next]_vars
=============================================================================
