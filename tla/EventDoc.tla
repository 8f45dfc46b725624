------------------------------ MODULE EventDoc ------------------------------
(***************************************************************************)
(* An event, decoded as little as its readers need                         *)
(* (elastic-agent-sdk/pkg/events/event.go).                                *)
(*                                                                         *)
(* An event holds one document in up to three forms: the bytes it arrived  *)
(* as, those bytes cut at the top-level keys, and what was decoded of them *)
(* or put in by the component.  A document is a function from keys to      *)
(* encoded values; the bytes and their cut are the same function here.     *)
(***************************************************************************)

CONSTANTS
    Key,        \* the top-level keys that matter
    Value,      \* encoded values
    Decode,     \* what decoding makes of a value, as it would be encoded again
    Absent,     \* the key is not there
    Nil         \* Go's nil: no value, no map, no bytes

Doc == [Key -> Value \cup {Absent}]

(* A map of decoded values; Nil in it is a key that was deleted. *)
Map == [Key -> Value \cup {Nil, Absent}]

(***************************************************************************)
(* Decoding is not the identity: null becomes nil, and an integer becomes  *)
(* a float64, which may be another number; the float is the same again.    *)
(***************************************************************************)
ASSUME EventDocAssumption ==
    /\ Absent \notin Value /\ Nil \notin Value /\ Absent # Nil
    /\ Decode \in [Value -> Value \cup {Nil}]
    /\ \A v \in Value : Decode[v] \in Value => Decode[Decode[v]] = Decode[v]
    /\ Nil \notin Map

Event == [data : Doc \cup {Nil}, parsed : Doc \cup {Nil}, decoded : Map \cup {Nil}]

Empty == [k \in Key |-> Absent]

FromEvent(data) == [data |-> data, parsed |-> Nil, decoded |-> Nil]

New == FromEvent(Nil)

Parse(e) == IF e.data = Nil THEN Empty ELSE e.data

Parsed(e) == IF e.parsed = Nil THEN Parse(e) ELSE e.parsed

Decoded(e) == IF e.decoded = Nil THEN Empty ELSE e.decoded

Decoding(v) == IF v = Absent THEN Absent ELSE Decode[v]

(* The cut document is asked before what was decoded, used as a mutant. *)
BadGet(e, k) ==
    IF Parsed(e)[k] # Absent THEN Decoding(Parsed(e)[k]) ELSE Decoded(e)[k]

(* What Get returns; Absent is "not found", and Nil is found. *)
Get(e, k) ==
    IF Decoded(e)[k] # Absent THEN Decoded(e)[k] ELSE Decoding(Parsed(e)[k])

AfterGet(e, k) ==
    IF Decoded(e)[k] # Absent THEN e
    ELSE [e EXCEPT !.parsed = Parsed(e),
                   !.decoded = IF Parsed(e)[k] = Absent THEN @
                               ELSE [Decoded(e) EXCEPT ![k] = Get(e, k)]]

Put(e, k, v) == [e EXCEPT !.decoded = [Decoded(e) EXCEPT ![k] = v]]

Delete(e, k) == Put(e, k, Nil)

(* The event is not marked as changed, used as a mutant. *)
BadPutEncoded(e, k, v) == [e EXCEPT !.parsed = [Parsed(e) EXCEPT ![k] = v]]

(* The value goes into the cut document and the event counts as changed. *)
PutEncoded(e, k, v) ==
    [e EXCEPT !.decoded = Decoded(e), !.parsed = [Parsed(e) EXCEPT ![k] = v]]

Overlay(below, above) ==
    [k \in Key |-> CASE above[k] = Absent -> below[k]
                     [] above[k] = Nil -> Absent
                     [] OTHER -> above[k]]

(* The bytes of an event; those it came with if nothing was decoded of it. *)
MarshalJSON(e) == IF e.decoded = Nil THEN e.data ELSE Overlay(Parsed(e), e.decoded)

(* The cut document is overwritten on the way. *)
AfterMarshal(e) == IF e.decoded = Nil THEN e ELSE [e EXCEPT !.parsed = MarshalJSON(e)]

(* All of the bytes decoded, under what was decoded or put in before. *)
Contents(e) == Overlay([k \in Key |-> Decoding(Parse(e)[k])], Decoded(e))
=============================================================================
