----------------------------- MODULE MCJourney -----------------------------
(* Instances of Journey: values that decode to others, chains. *)
EXTENDS Journey

SomeKeys == {"_index", "_id", "random", "@timestamp", "host"}

(* "wide" is an integer that a float64 rounds; null is nothing. *)
SomeValues == Known \cup {"null", "wide", "rounded"}

Decoder ==
    [v \in SomeValues |-> CASE v = "null" -> Nil
                            [] v = "wide" -> "rounded"
                            [] OTHER -> v]

SomeStrings == {"id", "random", "now", "zero"}

Fake == <<"input", "host", "processor", "spooler", "output">>

(* Every chain with the wire; without it those that do not spool or index. *)
SomeJourneys ==
    ({"wire"} \X {Fake,
                  <<"quick", "processor", "host", "spooler", "output">>,
                  <<"input", "processor", "processor", "output">>})
    \cup ({"direct", "encode"} \X {<<"quick", "host", "end">>,
                                   <<"quick", "processor", "processor", "end">>})

(* The chain of notes.txt without the wire. *)
Handed == {"direct", "encode"} \X {<<"input", "host", "spooler", "output">>}
=============================================================================
