------------------------------ MODULE Custody -------------------------------
(***************************************************************************)
(* What a pipeline does with the events it is given, no call, batch, queue *)
(* or process in it.  An event is taken into custody once, somebody may be *)
(* told that it was, it is offered only while it is held, has one document *)
(* at most, and is let go when it has been answered for or lost.           *)
(***************************************************************************)
EXTENDS Naturals

CONSTANT Events     \* the events that can be made

VARIABLES
  made,         \* the events there are
  taken,        \* those that were ever taken into custody
  held,         \* those that are in it
  documents,    \* documents[e]: how many there are of event e
  refused,      \* those that an answer left out
  lost,         \* those that were lost while they were held
  reported      \* those somebody was told of

vars == <<made, taken, held, documents, refused, lost, reported>>

Init ==
  /\ made = {} /\ taken = {} /\ held = {}
  /\ documents = [e \in Events |-> 0]
  /\ refused = {} /\ lost = {} /\ reported = {}

Make ==
  /\ \E e \in Events \ made : made' = made \cup {e}
  /\ UNCHANGED <<taken, held, documents, refused, lost, reported>>

Take ==
  /\ \E e \in made \ taken : taken' = taken \cup {e} /\ held' = held \cup {e}
  /\ UNCHANGED <<made, documents, refused, lost, reported>>

Report ==
  /\ \E R \in SUBSET taken : reported' = reported \cup R
  /\ UNCHANGED <<made, taken, held, documents, refused, lost>>

\* Some of what is held gets its document, an answer leaves some out, and what
\* has a document or was left out may be let go.
Answer ==
  /\ \E new \in SUBSET {e \in held : documents[e] = 0} :
       documents' = [e \in Events |-> IF e \in new THEN 1 ELSE documents[e]]
  /\ \E left \in SUBSET held : refused' = refused \cup left
  /\ held' \in SUBSET held
  /\ \A e \in held \ held' : documents'[e] = 1 \/ e \in refused'
  /\ UNCHANGED <<made, taken, lost, reported>>

Lose ==
  /\ \E L \in SUBSET held : held' = held \ L /\ lost' = lost \cup L
  /\ UNCHANGED <<made, taken, documents, refused, reported>>

Next == Make \/ Take \/ Report \/ Answer \/ Lose

Spec == Init /\ [][Next]_vars
=============================================================================
