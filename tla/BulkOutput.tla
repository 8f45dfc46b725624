----------------------------- MODULE BulkOutput -----------------------------
(***************************************************************************)
(* The elasticsearch output                                                *)
(* (elastic-agent-output-elasticsearch/output): a batch becomes one bulk   *)
(* request of create operations, and the ids that were created are         *)
(* returned.  Elasticsearch creates a document of an id once (409 after    *)
(* that); the request may fail as a whole, before or after its execution.  *)
(***************************************************************************)
EXTENDS Hop

CONSTANTS
  Malformed,    \* the events whose document cannot be made (newDoc)
  Refusable     \* the events whose document Elasticsearch may refuse

VARIABLES
  created,      \* how often a document of the event's id was created
  refused       \* the events that an answer left out

outputVars == <<created, refused>>

OutputTypeOK == created \in [Event -> Nat] /\ refused \subseteq Event

OutputInit == created = [e \in Event |-> 0] /\ refused = {}

\* An event without an _index, or whose _index or _id is no string, fails its
\* whole batch before anything is sent.
Fails(evts) == evts \cap Malformed # {}

BadCreatable(e) == TRUE

\* {"create": ...}
Creatable(e) == created[e] = 0

\* The bulk request is executed, or not, and creates the documents of new.
Bulk(evts, new) ==
  /\ new = {} \/ {e \in evts : Creatable(e)} \ Refusable \subseteq new
  /\ new \subseteq {e \in evts : Creatable(e)}
  /\ created' = [e \in Event |-> IF e \in new THEN created[e] + 1 ELSE created[e]]

\* The answer to the sender: the ids that were created, none if there is no
\* answer from Elasticsearch.
Left(evts, new) == refused' = refused \cup (evts \ new)
=============================================================================
