------------------------- MODULE TemporalRefinement -------------------------
(* TemporalStore implements VersionHistory: the mapping of its documents to *)
(* the current version and the past intervals of each concept.              *)
EXTENDS TemporalStore

TheCurrent(c) == CHOOSE i \in CurrentOf(c) : TRUE
Expired(c) == {i \in DOMAIN docs : docs[i].concept = c /\ i \notin Current(docs)}

History == INSTANCE VersionHistory WITH
    Concepts <- Concepts,
    current <- [c \in Concepts |-> IF CurrentOf(c) = {} THEN 0 ELSE docs[TheCurrent(c)].version],
    since <- [c \in Concepts |-> IF CurrentOf(c) = {} THEN 0 ELSE docs[TheCurrent(c)].created],
    past <- [c \in Concepts |->
                {[version |-> docs[i].version, created |-> docs[i].created,
                  expired |-> docs[i].expired] : i \in Expired(c)}],
    now <- clock

(* Serialized, the store keeps a faithful history of every concept: each    *)
(* step of update_entity, create_class and expire_class_cascade, and each   *)
(* interruption of one, is a step of VersionHistory or changes nothing in   *)
(* it; the re-creation of edges never disturbs the versions.                *)
ImplementsHistory == History!Spec
=============================================================================
