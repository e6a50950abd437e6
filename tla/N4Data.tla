------------------------------- MODULE N4Data --------------------------------
(***************************************************************************)
(* The values the N4 derived-representation store works on                 *)
(* (simulator/n4_derived_data_plane.py): requests, immutable generations   *)
(* and stored publication rows.                                            *)
(***************************************************************************)
CONSTANTS
    Keys,           \* (object_id, representation_id) pairs
    Contents,       \* artifact digests
    Absent,         \* the catalog or the request does not hold the key
    Versions,       \* catalog_version labels, chosen by the clients
    NoVersion,      \* expected_current_catalog_version is None
    PublicationIds,
    Requests,       \* the publication requests clients may send
    NoGeneration,   \* no generation has been committed
    NoRow           \* n4_publications has no row for the id

ArtifactMaps == [Keys -> Contents \cup {Absent}]

\* A request names at least one artifact and each key once (a map).
RequestType == [id : PublicationIds, version : Versions,
                expect : Versions \cup {NoVersion},
                artifacts : {a \in ArtifactMaps : \E k \in Keys : a[k] # Absent}]

\* generation_id is the hash of the package, which holds these two.
GenerationType == [version : Versions, artifacts : ArtifactMaps]

\* A row binds an id to one request, the committed generation and the
\* version it replaced (the receipt's previous_catalog_version).
RowType == [request : Requests, generation : GenerationType,
            previous : Versions \cup {NoVersion}]

ASSUME DataAssumption ==
    /\ Requests \subseteq RequestType
    /\ Absent \notin Contents
    /\ NoVersion \notin Versions
    /\ NoGeneration \notin GenerationType
    /\ NoRow \notin RowType

VersionOf(g) == IF g = NoGeneration THEN NoVersion ELSE g.version

ArtifactsOf(g) ==
    IF g = NoGeneration THEN [k \in Keys |-> Absent] ELSE g.artifacts

\* The package built from a snapshot: inherited artifacts, overlaid with the
\* additions and replacements of the request.
Combined(g, r) ==
    [version   |-> r.version,
     artifacts |-> [k \in Keys |-> IF r.artifacts[k] # Absent
                                     THEN r.artifacts[k]
                                     ELSE ArtifactsOf(g)[k]]]

Row(r, g, previous) == [request |-> r, generation |-> g, previous |-> previous]

\* No two requests commit the same label.  The provisioning plans choose
\* their labels so; the store itself does not require it.
UniqueLabels == \A r, s \in Requests : r.version = s.version => r = s
=============================================================================
