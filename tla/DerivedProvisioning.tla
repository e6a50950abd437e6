------------------------- MODULE DerivedProvisioning -------------------------
(***************************************************************************)
(* Clients take bundles and digests from N5 and publish them at N4         *)
(* (full_flow_live_provisioning_smoke.py): N5Materialization composed with *)
(* N4Store.                                                                *)
(***************************************************************************)
EXTENDS N4Store, N5Materialization

CONSTANT MaxCalls   \* bound on the calls open at a time, over both nodes

VARIABLE fetched    \* the artifacts some client has downloaded and verified

systemVars == <<vars, n5Vars, fetched>>

OpenCalls ==
    Cardinality({h \in Handlers : pc[h] # "idle"})
        + Cardinality({h \in Threads : thread[h].pc # "idle"})

MayCall == OpenCalls < MaxCalls

InitSystem == Init /\ InitN5 /\ fetched = {}

\* fetch_result: the client compares the bytes with the frozen or reported digest.
FetchResult(c) ==
    /\ c \in Downloadable \ fetched
    /\ fetched' = fetched \cup {c}
    /\ UNCHANGED <<vars, n5Vars>>

\* The artifacts of a publication were downloaded before.
Publish(h, r) ==
    /\ MayCall
    /\ {r.artifacts[k] : k \in Keys} \ {Absent} \subseteq fetched
    /\ Receive(h, r)
    /\ UNCHANGED <<n5Vars, fetched>>

NextSystem ==
    \/ \E c \in Contents : FetchResult(c)
    \/ \E h \in Handlers, r \in Requests : Publish(h, r)
    \/ (\E h \in Handlers : Step(h)) /\ UNCHANGED <<n5Vars, fetched>>
    \/ Crash /\ UNCHANGED <<n5Vars, fetched>>
    \/ MayCall /\ (\E h \in Threads, p \in FramePlans : SubmitFrames(h, p))
               /\ UNCHANGED <<vars, fetched>>
    \/ MayCall /\ (\E h \in Threads, r \in DigestRequests : SubmitDigest(h, r))
               /\ UNCHANGED <<vars, fetched>>
    \/ N5Internal /\ UNCHANGED <<vars, fetched>>

SystemSpec == InitSystem /\ [][NextSystem]_systemVars

\* Every artifact the N4 catalog serves is still what N5 holds for the request
\* it was made by, whatever was repeated or died since the client fetched it:
\* the catalog never outlives its evidence.
PublishedIsMaterialized ==
    \A i \in PublicationIds : publications[i] # NoRow =>
        \A k \in Keys :
            LET c == publications[i].generation.artifacts[k] IN
            c # Absent => c \in bundles \cup {outputs[d].digest : d \in
                                {e \in DigestIds : outputs[e] # None /\ records[e] # None}}
=============================================================================
