-------------------------- MODULE MCDocumentReads --------------------------
(* A small instance of DocumentReads for TLC. *)
EXTENDS DocumentReads

\* Documents and organisations are interchangeable until a reader names one
\* of each, so one choice of the two stands for all.  A list is narrowed by
\* a store, or by the status that a document enters, leaves and enters again.
MCInit ==
    /\ ReadsInit
    /\ \A x \in Reader :
         /\ target[x] = CHOOSE r \in Request : TRUE
         /\ caller[x].org = CHOOSE org \in Org : TRUE
         /\ IF op[x] = "list" /\ caller[x].store = NoStore
            THEN wanted[x] = "ready" ELSE wanted[x] = "any"

\* Documents share nothing but the list.  A reader of one document has no
\* other beside it.  Under a walk no write fails, which would only keep
\* documents out of it; a walk narrowed by status is through documents of
\* its caller, and one narrowed by store is through documents that wait for
\* the worker.
MCNext ==
    /\ ReadsNext
    /\ \A x \in Reader :
         IF op[x] # "list" THEN \A r \in Request \ {target[x]} : pc'[r] = "new"
         ELSE \A r \in Request :
                /\ answer'[r] \in {"none", "accepted"}
                /\ IF wanted[x] = "any" THEN jobs'[r] # "running"
                                        ELSE owner'[r] \in {Nobody, caller[x]}

MCSpec == MCInit /\ [][MCNext]_readsVars /\ ReadsFairness

=============================================================================
