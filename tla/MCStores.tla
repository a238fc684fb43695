------------------------------ MODULE MCStores ------------------------------
(* What Harkness keeps on disk: the catalog of projects, the runtime store,  *)
(* its records, the index cache and the registry of agents.  A behaviour is  *)
(* one of one of them, chosen at the start, so that the state space is the   *)
(* sum of theirs.                                                            *)
EXTENDS ProjectCatalog, StoreWrites, RunRecords, IndexCache, AgentRegistry

VARIABLE part

Init == /\ part \in {"catalog", "store", "records", "cache", "agents"}
        /\ CatalogInit /\ (part = "catalog" \/ minted = {})
        /\ StoreInit
        /\ IF part = "records" THEN RecordInit ELSE insert_step(1, CHOOSE t \in Times : TRUE)
        /\ CacheInit /\ (part = "cache" \/ (named = 0 /\ alone # "none"))
        /\ AgentInit

Next == \/ /\ part = "catalog" /\ CatalogNext
           /\ UNCHANGED <<part, storeVars, row, cacheVars, agentVars>>
        \/ /\ part = "store" /\ StoreNext
           /\ UNCHANGED <<part, catVars, row, cacheVars, agentVars>>
        \/ /\ part = "records" /\ RecordNext
           /\ UNCHANGED <<part, catVars, storeVars, cacheVars, agentVars>>
        \/ /\ part = "cache" /\ CacheNext
           /\ UNCHANGED <<part, catVars, storeVars, row, agentVars>>
        \/ /\ part = "agents" /\ AgentNext
           /\ UNCHANGED <<part, catVars, storeVars, row, cacheVars>>

Spec == Init /\ [][Next]_<<part, catVars, storeVars, row, cacheVars, agentVars>>
=============================================================================
