------------------------------ MODULE MCTables ------------------------------
(***************************************************************************)
(* Instances for TLC of two components that do not interact, each a table  *)
(* of limited size that throws out its oldest entry: the records of the    *)
(* batches, and the hash table in shared memory.  A behaviour is one of    *)
(* the component that part names, the variables of the other keep their    *)
(* initial values.                                                         *)
(***************************************************************************)
EXTENDS IBCMgrSvc, LruHashTable, TLC

VARIABLE part

Keys == 0 :> 0 @@ 1 :> 1

TablesInit ==
    /\ part \in {"ibc", "lru"}
    /\ Init
    /\ LruInit

TablesNext ==
    \/ part = "ibc" /\ Next /\ UNCHANGED <<part, lruVars>>
    \/ part = "lru" /\ LruNext /\ UNCHANGED <<part, vars>>

(* The fairness of FairSpec.  Its behaviours are those of the batches: in  *)
(* the others the threads never move.                                      *)
TablesSpec ==
    /\ TablesInit /\ [][TablesNext]_<<part, vars, lruVars>>
    /\ \A b \in Batches : WF_vars(Create(b))
    /\ \A t \in Threads : WF_vars(Thread(t))
=============================================================================
