-------------------------------- MODULE Data --------------------------------
(***************************************************************************)
(* The run-time data of a compiled program: dictionaries, lists and the    *)
(* values that cross the wire.  They share no mutable state, so a program  *)
(* is taken to exercise one of them while the others rest.                 *)
(***************************************************************************)
EXTENDS Dict, Lists, Rpc

VARIABLE part    \* the part of the run-time data this program exercises

dataVars == <<dictVars, listVars, rpcVars, part>>

DataInit ==
    /\ part \in {"dict", "list", "rpc"}
    /\ DictInit /\ ListInit /\ RpcInit
    /\ part # "dict" => dictPlan = CHOOSE p \in DictPlans : TRUE
    /\ part # "list" => listPlan = CHOOSE p \in ListPlans : TRUE
    /\ part # "rpc" => client = CHOOSE s \in Signatures : Valid(s)

DataNext ==
    /\ \/ part = "dict" /\ DictNext /\ UNCHANGED <<listVars, rpcVars>>
       \/ part = "list" /\ ListNext /\ UNCHANGED <<dictVars, rpcVars>>
       \/ part = "rpc" /\ RpcNext /\ UNCHANGED <<dictVars, listVars>>
    /\ UNCHANGED part

DataSpec == DataInit /\ [][DataNext]_dataVars
=============================================================================
