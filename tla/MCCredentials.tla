--------------------------- MODULE MCCredentials ---------------------------
(* Where secrets come from: a helper command, and the Secret Service of a Linux
   desktop. The two are independent of each other here: component says whose
   behaviour it is. *)
EXTENDS HelperCommand, SecretStore, TLC

VARIABLE component  \* whose behaviour this is

suiteVars == <<component, helperVars, storeVars>>

(* The store again, whose daemon stays and beside an item of another program. *)
F == INSTANCE SecretStore WITH MaxDaemon <- 1, MaxForeign <- 1

(* The operations on the store are alike. *)
AlikeCalls == Permutations(Calls)

-----------------------------------------------------------------------------
(* While one is at work, no helper has started or no operation begun. *)
SuiteInit ==
    /\ HelperInit /\ StoreInit
    /\ component \in {"helper", "store", "shared store"}
    /\ component = "helper" => Published = {}

HelperStep ==
    /\ component = "helper" /\ HelperNext
    /\ UNCHANGED <<component, storeVars>>
StoreStep ==
    /\ \/ component = "store" /\ StoreNext
       \/ component = "shared store" /\ F!StoreNext
    /\ UNCHANGED <<component, helperVars>>

SuiteNext == HelperStep \/ StoreStep
SuiteSpec == SuiteInit /\ [][SuiteNext]_suiteVars

-----------------------------------------------------------------------------
ASSUME InstanceAssumption == HelperAssumption
=============================================================================
