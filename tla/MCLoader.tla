------------------------------ MODULE MCLoader ------------------------------
(* The loader and its registry for TLC.  They share no state (the registry is
   read while a phase runs, its entries do not depend on any module), so one of
   them moves while the other is as it was created. *)
EXTENDS NxLoader, ImportRegistry

LoaderVars == <<vars, registryVars>>

LoaderInit == Init /\ RegistryInit

ModulesMove == accepted = {} /\ table = <<>> /\ Next /\ UNCHANGED registryVars

ProvidersMove ==
    /\ \A m \in Modules : state[m] = "NONE"
    /\ stack = <<>>
    /\ RegistryNext /\ UNCHANGED vars

\* A registry that has been given MaxAccepted offers is given no more.
LoaderSpec == LoaderInit /\ [][ModulesMove \/ ProvidersMove]_LoaderVars
=============================================================================
