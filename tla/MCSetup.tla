------------------------------ MODULE MCSetup ------------------------------
(* Finite instances of Setup for TLC. *)
EXTENDS Setup, TLC

CONSTANTS disk, orders, daily, home

\* A host that backs up to its disk
InUse == [storages |-> {disk}, databases |-> {orders},
          jobs |-> [any \in Job |-> [enabled |-> TRUE, schedule |-> daily,
                                     storage |-> disk, databases |-> {},
                                     keeps |-> TRUE]],
          monitor |-> [enabled |-> TRUE, node |-> home]]
StartConfigs == {InUse}

Symmetry == Permutations(Menu) \cup Permutations(WebDAV)
=============================================================================
