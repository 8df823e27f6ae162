-------------------------- MODULE MCDpaTransaction --------------------------
(***************************************************************************)
(* DpaTransaction on small instances.  With DefaultTimeout = 2 the user    *)
(* timeouts are: none (-1), infinite (0), one that is raised to the        *)
(* default (1) and one that is longer (3); an estimate may be shorter (1)  *)
(* or longer (3) than the default; BondTimeout is longer than all others.  *)
(***************************************************************************)
EXTENDS DpaTransaction

\* Every class of request; commands matter only at the coordinator.
MCRequests ==
    {[addr |-> "coordinator", cmd |-> c] : c \in Commands}
    \cup {[addr |-> a, cmd |-> "other"] : a \in {"node", "broadcast"}}

MCNodeRequests == {[addr |-> "node", cmd |-> "other"]}

MCUserTimeouts == {-1, 0, 1, 3}
MCStaleTimeouts == {-1, 0, 3}
MCLongUserTimeout == {3}
MCNoUserTimeout == {-1}

MCDefaultErrors == {TRN_OK, -8}
MCNoDefaultErrors == {TRN_OK}
MCRefusals == {TRN_ERROR_IFACE_QUEUE_FULL}
=============================================================================
