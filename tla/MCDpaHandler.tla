---------------------------- MODULE MCDpaHandler ----------------------------
(***************************************************************************)
(* DpaHandler with three transactions and a queue limit of one: when all   *)
(* are submitted before the first is taken, two are behind it and it is    *)
(* refused; later ones are accepted.                                       *)
(***************************************************************************)
EXTENDS DpaHandler, TLC

CONSTANTS a, b, c, d

MCIds == {a, b, c}
MCAndEmpty == {a, b, c, d}

Ask(addr, cmd, key, timeout) ==
    [req |-> [addr |-> addr, cmd |-> cmd], key |-> key, user |-> timeout,
     err |-> TRN_OK, empty |-> FALSE]

ToNode(key) == Ask("node", "other", key, -1)
Discovery(key) == Ask("coordinator", "long", key, 0)

\* Three different requests.
MCDifferent ==
    a :> ToNode("k1") @@ b :> Ask("coordinator", "short", "k2", -1)
    @@ c :> Ask("broadcast", "other", "k3", -1)

\* Two equal requests, one that is created with an error, and an empty one.
MCEqual ==
    a :> ToNode("k1") @@ b :> ToNode("k1") @@ c :> [ToNode("k2") EXCEPT !.err = -8]
    @@ d :> [ToNode("k2") EXCEPT !.empty = TRUE]

\* One that waits for ever, and others.
MCInfinite == a :> Discovery("k1") @@ b :> ToNode("k2") @@ c :> ToNode("k3")
=============================================================================
