---------------------------- MODULE MCReceivePath ----------------------------
(***************************************************************************)
(* Two services and the kinds of data that a channel may deliver.          *)
(***************************************************************************)
EXTENDS ReceivePath

CONSTANTS a, b, s1

MCServices == {a, b}
MCSends == {s1}

\* A response with an error, one that nobody has asked for, a confirmation, and
\* what is refused: 256 bytes, which FillFromResponse() takes for none.  A request
\* takes the way of a response that nobody has asked for.
MCRaw ==
    {[length |-> 8, command |-> 130, code |-> 3],
     [length |-> 8, command |-> 130, code |-> 128],
     [length |-> 11, command |-> 2, code |-> 255],
     [length |-> 256, command |-> 130, code |-> 0]}

MCVerdicts == {TRN_OK}

\* The services differ in nothing: who calls first may be called a.
FirstCallIsA == calls = MaxCalls => call'[b] = "none"
=============================================================================
