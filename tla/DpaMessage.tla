----------------------------- MODULE DpaMessage -----------------------------
(***************************************************************************)
(* DpaMessage: a buffer of 64 bytes and a length.  Of the bytes, only the  *)
(* two that decide what a message is are kept: the command (PCMD) and the  *)
(* response code.  What arrives from a channel is raw data with a length   *)
(* of its own and the bytes it has at those two places.                    *)
(***************************************************************************)
EXTENDS Integers

kMaxDpaMessageSize == 64
kCommandIndex == 3
kStatusCodeIndex == 6

\* PCMD of a response has this bit; so has the code of an asynchronous one.
RESPONSE_FLAG == 128
STATUS_ASYNC_RESPONSE == 128
STATUS_CONFIRMATION == 255

Bytes == 0 .. 255
Uint8(n) == n % 256
HasFlag(byte) == byte \div 128 = 1

\* Data from outside, and objects.
RawMessages == [length : Nat, command : Bytes, code : Bytes]
DpaMessages == [length : 0 .. kMaxDpaMessageSize, command : Bytes, code : Bytes]

\* The default constructor: no data in a buffer of zeros.
Empty == [length |-> 0, command |-> 0, code |-> 0]

\* DataToBuffer(): the length arrives as a byte.  No data leave the object as it
\* is, bytes behind the new data stay what they were.
DataToBuffer(msg, raw) ==
    LET n == Uint8(raw.length) IN
    IF n = 0 THEN msg
    ELSE [length |-> n,
          command |-> IF n > kCommandIndex THEN raw.command ELSE msg.command,
          code |-> IF n > kStatusCodeIndex THEN raw.code ELSE msg.code]

\* (mutant) no data are accepted
MutFillRefuses(raw) == Uint8(raw.length) > kMaxDpaMessageSize

\* FillFromResponse() throws: invalid_argument for no data, and length_error of
\* DataToBuffer() for too many.
FillRefuses(raw) ==
    Uint8(raw.length) = 0 \/ Uint8(raw.length) > kMaxDpaMessageSize

\* The constructor from a string, where it does not throw.  Without data it
\* leaves m_length uninitialized: any number.
Constructed(raw, garbage) ==
    DataToBuffer([Empty EXCEPT !.length = garbage], raw)

\* The copy constructor and the assignment: as many bytes as there are data, in a
\* new buffer of zeros.
Copied(msg) ==
    [length |-> msg.length,
     command |-> IF msg.length > kCommandIndex THEN msg.command ELSE 0,
     code |-> IF msg.length > kStatusCodeIndex THEN msg.code ELSE 0]

IsConfirmationMessage(msg) == msg.code = STATUS_CONFIRMATION

HasResponseFlag(msg) == msg.length >= kCommandIndex /\ HasFlag(msg.command)

MessageDirection(msg) ==
    CASE HasResponseFlag(msg) -> "kResponse"
      [] /\ ~HasResponseFlag(msg)
         /\ msg.length > kStatusCodeIndex
         /\ IsConfirmationMessage(msg) -> "kConfirmation"
      [] OTHER -> "kRequest"
=============================================================================
