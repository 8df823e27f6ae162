------------------------ MODULE DpaTransactionResult ------------------------
(***************************************************************************)
(* DpaTransactionResult2: the record that a transaction fills while it is  *)
(* pending and that get() hands to the user.                               *)
(***************************************************************************)
EXTENDS DpaMessage

TRN_OK == 0
TRN_ERROR_TIMEOUT == -1
TRN_ERROR_ABORTED == -3

\* The codes of the handler, and those of a response, which are bytes.
ErrorCodes == -8 .. 255

Results == [errorCode : ErrorCodes, responseCode : Bytes, isConfirmed : BOOLEAN,
            isResponded : BOOLEAN, confirmation : DpaMessages, response : DpaMessages]

NewResult ==
    [errorCode |-> TRN_ERROR_ABORTED, responseCode |-> TRN_OK, isConfirmed |-> FALSE,
     isResponded |-> FALSE, confirmation |-> Empty, response |-> Empty]

SetConfirmation(res, msg) ==
    [res EXCEPT !.confirmation = Copied(msg), !.isConfirmed = TRUE]

\* The code is taken from the buffer of the message, not of the copy, whether
\* or not it has that byte; an earlier code stays if the message is empty.
SetResponse(res, msg) ==
    [res EXCEPT !.response = Copied(msg),
                !.responseCode = IF msg.length > 0 THEN msg.code ELSE @,
                !.isResponded = msg.length > 0]

\* (mutant) the code is stored as it comes
MutSetErrorCode(res, code) == [res EXCEPT !.errorCode = code]

\* A success gives way to the error the device has responded with.
SetErrorCode(res, code) ==
    [res EXCEPT !.errorCode =
        IF code = TRN_OK /\ res.responseCode # TRN_OK THEN res.responseCode ELSE code]

GetErrorCode(res) ==
    IF res.errorCode # TRN_OK THEN res.errorCode ELSE res.responseCode

\* errorCode(): the text is a name for each code of the enumeration and one for
\* all others, told apart by the number in it.
NamedCodes == (-8 .. 10) \cup {63, STATUS_CONFIRMATION}
ErrorText(code) == IF code \in NamedCodes THEN <<"name", code>> ELSE <<"user", code>>

GetErrorString(res) == ErrorText(res.errorCode)
=============================================================================
