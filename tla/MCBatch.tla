------------------------------- MODULE MCBatch -------------------------------
(***************************************************************************)
(* The data on the way: either a batch of commands from the page to the    *)
(* servlet, or a response that jQuery.ajax converts for the page.  They    *)
(* share no state.                                                         *)
(***************************************************************************)
EXTENDS AmqBatch, JQueryConvert

VARIABLE way

dataVars == <<way, vars, convertVars>>

noBatch ==
    /\ pc = "done" /\ queue = <<>> /\ i = 1
    /\ messagesToSend_ = <<>> /\ messagesToQueue_ = <<>>
    /\ outgoingHeaders = NoHeaders
    /\ built = 0 /\ body = <<>> /\ messages = 0 /\ decoded = <<>>

noResponse ==
    /\ step = "none" /\ asked = <<>> /\ ct = "unknown" /\ responses = <<>>
    /\ dataTypes = <<>> /\ current = "*" /\ turn = 1 /\ response = "none"
    /\ threw = FALSE

DataInit ==
    \/ way = "batch" /\ Init /\ noResponse
    \/ way = "response" /\ ConvertInit /\ noBatch

DataNext ==
    /\ UNCHANGED way
    /\ \/ way = "batch" /\ Next /\ UNCHANGED convertVars
       \/ way = "response" /\ ConvertNext /\ UNCHANGED vars

DataSpec == DataInit /\ [][DataNext]_dataVars
=============================================================================
