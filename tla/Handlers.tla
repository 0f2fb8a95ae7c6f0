------------------------------ MODULE Handlers ------------------------------
(***************************************************************************)
(* The handler of one connection of backend-responder.py: BackendServer       *)
(* calls _HANDLERS[self.protocol], which is handle_fastcgi (FastCgi) or one   *)
(* of handle_http and handle_scgi (HttpScgi).  The answer and the control     *)
(* state are the ones both modules speak of; what one handler does not use    *)
(* stays as it began.                                                         *)
(***************************************************************************)
EXTENDS Integers, Sequences

CONSTANTS
    Ids, MaxRequest, MaxContent, MaxRecords, NoRequest,  \* of FastCgi
    Streams, MaxHeaders, MaxBlock, MaxDigits,            \* of HttpScgi
    Units                                                \* what streams are made of

ASSUME LimitAssumption ==
    {MaxRequest, MaxContent, MaxRecords, MaxHeaders, MaxBlock, MaxDigits} \subseteq Nat \ {0}
ASSUME IdAssumption == NoRequest \notin Ids
ASSUME StreamAssumption == Streams \in [{"http", "scgi"} -> SUBSET Seq(Units)]
ASSUME UnitAssumption ==
    \A u \in Units :
        /\ u.k = "number" => u.v \in Int
        /\ u.k = "length" => u.v = <<>> \/ u.v[1] \in Int

VARIABLES protocol, pc, wire, requests, trace, stream, pos, data, head

F == INSTANCE FastCgi WITH None <- NoRequest
H == INSTANCE HttpScgi

ASSUME RequestAssumption == NoRequest \notin F!Requests

handlerVars == <<protocol, pc, wire, requests, trace, stream, pos, data, head>>

HandlerInit ==
    \/ /\ protocol = "fastcgi" /\ F!Init
       /\ stream = <<>> /\ pos = 0 /\ data = <<>>
       /\ head = [mode |-> "normal", length |-> 0]
    \/ /\ H!Init
       /\ requests = [q \in Ids |-> NoRequest] /\ trace = <<>>

HandleFastCgi ==
    /\ protocol = "fastcgi"
    /\ F!Next
    /\ UNCHANGED <<protocol, stream, pos, data, head>>

HandleOther ==
    /\ protocol # "fastcgi"
    /\ H!Next
    /\ UNCHANGED <<requests, trace>>

HandlerNext == HandleFastCgi \/ HandleOther

HandlerSpec == HandlerInit /\ [][HandlerNext]_handlerVars

-----------------------------------------------------------------------------
(* The properties of each handler hold of the handler that was called *)

\* FastCgi: interleaved requests are answered once each, in the order in which
\* their bodies end, as their own records say (handle_fastcgi).
AnswersAsMeant == protocol = "fastcgi" => F!AnswersAsMeant

\* FastCgi: a connection is given up exactly for a record that breaks the
\* protocol or a limit, and outlives an answer exactly when the request asked
\* for it and the answer is whole (_fcgi_respond, handle_fastcgi).
EndsAsMeant == protocol = "fastcgi" => F!EndsAsMeant

\* HTTP: the answer and the echo of a tunnel follow from what was received,
\* wherever it was cut (_recv_headers, handle_http).
HttpAsMeant == H!HttpAsMeant

\* SCGI: the same of a netstring and its body (handle_scgi).
ScgiAsMeant == H!ScgiAsMeant

=============================================================================
