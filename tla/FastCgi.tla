------------------------------ MODULE FastCgi ------------------------------
(***************************************************************************)
(* handle_fastcgi of backend-responder.py on one connection.  lighttpd       *)
(* sends the records of several requests, interleaved, with a parameter      *)
(* stream that it cuts anywhere and a body; the handler collects them by     *)
(* request id, parses the parameters when their stream is closed, and        *)
(* answers when the body is.  A record it does not expect raises an          *)
(* exception, and the worker closes the connection without an answer.        *)
(*                                                                           *)
(* A parameter stream is a sequence of tokens of one unit each: a pair that  *)
(* selects a mode, or the head of a pair whose value is the next unit,       *)
(* whatever that looks like.  Of a body only its length matters.  The        *)
(* handler is the only reader of its socket, so a record is received in one  *)
(* step.                                                                     *)
(***************************************************************************)
EXTENDS Naturals, Sequences, SequencesExt, FiniteSetsExt

CONSTANTS
    Ids,         \* request ids
    MaxRequest,  \* max_request: units of parameters, and of body, of a request
    MaxContent,  \* what fits in one record: 0xFFFF, in units
    MaxRecords,  \* bound: the records of a connection
    None         \* no request

VARIABLES
    pc,        \* "reading", "failed" (an exception), "gone" (the peer ended,
               \*   or said nothing until the timeout) or "closed" (return True)
    requests,  \* requests[q]: what is collected for q, or None
    wire,      \* the answers sent
    trace      \* history: the records received

vars == <<pc, requests, wire, trace>>

\* What response_plan distinguishes: a whole answer, one that breaks off, and
\* one that echoes the body.
Modes == {"normal", "early", "upgrade"}
Tokens == Modes \cup {"head"}

Requests == [keep : BOOLEAN, params : Seq(Tokens), body : Nat, mode : Modes]

New(flag) == [keep |-> flag = "keep", params |-> <<>>, body |-> 0,
              mode |-> "normal"]

Init ==
    /\ pc = "reading"
    /\ requests = [q \in Ids |-> None]
    /\ wire = <<>>
    /\ trace = <<>>

Receive(type, q, content) ==
    /\ pc = "reading" /\ Len(trace) < MaxRecords
    /\ trace' = Append(trace, [type |-> type, id |-> q, content |-> content])

Fail ==
    /\ pc' = "failed"
    /\ UNCHANGED <<requests, wire>>

\* r becomes what is collected for q.
Collect(q, r) ==
    /\ requests' = [requests EXCEPT ![q] = r]
    /\ UNCHANGED <<pc, wire>>

-----------------------------------------------------------------------------
\* Version and id are looked at first; a begin must have eight bytes.
Invalid ==
    /\ Receive("invalid", None, "")
    /\ Fail

Begin(q, flag) ==
    /\ Receive("begin", q, flag)
    /\ \/ requests[q] # None /\ Fail
       \/ requests[q] = None /\ Collect(q, New(flag))

\* Any other record needs a begin.
Orphan(q, type, content) ==
    /\ requests[q] = None
    /\ Receive(type, q, content)
    /\ Fail

Params(q, t) ==
    /\ requests[q] # None
    /\ Receive("params", q, t)
    /\ \/ Len(requests[q].params) + 1 > MaxRequest /\ Fail
       \/ /\ Len(requests[q].params) + 1 <= MaxRequest
          /\ Collect(q, [requests[q] EXCEPT !.params = Append(@, t)])

\* A bug to check the properties with: a value is taken for a name.
ParseTokenLoose(s, t) ==
    IF t = "head" THEN [s EXCEPT !.value = TRUE] ELSE [mode |-> t, value |-> FALSE]

\* _fcgi_params and select_mode, unit by unit: the last selection counts.
ParseToken(s, t) ==
    IF s.value THEN [s EXCEPT !.value = FALSE]
    ELSE IF t = "head" THEN [s EXCEPT !.value = TRUE]
    ELSE [s EXCEPT !.mode = t]

Parse(tokens) ==
    FoldLeft(LAMBDA s, t : ParseToken(s, t), [mode |-> "normal", value |-> FALSE],
             tokens)

\* The end of the parameters; they are truncated when a value is missing.
ParamsEnd(q) ==
    /\ requests[q] # None
    /\ Receive("params", q, "")
    /\ LET parsed == Parse(requests[q].params) IN
       \/ parsed.value /\ Fail
       \/ ~parsed.value /\ Collect(q, [requests[q] EXCEPT !.mode = parsed.mode])

Stdin(q) ==
    /\ requests[q] # None
    /\ Receive("stdin", q, "data")
    /\ \/ requests[q].body + 1 > MaxRequest /\ Fail
       \/ /\ requests[q].body + 1 <= MaxRequest
          /\ Collect(q, [requests[q] EXCEPT !.body = @ + 1])

\* The content of the answer: the fixed texts are one unit.
Echo(r) == IF r.mode = "upgrade" THEN r.body ELSE 0

\* A bug to check the properties with: an answer that breaks off does not end
\* the connection.
ClosesUnlessKept(r) == ~r.keep

Closes(r) == r.mode = "early" \/ ~r.keep

Answer(q, r) == [id |-> q, mode |-> r.mode, echo |-> Echo(r),
                 ended |-> r.mode # "early"]

\* A bug to check the properties with: the request is not forgotten.
RespondRemembers(q, r) ==
    \/ 1 + Echo(r) > MaxContent /\ Fail
    \/ /\ 1 + Echo(r) <= MaxContent
       /\ wire' = Append(wire, Answer(q, r))
       /\ pc' = IF Closes(r) THEN "closed" ELSE "reading"
       /\ UNCHANGED requests

\* _fcgi_respond: fcgi_record raises before anything is sent if the answer
\* does not fit in one record.
Respond(q, r) ==
    \/ 1 + Echo(r) > MaxContent /\ Fail
    \/ /\ 1 + Echo(r) <= MaxContent
       /\ wire' = Append(wire, Answer(q, r))
       /\ requests' = [requests EXCEPT ![q] = None]
       /\ pc' = IF Closes(r) THEN "closed" ELSE "reading"

\* The end of the body.  It does not wait for the end of the parameters.
StdinEnd(q) ==
    /\ requests[q] # None
    /\ Receive("stdin", q, "")
    /\ Respond(q, requests[q])

Abort(q) ==
    /\ requests[q] # None
    /\ Receive("abort", q, "")
    /\ Collect(q, None)

\* A record of another type says nothing.
Other(q) ==
    /\ requests[q] # None
    /\ Receive("other", q, "")
    /\ UNCHANGED <<pc, requests, wire>>

\* _recv_exact raises EOFError, or its socket times out.
PeerEnds ==
    /\ pc = "reading"
    /\ pc' = "gone"
    /\ UNCHANGED <<requests, wire, trace>>

Next ==
    \/ Invalid \/ PeerEnds
    \/ \E q \in Ids :
          \/ \E flag \in {"keep", "close"} : Begin(q, flag)
          \/ \E t \in Tokens : Params(q, t)
          \/ ParamsEnd(q) \/ Stdin(q) \/ StdinEnd(q) \/ Abort(q) \/ Other(q)
          \/ \E type \in {"params", "stdin", "abort", "other"} : Orphan(q, type, "")

Spec == Init /\ [][Next]_vars

-----------------------------------------------------------------------------
(* What the records t mean, from the whole of them *)

IsEnd(r) == r.type = "abort" \/ r = [type |-> "stdin", id |-> r.id, content |-> ""]

\* The begin of the request of id q that is open before record i.
StartOf(t, q, i) ==
    {b \in 1 .. i - 1 :
        /\ t[b].type = "begin" /\ t[b].id = q
        /\ \A j \in b + 1 .. i - 1 : t[j].id = q => ~IsEnd(t[j])}

\* The pieces of the parameters that a request begun at b has with record i.
ParamsOf(t, b, i) ==
    {j \in b .. i : t[j].type = "params" /\ t[j].id = t[b].id /\ t[j].content # ""}

BodyOf(t, b, i) ==
    Cardinality({j \in b .. i : t[j] = [type |-> "stdin", id |-> t[b].id,
                                        content |-> "data"]})

\* Every second head of a run of heads is a value; what follows the tokens c[k],
\* k \in S, is one if they end in an odd run.
ExpectsValue(c, S) ==
    LET run == {k \in S : \A m \in S : m >= k => c[m] = "head"}
    IN Cardinality(run) % 2 = 1

\* The last of them that is a selection and no value counts.
Selected(c, S) ==
    LET chosen == {j \in S : c[j] # "head" /\ ~ExpectsValue(c, {k \in S : k < j})}
    IN IF chosen = {} THEN "normal" ELSE c[Max(chosen)]

Contents(t) == [j \in DOMAIN t |-> t[j].content]

ModeOf(t, b, i) ==
    LET ends == {j \in b .. i : t[j] = [type |-> "params", id |-> t[b].id, content |-> ""]}
    IN IF ends = {} THEN "normal" ELSE Selected(Contents(t), ParamsOf(t, b, Max(ends)))

Meant(t, i) ==
    LET b == Max(StartOf(t, t[i].id, i))
    IN Answer(t[i].id, [keep |-> t[b].content = "keep", mode |-> ModeOf(t, b, i),
                        body |-> BodyOf(t, b, i)])

\* Record i breaks the protocol or a limit.
AtFault(t, i) ==
    LET r == t[i]
        starts == StartOf(t, r.id, i)
        b == Max(starts)
    IN
    \/ r.type = "invalid"
    \/ (r.type = "begin") = (starts # {})
    \/ /\ starts # {}
       /\ \/ Cardinality(ParamsOf(t, b, i)) > MaxRequest \/ BodyOf(t, b, i) > MaxRequest
          \/ /\ r.type = "params" /\ r.content = ""
             /\ ExpectsValue(Contents(t), ParamsOf(t, b, i))
          \/ r.type = "stdin" /\ r.content = "" /\ Meant(t, i).echo >= MaxContent

\* The records that end a body and were not refused.
Finished ==
    {i \in DOMAIN trace : /\ trace[i].type = "stdin" /\ trace[i].content = ""
                          /\ pc = "failed" => i # Len(trace)}

-----------------------------------------------------------------------------
(* Properties *)

\* However the records of several requests are interleaved and their
\* parameters are cut, each request whose body ends is answered once, in that
\* order, under its id, in the mode its own parameters select and with its
\* own body; an aborted one is not, and what went before a new begin of the
\* same id does not count (backend-responder.py, handle_fastcgi).
AnswersAsMeant ==
    /\ Len(wire) = Cardinality(Finished)
    /\ \A i \in Finished : wire[Cardinality(Finished \cap (1 .. i))] = Meant(trace, i)

\* The handler gives a connection up for no record but one that breaks the
\* protocol, exceeds a limit or asks for an answer that does not fit in a
\* record: a request id may be used again after its answer or its abort, and
\* what one request did wrong is never charged to a later record.  It outlives
\* an answer exactly when the request asked for that and the answer is whole,
\* whatever other requests are open; after one that breaks off nothing follows.
EndsAsMeant ==
    /\ pc = "failed" <=> trace # <<>> /\ AtFault(trace, Len(trace))
    /\ pc = "closed" => Len(trace) \in Finished
    /\ \A i \in Finished :
          LET b == Max(StartOf(trace, trace[i].id, i)) IN
          (pc = "closed" /\ i = Len(trace)) <=>
              (~Meant(trace, i).ended \/ trace[b].content = "close")

=============================================================================
