------------------------------ MODULE HttpScgi ------------------------------
(***************************************************************************)
(* handle_http and handle_scgi of backend-responder.py on one connection.     *)
(* lighttpd sends a stream that the network cuts anywhere: every recv returns *)
(* any non-empty part of what is asked for and has been sent.  The handler    *)
(* collects the header and the body, answers in the mode they select, and     *)
(* after an upgrade of HTTP echoes what follows.                              *)
(*                                                                           *)
(* A unit of a stream is a record with a kind k and a value v: of HTTP the    *)
(* request line, a header (a length that is no number is <<>>) or an end of   *)
(* line; of SCGI a digit or a separator of the netstring, a header name or   *)
(* its value; of both, data.                                                  *)
(***************************************************************************)
EXTENDS Integers, Sequences, SequencesExt, FiniteSetsExt

CONSTANTS
    Streams,     \* Streams[protocol]: the streams to choose from
    MaxHeaders,  \* _MAX_HEADERS, in units
    MaxRequest,  \* max_request and _MAX_REQUEST, in units
    MaxBlock,    \* the 4096 of a recv, in units
    MaxDigits    \* the 10 digits of a netstring

VARIABLES
    protocol,  \* "http" or "scgi"
    pc,        \* what is received: "header", and of SCGI then "block" and
               \*   "comma", "body", "tunnel"; or "closed" (it has answered),
               \*   "failed" (an exception), "gone" (the peer ended or is silent)
    wire,      \* the answer sent: <<>> or <<[mode, echo]>>
    stream,    \* history: what the peer sends
    pos,       \* how much of it has been received
    data,      \* what was received and is still to be used
    head       \* what was parsed: the mode, and the length of the next part

vars == <<protocol, pc, wire, stream, pos, data, head>>

InitOf(p) ==
    /\ protocol = p
    /\ pc = "header" /\ wire = <<>>
    /\ stream \in Streams[p]
    /\ pos = 0 /\ data = <<>>
    /\ head = [mode |-> "normal", length |-> 0]

Init == \E p \in {"http", "scgi"} : InitOf(p)

Fail == pc' = "failed" /\ UNCHANGED <<wire, data, head>>

\* What a recv for at most n units may return, from what was sent.
Blocks(n) ==
    {SubSeq(stream, pos + 1, pos + k) :
        k \in 1 .. Min({n, MaxBlock, Len(stream) - pos})}

Recv(block) == pos' = pos + Len(block) /\ UNCHANGED <<protocol, stream>>

\* response_plan: only an upgrade echoes, and at most MaxRequest units.
Respond(next, mode, content) ==
    /\ wire' = <<[mode |-> mode,
                  echo |-> IF mode = "upgrade"
                           THEN SubSeq(content, 1, Min({Len(content), MaxRequest}))
                           ELSE <<>>]>>
    /\ pc' = next /\ data' = <<>>
    /\ UNCHANGED head

\* select_mode: a header that is there counts before the URI, even one without a
\* value, and an unknown name is normal.
SelectMode(uri, header) ==
    LET name == IF header = <<>> THEN uri ELSE header[1]
    IN IF name \in {"upgrade", "truncated"} THEN name ELSE "normal"

\* What the headers of kind k say, <<value>> or <<>>: later ones replace earlier.
LastOf(units, k) ==
    FoldLeft(LAMBDA value, u : IF u.k = k THEN <<u.v>> ELSE value, <<>>, units)

-----------------------------------------------------------------------------
(* handle_http *)

\* A bug to check the properties with: the end of the header is looked for in
\* what the last recv returned.
MarkerInBlock(before, block) ==
    LET ends == {i \in 2 .. Len(block) : block[i].k = "eol" /\ block[i - 1].k = "eol"}
    IN IF ends = {} THEN 0 ELSE Len(before) + Min(ends)

\* The first two ends of line in a row.
Marker(before, block) ==
    LET all == before \o block
        ends == {i \in 2 .. Len(all) : all[i].k = "eol" /\ all[i - 1].k = "eol"}
    IN IF ends = {} THEN 0 ELSE Min(ends)

\* _parse_http_headers and the content length: no number is 0.
HttpParse(lines, extra) ==
    LET length == LastOf(lines, "length")
        n == IF length = <<>> THEN 0 ELSE IF length[1] = <<>> THEN 0 ELSE length[1][1]
    IN \/ (lines[1].k # "line" \/ n < 0 \/ n > MaxRequest) /\ Fail
       \/ /\ lines[1].k = "line" /\ n >= 0 /\ n <= MaxRequest
          /\ head' = [mode |-> SelectMode(lines[1].v, LastOf(lines, "mode")),
                      length |-> n]
          /\ data' = extra /\ pc' = "body"
          /\ UNCHANGED wire

\* _recv_headers asks for one unit more than the limit.
HttpHeader ==
    /\ pc = "header" /\ protocol = "http"
    /\ \E block \in Blocks(MaxHeaders + 1 - Len(data)) :
          LET all == data \o block
              end == Marker(data, block)
          IN /\ Recv(block)
             /\ \/ end # 0 /\ HttpParse(SubSeq(all, 1, end), SubSeq(all, end + 1, Len(all)))
                \/ end = 0 /\ Len(all) > MaxHeaders /\ Fail
                \/ /\ end = 0 /\ Len(all) <= MaxHeaders
                   /\ data' = all
                   /\ UNCHANGED <<pc, wire, head>>

Missing == head.length - Len(data)

\* _recv_exact.
Body ==
    /\ pc = "body" /\ Missing > 0
    /\ \E block \in Blocks(Missing) :
          /\ Recv(block)
          /\ data' = data \o block
    /\ UNCHANGED <<pc, wire, head>>

\* What followed the body is the beginning of the tunnel.
HttpRespond ==
    /\ pc = "body" /\ protocol = "http" /\ Missing <= 0
    /\ Respond(IF head.mode = "upgrade" THEN "tunnel" ELSE "closed", head.mode,
               SubSeq(data, head.length + 1, Len(data)))
    /\ UNCHANGED <<protocol, stream, pos>>

Room == MaxRequest - Len(wire[1].echo)

Tunnel ==
    /\ pc = "tunnel" /\ Room > 0
    /\ \E block \in Blocks(Room) :
          /\ Recv(block)
          /\ wire' = <<[wire[1] EXCEPT !.echo = @ \o block]>>
    /\ UNCHANGED <<pc, data, head>>

TunnelFull ==
    /\ pc = "tunnel" /\ Room = 0
    /\ pc' = "closed"
    /\ UNCHANGED <<protocol, wire, stream, pos, data, head>>

-----------------------------------------------------------------------------
(* handle_scgi *)

Number(digits) == FoldLeft(LAMBDA n, d : 10 * n + d.v, 0, digits)

\* A bug to check the properties with: a header may be empty.
LengthFitsLoose(digits) == Number(digits) <= MaxHeaders

LengthFits(digits) ==
    digits # <<>> /\ Number(digits) \in 1 .. MaxHeaders

\* One character of the length of the netstring; the last of the digits
\* allowed is one too many.
ScgiLength ==
    /\ pc = "header" /\ protocol = "scgi"
    /\ \E block \in Blocks(1) :
          LET u == block[1] IN
          /\ Recv(block)
          /\ \/ /\ u.k = "digit" /\ Len(data) + 1 < MaxDigits
                /\ data' = Append(data, u)
                /\ UNCHANGED <<pc, wire, head>>
             \/ /\ u.k = "colon" /\ LengthFits(data)
                /\ head' = [head EXCEPT !.length = Number(data)]
                /\ pc' = "block" /\ data' = <<>>
                /\ UNCHANGED wire
             \/ u.k = "digit" /\ Len(data) + 1 >= MaxDigits /\ Fail
             \/ u.k = "colon" /\ ~LengthFits(data) /\ Fail
             \/ u.k \notin {"digit", "colon"} /\ Fail

\* What follows the last name v at an odd place, <<unit>> or <<>>.
Field(block, v) ==
    LET at == {i \in DOMAIN block : i % 2 = 1 /\ block[i].k = "name" /\ block[i].v = v}
    IN IF at = {} THEN <<>> ELSE <<block[Max(at) + 1]>>

Word(u) == IF u.k = "word" THEN u.v ELSE "unknown"

ScgiBlock ==
    /\ pc = "block"
    /\ \E block \in Blocks(Missing) :
          LET all == data \o block IN
          /\ Recv(block)
          /\ \/ /\ Len(all) = head.length /\ Len(all) % 2 = 1
                /\ Fail
             \/ /\ Len(all) < head.length \/ Len(all) % 2 = 0
                /\ data' = all
                /\ pc' = IF Len(all) = head.length THEN "comma" ELSE "block"
                /\ UNCHANGED <<wire, head>>

\* The terminator, the content length and the mode.
ScgiComma ==
    /\ pc = "comma"
    /\ \E block \in Blocks(1) :
          LET length == Field(data, "CONTENT_LENGTH")
              uri == Field(data, "REQUEST_URI")
              mode == Field(data, "MODE")
              n == IF length = <<>> THEN 0 ELSE length[1].v
              valid == /\ block[1].k = "comma"
                       /\ length # <<>> => length[1].k = "number"
                       /\ n >= 0 /\ n <= MaxRequest
          IN /\ Recv(block)
             /\ \/ ~valid /\ Fail
                \/ /\ valid
                   /\ head' = [mode |-> SelectMode(
                                   IF uri = <<>> THEN "normal" ELSE Word(uri[1]),
                                   IF mode = <<>> THEN <<>> ELSE <<Word(mode[1])>>),
                               length |-> n]
                   /\ pc' = "body" /\ data' = <<>>
                   /\ UNCHANGED wire

ScgiRespond ==
    /\ pc = "body" /\ protocol = "scgi" /\ Missing <= 0
    /\ Respond("closed", head.mode, data)
    /\ UNCHANGED <<protocol, stream, pos>>

-----------------------------------------------------------------------------
\* The peer closes, or is silent until the timeout: the end of a tunnel, an
\* exception before.
PeerEnds ==
    /\ \/ pc \in {"header", "block", "comma"}
       \/ pc = "body" /\ Missing > 0
       \/ pc = "tunnel" /\ Room > 0
    /\ pc' = IF pc = "tunnel" THEN "closed" ELSE "gone"
    /\ UNCHANGED <<protocol, wire, stream, pos, data, head>>

Next ==
    \/ HttpHeader \/ HttpRespond \/ Tunnel \/ TunnelFull
    \/ ScgiLength \/ ScgiBlock \/ ScgiComma \/ ScgiRespond
    \/ Body \/ PeerEnds

Spec == Init /\ [][Next]_vars

-----------------------------------------------------------------------------
(* What was received means, however it was cut: "more", "fail", or an answer *)

Received == SubSeq(stream, 1, pos)
Part(s, from, n) == SubSeq(s, from + 1, Min({Len(s), from + n}))

MeansHttp(s) ==
    LET ends == {i \in 2 .. Len(s) : s[i].k = "eol" /\ s[i - 1].k = "eol"}
        end == Min(ends)
        fields == {i \in 1 .. end : s[i].k = "length"}
        modes == {i \in 1 .. end : s[i].k = "mode"}
        length == IF fields = {} THEN 0
                  ELSE IF s[Max(fields)].v = <<>> THEN 0 ELSE s[Max(fields)].v[1]
        mode == IF modes = {} THEN s[1].v ELSE s[Max(modes)].v
    IN IF ends = {} \/ end > MaxHeaders + 1
       THEN IF Len(s) > MaxHeaders THEN <<"fail">> ELSE <<"more">>
       ELSE IF s[1].k # "line" \/ length \notin 0 .. MaxRequest THEN <<"fail">>
       ELSE IF Len(s) < end + length THEN <<"more">>
       ELSE <<"answer", mode, Part(s, end + length, MaxRequest)>>

MeansScgi(s) ==
    LET stops == {i \in DOMAIN s : s[i].k # "digit"}
        stop == Min(stops)
        n == Number(SubSeq(s, 1, stop - 1))
        block == Part(s, stop, n)
        value(name) == {i \in DOMAIN block : i % 2 = 0 /\ block[i - 1].k = "name"
                                             /\ block[i - 1].v = name}
        length == IF value("CONTENT_LENGTH") = {} THEN [k |-> "number", v |-> 0]
                  ELSE block[Max(value("CONTENT_LENGTH"))]
        modes == IF value("MODE") # {} THEN value("MODE") ELSE value("REQUEST_URI")
        mode == IF modes = {} THEN "normal"
                ELSE IF block[Max(modes)].k = "word" THEN block[Max(modes)].v ELSE "normal"
    IN IF stops = {} THEN IF Len(s) < MaxDigits THEN <<"more">> ELSE <<"fail">>
       ELSE IF \/ stop = 1 \/ stop > MaxDigits \/ s[stop].k # "colon"
               \/ n \notin 1 .. MaxHeaders
               \/ (Len(block) = n /\ n % 2 = 1)
       THEN <<"fail">>
       ELSE IF Len(s) <= stop + n THEN <<"more">>
       ELSE IF s[stop + n + 1].k # "comma" \/ length.k # "number" THEN <<"fail">>
       ELSE IF length.v \notin 0 .. MaxRequest THEN <<"fail">>
       ELSE IF Len(s) < stop + n + 1 + length.v THEN <<"more">>
       ELSE <<"answer", mode, Part(s, stop + n + 1, length.v)>>

\* The state of the handler is what the meaning calls for.
IsMeant(meaning) ==
    LET mode == IF meaning[2] \in {"upgrade", "truncated"} THEN meaning[2] ELSE "normal"
    IN CASE meaning[1] = "more" -> pc \notin {"closed", "failed"} /\ wire = <<>>
         [] meaning[1] = "fail" -> pc = "failed" /\ wire = <<>>
         [] OTHER ->
              /\ pc \in {"body", "tunnel", "closed"}
              /\ pc # "body" => wire = <<[mode |-> mode,
                     echo |-> IF mode = "upgrade" THEN meaning[3] ELSE <<>>]>>

-----------------------------------------------------------------------------
(* Properties *)

\* An HTTP connection is answered as soon as, and only when, what was received
\* of it is a whole request, refused when it cannot become one, and after an
\* upgrade gets back every unit that follows its body, once, in order and up to
\* the limit: wherever the network cuts the stream, the end of the header
\* included (backend-responder.py, _recv_headers and handle_http).
HttpAsMeant == protocol = "http" => IsMeant(MeansHttp(Received))

\* An SCGI connection is answered in the mode and with the body of its own
\* request, or refused, by what was received alone, wherever it was cut; a
\* header length that does not fit what it announces never turns header into
\* body (backend-responder.py, handle_scgi).
ScgiAsMeant == protocol = "scgi" => IsMeant(MeansScgi(Received))

=============================================================================
