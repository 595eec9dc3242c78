--------------------------- MODULE HttpConnection ---------------------------
(***************************************************************************)
(* src/http/HttpConnection.cc: one HTTP connection of the server, from the  *)
(* bytes a peer sends, cut into messages at any place, to the responses.    *)
(*                                                                          *)
(* A byte stream is a sequence of tokens: the text of a line, the CRLF that *)
(* ends it, or one unit of a body.  (A CRLF is one token because half of it *)
(* is, for findCRLF(), the same as none.)  A page stands for its path; that *)
(* "/" means index.html is kept, the ".html" added to a bare name is not.   *)
(* Every page exists and is readable except the Missing and the Forbidden;  *)
(* the 40x pages exist, or the process ends (LOG_SYSFATAL).                 *)
(* A Content-Length is a number that stoi() takes: of any other text or one *)
(* too large stoi() and stoul() throw, nothing in src/ catches it and the   *)
(* process ends; of a negative one stoul() makes a length that never comes. *)
(*                                                                          *)
(* onMessage() runs in one io loop and nothing interleaves with it, but its *)
(* while loop is taken one iteration at a time: pc is "loop" outside        *)
(* onMessage() and "parsing" at the test of the loop.  The connection below *)
(* is TcpConnection, reduced to its state_ and to what send() takes.        *)
(* TimerQueue::cancel() does not keep a timer from firing (see TimerQueue), *)
(* so a timeout may come at any time after the first.                       *)
(***************************************************************************)
EXTENDS Naturals, Sequences, SequencesExt

CONSTANTS
  Requests,             \* what the peer may send; see Tokens()
  Missing, Forbidden,   \* pages that do not exist, or may not be read
  MaxRequests           \* bound: requests in a behaviour

ASSUME BoundAssumption == MaxRequests \in Nat

VARIABLES
  requests,             \* history: the requests the peer has sent
  flight,               \* tokens sent and not yet read from the socket
  inputBuf,             \* inputBuffer_
  pc,
  parseState_, method_, path_, version_, header_, body_, post_, keepAlive_,
  state_,               \* the TcpConnection's
  responses,            \* history: responses send() took
  stray,                \* responses that makeResponse() wrote to outputBuffer_
                        \* and send() did not take: sent by handleWrite() if
                        \* earlier output still waits there, else left there
  pipelined             \* history: a request was sent before the last answer

request == <<parseState_, method_, path_, version_, header_, body_>>
http == <<request, post_, keepAlive_>>
vars == <<requests, flight, inputBuf, pc, http, state_, responses, stray,
          pipelined>>
-----------------------------------------------------------------------------
(* What the peer sends.  A request is a record: method, page and version of *)
(* its first line (malformed when method is "?"), the headers in order, each*)
(* <<name, value>> (malformed when name is "?"), and the form in its body   *)
(* of length units.  A form is a function of the fields it fills in; one    *)
(* that is malformed is so in its first pair and fills in none.             *)

CRLF == <<"CRLF">>
None == "none"
Fields == {"username", "password"}

Tokens(r) ==
  LET start == <<"request", r.method, r.page, r.version>>
      header(k) == <<"header", r.headers[k][1], r.headers[k][2]>>
      headers == [i \in 1..(2 * Len(r.headers)) |->
                    IF i % 2 = 1 THEN header((i + 1) \div 2) ELSE CRLF]
      body == [i \in 1..r.length |-> <<"body", r.form>>]
  IN <<start, CRLF>> \o headers \o <<CRLF>> \o body

\* header_ is a map: a function of the names that have come
NoHeaders == <<>>
with(header, name, value) ==
  [n \in DOMAIN header \cup {name} |-> IF n = name THEN value ELSE header[n]]
holds(header, name, value) == name \in DOMAIN header /\ header[name] = value

Init ==
  /\ requests = <<>> /\ flight = <<>> /\ inputBuf = <<>>
  /\ pc = "loop"
  /\ parseState_ = "kRequestLine"
  /\ method_ = None /\ path_ = None /\ version_ = None
  /\ header_ = NoHeaders /\ body_ = <<>>
  /\ post_ = [f \in Fields |-> None]
  /\ keepAlive_ = FALSE
  /\ state_ = "kConnected"
  /\ responses = <<>> /\ stray = <<>> /\ pipelined = FALSE

PeerRequests(r) ==
  /\ Len(requests) < MaxRequests
  /\ requests' = Append(requests, r)
  /\ flight' = flight \o Tokens(r)
  /\ pipelined' = (pipelined \/ Len(responses) < Len(requests))
  /\ UNCHANGED <<inputBuf, pc, http, state_, responses, stray>>

\* timeoutCallback(): conn->shutdown()
Timeout ==
  /\ pc = "loop" /\ state_ = "kConnected"
  /\ state_' = "kDisconnecting"
  /\ UNCHANGED <<requests, flight, inputBuf, pc, http, responses, stray,
                 pipelined>>

\* The connection goes down: no message callback any more
Down ==
  /\ pc = "loop" /\ state_ # "kDisconnected"
  /\ state_' = "kDisconnected"
  /\ UNCHANGED <<requests, flight, inputBuf, pc, http, responses, stray,
                 pipelined>>

\* onMessage() after a read of n tokens.  A connection that was shut down
\* still reads what had arrived.
OnMessage(n) ==
  /\ pc = "loop" /\ state_ # "kDisconnected"
  /\ inputBuf' = inputBuf \o SubSeq(flight, 1, n)
  /\ flight' = SubSeq(flight, n + 1, Len(flight))
  /\ pc' = "parsing"
  /\ UNCHANGED <<requests, http, state_, responses, stray, pipelined>>
-----------------------------------------------------------------------------
(* The response, and the end of processMessage()                            *)

codePage == [kBadRequest |-> "400", kForbidden |-> "403", kNoResource |-> "404"]

\* makeResponse() of a result and a page: the code, and the page it sends
response(code, page) == IF code = "kGetRequest" THEN <<code, page>>
                                                ELSE <<code, codePage[code]>>

wantsKeepAlive(header, version) ==
  holds(header, "Connection", "keep-alive") /\ version = "1.1"

\* mutant of resetState: the headers stay
keepHeaders ==
  /\ parseState_' = "kRequestLine"
  /\ method_' = None /\ path_' = None /\ version_' = None
  /\ header_' = header_ /\ body_' = <<>>

resetState ==
  /\ parseState_' = "kRequestLine"
  /\ method_' = None /\ path_' = None /\ version_' = None
  /\ header_' = NoHeaders /\ body_' = <<>>

\* processMessage() once parseRequest() returned code with the request's
\* state as given: makeResponse() writes the response to outputBuffer_, and
\* send() takes it from there only when kConnected; without keep-alive the
\* parser is left as it is
respond(code, parseState, method, page, version, header, body) ==
  LET answer == response(code, page)
      alive == wantsKeepAlive(header, version)
  IN /\ pc' = "loop"
     /\ keepAlive_' = alive
     /\ IF state_ = "kConnected"
          THEN responses' = Append(responses, answer) /\ stray' = stray
          ELSE stray' = Append(stray, answer) /\ responses' = responses
     /\ IF alive
          THEN resetState /\ state_' = state_
          ELSE /\ parseState_' = parseState /\ method_' = method
               /\ path_' = answer[2] /\ version_' = version
               /\ header_' = header /\ body_' = body
               /\ state_' = IF state_ = "kConnected" THEN "kDisconnecting"
                                                     ELSE state_
-----------------------------------------------------------------------------
(* parseRequest(), one iteration of the loop at a time                      *)

AtLoopTest == pc = "parsing"

\* while (parseState_ != kFinish) ends at once
LoopExit ==
  /\ AtLoopTest /\ parseState_ = "kFinish"
  /\ respond("kGetRequest", parseState_, method_, path_, version_, header_,
             body_)
  /\ UNCHANGED <<requests, flight, inputBuf, post_, pipelined>>

HasLine == \E i \in DOMAIN inputBuf : inputBuf[i] = CRLF
EndOfLine == CHOOSE i \in DOMAIN inputBuf :
               /\ inputBuf[i] = CRLF
               /\ \A j \in 1..(i - 1) : inputBuf[j] # CRLF
line == SubSeq(inputBuf, 1, EndOfLine - 1)
takeLine == inputBuf' = SubSeq(inputBuf, EndOfLine + 1, Len(inputBuf))

remain == header_["Content-Length"] - Len(body_)

\* mutant of bodyArrived: one unit more is waited for
bodyAndMoreArrived == Len(inputBuf) > remain

bodyArrived == Len(inputBuf) >= remain

\* kNoRequest: wait for the next message
NeedMore ==
  /\ AtLoopTest
  /\ \/ parseState_ = "kBody" /\ ~bodyArrived
     \/ parseState_ \in {"kRequestLine", "kHeader"} /\ ~HasLine
  /\ pc' = "loop"
  /\ UNCHANGED <<requests, flight, inputBuf, http, state_, responses, stray,
                 pipelined>>

\* parseRequestLine()
IsRequestLine(text) ==
  Len(text) = 1 /\ text[1][1] = "request" /\ text[1][2] # "?"

pageOf(page) == IF page = "/" THEN "index" ELSE page

lineResult(page) == CASE page \in Missing -> "kNoResource"
                      [] page \in Forbidden \ Missing -> "kForbidden"
                      [] OTHER -> "kNoRequest"

ParseRequestLine ==
  /\ AtLoopTest /\ parseState_ = "kRequestLine" /\ HasLine
  /\ takeLine
  /\ IF ~IsRequestLine(line)
       THEN respond("kBadRequest", parseState_, method_, path_, version_,
                    header_, body_)
       ELSE LET text == line[1]
                page == pageOf(text[3])
                result == lineResult(page)
            IN IF result = "kNoRequest"
                 THEN /\ parseState_' = "kHeader"
                      /\ method_' = text[2] /\ path_' = page
                      /\ version_' = text[4]
                      /\ UNCHANGED <<pc, header_, body_, keepAlive_, state_,
                                     responses, stray>>
                 ELSE respond(result, "kHeader", text[2], page, text[4],
                              header_, body_)
  /\ UNCHANGED <<requests, flight, post_, pipelined>>

\* parseRequestHeader(): the empty line, where stoi() reads the length
HasBody == /\ "Content-Length" \in DOMAIN header_
           /\ header_["Content-Length"] # 0

ParseEmptyLine ==
  /\ AtLoopTest /\ parseState_ = "kHeader" /\ HasLine /\ line = <<>>
  /\ takeLine
  /\ IF HasBody
       THEN /\ parseState_' = "kBody"
            /\ UNCHANGED <<pc, method_, path_, version_, header_, body_,
                           keepAlive_, state_, responses, stray>>
       ELSE respond("kGetRequest", "kFinish", method_, path_, version_,
                    header_, body_)
  /\ UNCHANGED <<requests, flight, post_, pipelined>>

\* parseRequestHeader(): a header line
IsHeader(text) == Len(text) = 1 /\ text[1][1] = "header" /\ text[1][2] # "?"

ParseRequestHeader ==
  /\ AtLoopTest /\ parseState_ = "kHeader" /\ HasLine /\ line # <<>>
  /\ takeLine
  /\ IF IsHeader(line)
       THEN /\ header_' = with(header_, line[1][2], line[1][3])
            /\ UNCHANGED <<pc, parseState_, method_, path_, version_, body_,
                           keepAlive_, state_, responses, stray>>
       ELSE respond("kBadRequest", parseState_, method_, path_, version_,
                    header_, body_)
  /\ UNCHANGED <<requests, flight, post_, pipelined>>

\* parseFromUrlEncode(): the fields of a well-formed form are stored
IsForm(form) == DOMAIN form # {}

merged(form) ==
  [f \in Fields |-> IF f \in DOMAIN form THEN form[f] ELSE post_[f]]

\* userVerify(): the page a POST leads to
verified(page, post) ==
  CASE page = "register" -> "welcome"
    [] page = "login" -> IF post["username"] = "admin"
                              /\ post["password"] = "123456"
                           THEN "welcome" ELSE "error"
    [] OTHER -> "error"

\* parseRequestBody() with the whole body, parsePost(), userVerify()
ParseRequestBody ==
  /\ AtLoopTest /\ parseState_ = "kBody" /\ bodyArrived
  /\ inputBuf' = SubSeq(inputBuf, remain + 1, Len(inputBuf))
  /\ LET body == body_ \o SubSeq(inputBuf, 1, remain)
         encoded == holds(header_, "Content-Type", "urlencoded")
         bad == \/ "Content-Type" \notin DOMAIN header_
                \/ encoded /\ ~IsForm(body[1][2])
         post == IF encoded /\ ~bad THEN merged(body[1][2]) ELSE post_
     IN CASE method_ # "POST" ->
               /\ respond("kGetRequest", "kFinish", method_, path_, version_,
                          header_, body)
               /\ UNCHANGED post_
          [] method_ = "POST" /\ bad ->
               /\ respond("kBadRequest", parseState_, method_, path_,
                          version_, header_, body)
               /\ UNCHANGED post_
          [] OTHER ->
               /\ LET page == verified(path_, post)
                  IN IF page \in Missing
                       THEN respond("kNoResource", parseState_, method_, page,
                                    version_, header_, body)
                       ELSE respond("kGetRequest", "kFinish", method_, page,
                                    version_, header_, body)
               /\ post_' = post
  /\ UNCHANGED <<requests, flight, pipelined>>
-----------------------------------------------------------------------------
Parse == LoopExit \/ NeedMore \/ ParseRequestLine \/ ParseEmptyLine
           \/ ParseRequestHeader \/ ParseRequestBody

Message == \E n \in 1..Len(flight) : OnMessage(n)

Next == (\E r \in Requests : PeerRequests(r)) \/ Timeout \/ Down \/ Message
          \/ Parse

Spec == Init /\ [][Next]_vars

(* The io loop reads what has arrived and onMessage() runs to its end.      *)
FairSpec == Spec /\ WF_vars(Message) /\ WF_vars(Parse)
-----------------------------------------------------------------------------
(* Properties                                                               *)

ParseStates == {"kRequestLine", "kHeader", "kBody", "kFinish"}
Codes == {"kGetRequest", "kBadRequest", "kForbidden", "kNoResource"}

\* Types, and the assert of parseRequest(): a body is only ever awaited with
\* its Content-Length known.
TypeOK ==
  /\ requests \in Seq(Requests)
  /\ pc \in {"loop", "parsing"}
  /\ parseState_ \in ParseStates
  /\ parseState_ = "kBody" => "Content-Length" \in DOMAIN header_
  /\ DOMAIN post_ = Fields
  /\ keepAlive_ \in BOOLEAN /\ pipelined \in BOOLEAN
  /\ state_ \in {"kConnected", "kDisconnecting", "kDisconnected"}
  /\ \A answer \in Range(responses) \cup Range(stray) : answer[1] \in Codes

\* What a request deserves, computed from that request alone.
Has(r, name) == \E i \in DOMAIN r.headers : r.headers[i][1] = name
HasValue(r, name, value) ==
  \E i \in DOMAIN r.headers : r.headers[i][1] = name /\ r.headers[i][2] = value
IsEncoded(r) == HasValue(r, "Content-Type", "urlencoded")

Deserved(r) ==
  LET page == pageOf(r.page)
      posts == r.method = "POST" /\ r.length > 0
      filled == [f \in Fields |-> IF f \in DOMAIN r.form /\ IsEncoded(r)
                                   THEN r.form[f] ELSE None]
  IN CASE r.method = "?" -> <<"kBadRequest", "400">>
       [] r.method # "?" /\ page \in Missing -> <<"kNoResource", "404">>
       [] r.method # "?" /\ page \in Forbidden \ Missing ->
            <<"kForbidden", "403">>
       [] OTHER ->
            IF Has(r, "?") \/ (posts /\ ~Has(r, "Content-Type"))
                 \/ (posts /\ IsEncoded(r) /\ ~IsForm(r.form))
              THEN <<"kBadRequest", "400">>
              ELSE LET shown == IF posts THEN verified(page, filled) ELSE page
                   IN IF shown \in Missing THEN <<"kNoResource", "404">>
                                           ELSE <<"kGetRequest", shown>>

\* The requests of which the code gives each what it deserves.  Of others it
\* does not: a second type or length replaces the first; a body that is not
\* as long as its Content-Length says is cut, or runs into the next request;
\* after a malformed header on a connection that is kept alive, the rest of
\* the request is parsed as the next one; and post_ is never cleared, so a
\* login that leaves fields out is filled up from an earlier form.
Conforms(r) ==
  /\ r.headers \in Seq(Range(r.headers)) /\ r.length \in Nat
  /\ \A name \in {"Content-Type", "Content-Length"} :
       \A i, j \in DOMAIN r.headers :
         r.headers[i][1] = name /\ r.headers[j][1] = name => i = j
  /\ Has(r, "Content-Length") => HasValue(r, "Content-Length", r.length)
  /\ Has(r, "Content-Length") \/ r.length = 0
  /\ \A i, j \in DOMAIN r.headers :
       /\ r.headers[i][1] = "Connection" /\ r.headers[i][2] = "keep-alive"
       /\ r.headers[j][1] = "?"
       => j < i
  /\ r.method = "POST" /\ r.page = "login" /\ r.length > 0
       /\ Has(r, "Content-Type")
     => IsEncoded(r) /\ (IsForm(r.form) => Fields \subseteq DOMAIN r.form)

\* However the stream is cut into messages and whatever was answered before
\* on the same connection, the i-th response is the one the i-th request
\* deserves: no byte of a request is taken for another's, no state leaks.
\* (Of the responses that send() took.  One that is built after shutdown() can
\* repeat the last, or answer the rest of a rejected request; see stray.)
AnswersMatch ==
  /\ TypeOK
  /\ Len(responses) <= Len(requests)
  /\ \A i \in DOMAIN responses : responses[i] = Deserved(requests[i])

\* A peer that waits for each answer before its next request always gets one,
\* however its bytes are cut, unless the connection is shut down.
EveryRequestAnswered ==
  \A n \in 1..MaxRequests :
    (Len(requests) >= n /\ ~pipelined)
      ~> (Len(responses) >= n \/ state_ # "kConnected" \/ pipelined)
=============================================================================
