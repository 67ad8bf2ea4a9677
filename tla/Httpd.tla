-------------------------------- MODULE Httpd ---------------------------------
(***************************************************************************)
(* The HTTP server (Server/httpd.c): one process that serves one           *)
(* connection after another, and forks for a CGI script, with which it     *)
(* talks over two pipes of bounded size.                                   *)
(*                                                                         *)
(* What goes over a connection is counted in tokens: to the server lines   *)
(* of the header and units of the body, to the client status lines, ends   *)
(* of headers and units of the body.  The socket buffers have room for an  *)
(* answer.  A send to a client that has closed may raise SIGPIPE.          *)
(***************************************************************************)
EXTENDS Integers, Sequences, FiniteSets

CONSTANTS
  Clients,
  Requests,     \* records: method, target, query, headers, length, body
  Targets,      \* what is in htdocs: a function from names to
                \* [directory, executable, readable, lines, terminated]
  Behaviours,   \* of scripts: subset of {"count", "eager", "quiet", "all"}
  OutLen,       \* what a script writes, its header first
  PipeSize,
  MaxFaults,    \* bound: calls of pipe and fork that fail
  MaxCloses     \* bound: clients that close early

NoLength == -1
Nobody == "nobody"

ASSUME HttpdAssumption ==
  /\ OutLen \in Nat \ {0} /\ PipeSize \in Nat \ {0}
  /\ MaxFaults \in Nat /\ MaxCloses \in Nat
  /\ Requests # {} /\ Nobody \notin Clients
  /\ \A r \in Requests :
       /\ r.length \in Nat \cup {NoLength} /\ r.body \in Nat
       /\ r.headers \in Seq({"line", "length", "full"})
  /\ \A name \in DOMAIN Targets : Targets[name].lines \in Nat

VARIABLES
  link,     \* for each client: the request, the bytes in both directions
  server,   \* where the process is, and the variables of its functions
  script,   \* the child
  stdin,    \* cgi_input
  stdout,   \* cgi_output
  files,    \* the names in htdocs
  open,     \* descriptors of the process
  faults,
  closes

vars == <<link, server, script, stdin, stdout, files, open, faults, closes>>

Token(kind, n) == [kind |-> kind, n |-> n]
Status(n) == Token("status", n)
EndOfHeader == Token("end", 0)
BodyUnits(n) == [i \in 1 .. n |-> Token("body", i)]

\* A line of the header may fill the buffer of get_line to its last place:
\* its newline is then read as a line of its own.
Stream(r) ==
  <<Token("request", 0)>> \o [i \in DOMAIN r.headers |-> Token(r.headers[i], 0)]
    \o <<Token("empty", 0)>> \o BodyUnits(r.body)

NoRequest == CHOOSE r \in Requests : TRUE
Idle == [at |-> "accept", client |-> Nobody, length |-> NoLength, fed |-> 0,
         held |-> <<>>, last |-> Token("nothing", 0)]
NoScript == [at |-> "none", does |-> "quiet", took |-> <<>>, wrote |-> 0]

Init ==
  /\ link = [c \in Clients |-> [at |-> "new", request |-> NoRequest, unsent |-> <<>>,
                                input |-> <<>>, ended |-> FALSE, answer |-> <<>>,
                                reset |-> FALSE]]
  /\ server = Idle
  /\ script = NoScript
  /\ stdin = <<>> /\ stdout = <<>>
  /\ files = DOMAIN Targets
  /\ open = 1
  /\ faults = 0 /\ closes = 0

(***************************************************************************)
(* The clients.                                                            *)
(***************************************************************************)
Connect(c, r) ==
  /\ link[c].at = "new"
  /\ link' = [link EXCEPT ![c].at = "queued", ![c].request = r, ![c].unsent = Stream(r)]
  /\ UNCHANGED <<server, script, stdin, stdout, files, open, faults, closes>>

ClientSend(c, n) ==
  /\ link[c].at \in {"queued", "served"} /\ ~ link[c].ended
  /\ n \in 1 .. Len(link[c].unsent)
  /\ link' = [link EXCEPT ![c].input = @ \o SubSeq(link[c].unsent, 1, n),
                          ![c].unsent = SubSeq(@, n + 1, Len(@))]
  /\ UNCHANGED <<server, script, stdin, stdout, files, open, faults, closes>>

ClientClose(c) ==
  /\ link[c].at \in {"queued", "served"} /\ ~ link[c].ended
  /\ closes < MaxCloses
  /\ closes' = closes + 1
  /\ link' = [link EXCEPT ![c].ended = TRUE]
  /\ UNCHANGED <<server, script, stdin, stdout, files, open, faults>>

(***************************************************************************)
(* accept_request, up to the choice of what to do.                         *)
(***************************************************************************)
me == server.client
request == link[me].request

Accept(c) ==
  /\ server.at = "accept"
  /\ link[c].at = "queued"
  /\ server' = [server EXCEPT !.at = "request", !.client = c]
  /\ link' = [link EXCEPT ![c].at = "served"]
  /\ open' = open + 1
  /\ UNCHANGED <<script, stdin, stdout, files, faults, closes>>

\* get_line: what it reads, and what it leaves.
LineReady == link[me].input # <<>> \/ link[me].ended
Line == IF link[me].input = <<>> THEN "nothing" ELSE Head(link[me].input).kind
LineRest ==
  CASE Line = "nothing" -> <<>>
    [] Line = "full"    -> <<Token("empty", 0)>> \o Tail(link[me].input)
    [] OTHER            -> Tail(link[me].input)

TakeLine == link' = [link EXCEPT ![me].input = LineRest]

\* send: the answer grows; a client that has closed may be the end.
Send(tokens, next) ==
  /\ link' = [link EXCEPT ![me].answer = @ \o tokens]
  /\ server' \in {next} \cup (IF link[me].ended THEN {[server EXCEPT !.at = "dead"]} ELSE {})

IsCgi(r) ==
  \/ r.method = "POST" \/ (r.query /\ r.method \in {"GET", "HEAD"})
  \/ Targets[r.target].directory \/ Targets[r.target].executable

\* A name that ends in / stands for its index.html; the mode tested is that of
\* what stat found, which for a directory is the directory's.
Route ==
  /\ server.at = "request"
  /\ LineReady
  /\ TakeLine
  /\ IF Line = "nothing" \/ request.method = "OTHER"
       THEN /\ server' = [server EXCEPT !.at = "unimplemented"]
            /\ UNCHANGED files
       ELSE IF request.method = "DELETE"
       THEN /\ files' = files \ {request.target}
            /\ server' = [server EXCEPT !.at = "close"]
       ELSE /\ server' = [server EXCEPT !.at =
                 CASE request.target \notin files -> "missing"
                   [] request.target \in files /\ ~ IsCgi(request) -> "serve"
                   [] OTHER -> CASE request.method = "GET"  -> "cgi"
                                 [] request.method = "POST" -> "post"
                                 [] OTHER                   -> "pipes"]
            /\ UNCHANGED files
  /\ UNCHANGED <<script, stdin, stdout, open, faults, closes>>

\* accept_request returns without close.
Unimplemented ==
  /\ server.at = "unimplemented"
  /\ Send(<<Status(501), EndOfHeader, Token("body", 0)>>, Idle)
  /\ UNCHANGED <<script, stdin, stdout, files, open, faults, closes>>

\* Mutant: the end of the connection does not end the loops.
BugNoEndTest ==
  /\ server.at \in {"missing", "serve", "cgi"}
  /\ LineReady
  /\ TakeLine
  /\ server' = IF Line = "empty"
                 THEN [server EXCEPT !.at = CASE server.at = "missing" -> "404"
                                              [] server.at = "serve"   -> "fopen"
                                              [] OTHER                 -> "pipes"]
                 ELSE server
  /\ UNCHANGED <<script, stdin, stdout, files, open, faults, closes>>

\* The three loops that read and discard headers.
DiscardLine ==
  /\ server.at \in {"missing", "serve", "cgi"}
  /\ LineReady
  /\ TakeLine
  /\ server' = IF Line \in {"empty", "nothing"}
                 THEN [server EXCEPT !.at = CASE server.at = "missing" -> "404"
                                              [] server.at = "serve"   -> "fopen"
                                              [] OTHER                 -> "pipes"]
                 ELSE server
  /\ UNCHANGED <<script, stdin, stdout, files, open, faults, closes>>

NotFoundAnswer == <<Status(404), EndOfHeader, Token("body", 0)>>

NotFound ==
  /\ server.at = "404"
  /\ Send(NotFoundAnswer, [server EXCEPT !.at = "close"])
  /\ UNCHANGED <<script, stdin, stdout, files, open, faults, closes>>

\* Mutant: the locals of the last request are kept.
BugKeepsLocals ==
  /\ server.at = "close"
  /\ link' = [link EXCEPT ![me].at = "closed", ![me].reset = link[me].input # <<>>]
  /\ server' = [server EXCEPT !.at = "accept"]
  /\ script' = NoScript /\ stdin' = <<>> /\ stdout' = <<>>
  /\ open' = open - 1
  /\ UNCHANGED <<files, faults, closes>>

Close ==
  /\ server.at = "close"
  /\ link' = [link EXCEPT ![me].at = "closed", ![me].reset = link[me].input # <<>>]
  /\ server' = Idle
  /\ script' = NoScript /\ stdin' = <<>> /\ stdout' = <<>>
  /\ open' = open - 1
  /\ UNCHANGED <<files, faults, closes>>

(***************************************************************************)
(* serve_file and cat.                                                     *)
(***************************************************************************)
\* cat sends a line after it has seen that the file goes on behind it.
CatLines(target) ==
  IF Targets[target].terminated THEN Targets[target].lines ELSE Targets[target].lines - 1

\* Mutant: the headers are sent before fopen.
BugHeadersFirst ==
  /\ server.at = "fopen"
  /\ IF Targets[request.target].readable
       THEN Send(<<Status(200), EndOfHeader>> \o BodyUnits(CatLines(request.target)),
                 [server EXCEPT !.at = "close"])
       ELSE Send(<<Status(200), EndOfHeader>> \o NotFoundAnswer, [server EXCEPT !.at = "dead"])
  /\ UNCHANGED <<script, stdin, stdout, files, open, faults, closes>>

ServeFile ==
  /\ server.at = "fopen"
  /\ IF Targets[request.target].readable
       THEN Send(<<Status(200), EndOfHeader>> \o
                   (IF request.method = "HEAD" THEN <<>> ELSE BodyUnits(CatLines(request.target))),
                 [server EXCEPT !.at = "close"])
       ELSE Send(NotFoundAnswer, [server EXCEPT !.at = "dead"])   \* fclose(NULL)
  /\ UNCHANGED <<script, stdin, stdout, files, open, faults, closes>>

(***************************************************************************)
(* execute_cgi in the parent.                                              *)
(***************************************************************************)
\* Mutant: Content-Length ends the loop.
BugLengthEnds ==
  /\ server.at = "post"
  /\ LineReady
  /\ TakeLine
  /\ server' =
       CASE Line = "length" -> [server EXCEPT !.length = request.length, !.at = "pipes"]
         [] Line \in {"empty", "nothing"} -> [server EXCEPT !.at = "400"]
         [] OTHER -> server
  /\ UNCHANGED <<script, stdin, stdout, files, open, faults, closes>>

PostLine ==
  /\ server.at = "post"
  /\ LineReady
  /\ TakeLine
  /\ server' =
       CASE Line = "length" -> [server EXCEPT !.length = request.length]
         [] Line \in {"empty", "nothing"} ->
              [server EXCEPT !.at = IF server.length = NoLength THEN "400" ELSE "pipes"]
         [] OTHER -> server
  /\ UNCHANGED <<script, stdin, stdout, files, open, faults, closes>>

BadRequest ==
  /\ server.at = "400"
  /\ Send(<<Status(400), EndOfHeader, Token("body", 0)>>, [server EXCEPT !.at = "close"])
  /\ UNCHANGED <<script, stdin, stdout, files, open, faults, closes>>

\* The first pipe, the second, or fork fails: what was opened stays open.
CannotExecute ==
  /\ server.at = "pipes"
  /\ faults < MaxFaults
  /\ faults' = faults + 1
  /\ \E left \in {0, 2, 4} : open' = open + left
  /\ Send(<<Status(500), EndOfHeader, Token("body", 0)>>, [server EXCEPT !.at = "close"])
  /\ UNCHANGED <<script, stdin, stdout, files, closes>>

\* The parent after fork: its two ends of the pipes.
Fork ==
  /\ server.at = "pipes"
  /\ script' = [NoScript EXCEPT !.at = "start"]
  /\ Send(<<Status(200)>>,
          [server EXCEPT !.at = IF request.method = "POST" THEN "feed" ELSE "relay"])
  /\ open' = open + 2
  /\ UNCHANGED <<stdin, stdout, files, faults, closes>>

\* recv: at the end of the connection c keeps its last value.
FeedTake ==
  /\ server.at = "feed" /\ server.held = <<>>
  /\ server.fed < server.length
  /\ LineReady
  /\ LET unit == IF link[me].input = <<>> THEN server.last ELSE Head(link[me].input)
     IN  server' = [server EXCEPT !.held = <<unit>>, !.last = unit]
  /\ link' = [link EXCEPT ![me].input = IF @ = <<>> THEN <<>> ELSE Tail(@)]
  /\ UNCHANGED <<script, stdin, stdout, files, open, faults, closes>>

\* write: SIGPIPE when the child is gone.
FeedWrite ==
  /\ server.at = "feed" /\ server.held # <<>>
  /\ IF script.at = "ended"
       THEN /\ server' = [server EXCEPT !.at = "dead"]
            /\ UNCHANGED stdin
       ELSE /\ Len(stdin) < PipeSize
            /\ stdin' = stdin \o server.held
            /\ server' = [server EXCEPT !.held = <<>>, !.fed = @ + 1]
  /\ UNCHANGED <<link, script, stdout, files, open, faults, closes>>

FeedEnd ==
  /\ server.at = "feed" /\ server.held = <<>> /\ server.fed >= server.length
  /\ server' = [server EXCEPT !.at = "relay"]
  /\ UNCHANGED <<link, script, stdin, stdout, files, open, faults, closes>>

Relay ==
  /\ server.at = "relay"
  /\ stdout # <<>>
  /\ stdout' = Tail(stdout)
  /\ Send(<<Head(stdout)>>, server)
  /\ UNCHANGED <<script, stdin, files, open, faults, closes>>

\* Mutant: close(cgi_input[1]) is left out.
BugForgetsPipe ==
  /\ server.at = "relay"
  /\ stdout = <<>> /\ script.at = "ended"
  /\ server' = [server EXCEPT !.at = "close"]
  /\ open' = open - 1
  /\ UNCHANGED <<link, script, stdin, stdout, files, faults, closes>>

\* read gives 0; both pipes are closed.
RelayEnd ==
  /\ server.at = "relay"
  /\ stdout = <<>> /\ script.at = "ended"
  /\ server' = [server EXCEPT !.at = "close"]
  /\ open' = open - 2
  /\ UNCHANGED <<link, script, stdin, stdout, files, faults, closes>>

(***************************************************************************)
(* The child.                                                              *)
(***************************************************************************)
\* It sends the status line too, before exec.
ScriptStart ==
  /\ script.at = "start"
  /\ link' = [link EXCEPT ![me].answer = Append(@, Status(200))]
  /\ IF Targets[request.target].executable
       THEN \E does \in Behaviours : script' = [script EXCEPT !.at = "run", !.does = does]
       ELSE script' = [script EXCEPT !.at = "ended"]
  /\ UNCHANGED <<server, stdin, stdout, files, open, faults, closes>>

\* How much a script reads: CONTENT_LENGTH, nothing, or all there is to come.
Reads == IF script.does = "all" \/ (script.does # "quiet" /\ Len(script.took) < server.length)
           THEN script.does = "eager" => script.wrote = OutLen
           ELSE FALSE
Writes == script.wrote < OutLen /\ (script.does # "eager" => ~ Reads)

ScriptRead ==
  /\ script.at = "run" /\ Reads
  /\ stdin # <<>>
  /\ stdin' = Tail(stdin)
  /\ script' = [script EXCEPT !.took = Append(@, Head(stdin))]
  /\ UNCHANGED <<link, server, stdout, files, open, faults, closes>>

ScriptWrite ==
  /\ script.at = "run" /\ Writes
  /\ Len(stdout) < PipeSize
  /\ stdout' = Append(stdout, IF script.wrote = 0 THEN EndOfHeader ELSE Token("body", script.wrote))
  /\ script' = [script EXCEPT !.wrote = @ + 1]
  /\ UNCHANGED <<link, server, stdin, files, open, faults, closes>>

ScriptEnd ==
  /\ script.at = "run" /\ ~ Reads /\ ~ Writes
  /\ script' = [script EXCEPT !.at = "ended"]
  /\ UNCHANGED <<link, server, stdin, stdout, files, open, faults, closes>>

Script == ScriptStart \/ ScriptRead \/ ScriptWrite \/ ScriptEnd

Process ==
  \/ \E c \in Clients : Accept(c)
  \/ Route \/ Unimplemented \/ DiscardLine \/ NotFound \/ Close
  \/ ServeFile
  \/ PostLine \/ BadRequest \/ CannotExecute \/ Fork
  \/ FeedTake \/ FeedWrite \/ FeedEnd \/ Relay \/ RelayEnd

Surroundings(c) ==
  \/ \E r \in Requests : Connect(c, r)
  \/ \E n \in 1 .. Len(link[c].unsent) : ClientSend(c, n)
  \/ ClientClose(c)

------------------------------------------------------------------------------
(***************************************************************************)
(* Properties.                                                             *)
(***************************************************************************)
ServerTypeOK ==
  /\ \A c \in Clients :
       /\ link[c].at \in {"new", "queued", "served", "closed"}
       /\ link[c].request \in Requests
  /\ server.client \in Clients \cup {Nobody}
  /\ server.at = "accept" <=> server.client = Nobody
  /\ server.fed \in Nat /\ Len(server.held) <= 1
  /\ Len(stdin) <= PipeSize /\ Len(stdout) <= PipeSize
  /\ files \subseteq DOMAIN Targets

\* Every descriptor that stays open stems from a 501, or from a pipe or fork
\* that failed: all other ways through accept_request, serve_file and
\* execute_cgi give back what they took.
DescriptorsAccounted ==
  server.at = "accept" =>
    LET left == {c \in Clients : link[c].at = "served"}
    IN  /\ \A c \in left : link[c].answer[1] = Status(501)
        /\ open - 1 - Cardinality(left) \in 0 .. 4 * faults

\* The status lines of an answer are of one kind and precede everything else,
\* although the parent and the child both send one and the script's output
\* passes through the parent.
Statuses(c) == {i \in DOMAIN link[c].answer : link[c].answer[i].kind = "status"}

OneAnswer ==
  \A c \in Clients :
    /\ \A i, j \in Statuses(c) : link[c].answer[i] = link[c].answer[j]
    /\ \A i \in Statuses(c) : i <= 2
    /\ link[c].at = "closed" /\ link[c].request.method # "DELETE" => Statuses(c) # {}

\* A script reads the units of its own request's body in their order, however
\* the bytes arrive and the pipe fills, while the client stays and no line of
\* the header filled get_line's buffer.
ScriptGetsBody ==
  (script.at = "run" /\ ~ link[me].ended
     /\ "full" \notin {request.headers[i] : i \in DOMAIN request.headers}) =>
    script.took \o stdin \o server.held =
      BodyUnits(Len(script.took \o stdin \o server.held))

\* What a request may wait for without end: its client; each other, the parent
\* to write and the script to write; a script that reads to the end of its
\* input, whose other end the parent keeps.
AwaitsClient ==
  /\ server.at \in {"request", "missing", "serve", "cgi", "post", "feed"}
  /\ ~ LineReady
MutualWait == server.at = "feed" /\ server.held # <<>> /\ Len(stdin) = PipeSize
                /\ script.at = "run" /\ Len(stdout) = PipeSize
ScriptWaits == server.at = "relay" /\ script.does = "all" /\ script.at = "run" /\ stdin = <<>>

RequestEnds ==
  (server.at # "accept") ~>
    (server.at \in {"accept", "dead"} \/ AwaitsClient \/ MutualWait \/ ScriptWaits)
==============================================================================
