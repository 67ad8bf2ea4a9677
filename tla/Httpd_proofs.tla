----------------------------- MODULE Httpd_proofs ------------------------------
(***************************************************************************)
(* Theorems about the HTTP server, its scripts and its clients, the        *)
(* browser among them: that every request is answered once, that the page  *)
(* is the answer, that the script gets the body, and what becomes of the   *)
(* descriptors.                                                            *)
(***************************************************************************)
EXTENDS Browser, SequenceContents, FiniteSetTheorems, TLAPS

(***************************************************************************)
(* Types                                                                   *)
(***************************************************************************)
LineKinds == {"line", "length", "full"}
Tokens == [kind : LineKinds \cup {"request", "empty", "body", "nothing"}, n : Int]
\* What the script writes, and with the status lines what the client gets.
ScriptTokens == [kind : {"end", "body"}, n : Int]
AnswerTokens == [kind : {"status", "end", "body"}, n : Int]

LinkRecords ==
  [at : {"new", "queued", "served", "closed"}, request : Requests, unsent : Seq(Tokens),
   input : Seq(Tokens), ended : BOOLEAN, answer : Seq(AnswerTokens), reset : BOOLEAN]

Places ==
  {"accept", "request", "unimplemented", "missing", "serve", "cgi", "404", "close", "fopen",
   "post", "400", "pipes", "feed", "relay", "dead"}

ServerRecords ==
  [at : Places, client : Clients \cup {Nobody}, length : Int, fed : Nat, held : Seq(Tokens),
   last : Tokens]

ScriptRecords ==
  [at : {"none", "start", "run", "ended"}, does : Behaviours \cup {"quiet"},
   took : Seq(Tokens), wrote : Nat]

Types ==
  /\ link \in [Clients -> LinkRecords]
  /\ server \in ServerRecords /\ Len(server.held) <= 1
  /\ server.at = "accept" <=> server.client = Nobody
  /\ script \in ScriptRecords
  /\ stdin \in Seq(Tokens) /\ Len(stdin) <= PipeSize
  /\ stdout \in Seq(ScriptTokens) /\ Len(stdout) <= PipeSize
  /\ files \subseteq DOMAIN Targets

\* The connection that is being served, and where the file comes from.
Current ==
  /\ server.at # "accept" => link[server.client].at = "served"
  /\ server.at \in {"serve", "fopen"} => request.target \in DOMAIN Targets

(***************************************************************************)
(* Who has been answered what.                                             *)
(***************************************************************************)
\* The answer starts with a status line; a second one repeats the first.
Opened(a) ==
  /\ a # <<>> /\ a[1].kind = "status"
  /\ \A i \in DOMAIN a : a[i].kind = "status" => i <= 2 /\ a[i] = a[1]

\* Places at which nothing has been sent to the client.
Quiet == {"request", "unimplemented", "missing", "serve", "cgi", "404", "fopen", "post", "400",
          "pipes"}

Answers ==
  /\ \A c \in Clients : link[c].answer = <<>> \/ Opened(link[c].answer)
  /\ \A c \in Clients : link[c].at \in {"new", "queued"} => link[c].answer = <<>>
  /\ \A c \in Clients :
       link[c].at = "closed" /\ link[c].request.method # "DELETE" => Opened(link[c].answer)
  /\ server.at \in Quiet => link[server.client].answer = <<>>
  /\ server.at \in {"feed", "relay"} => Opened(link[server.client].answer)
  /\ server.at = "close" /\ request.method # "DELETE" => Opened(link[server.client].answer)

\* The child that has not sent its status line yet finds the parent's alone,
\* and what comes out of the pipe is behind both.
Child ==
  /\ script.at \in {"start", "run"} \/ stdout # <<>> => server.at \in {"feed", "relay", "dead"}
  /\ script.at = "start" => stdout = <<>> /\ link[server.client].answer = <<Status(200)>>

\* The inductive invariant of OneAnswer.
OInv == Types /\ Current /\ Answers /\ Child

(***************************************************************************)
(* Tokens and updates                                                      *)
(***************************************************************************)
LEMMA AnswerToken ==
  ASSUME NEW kind \in {"status", "end", "body"}, NEW n \in Int
  PROVE  Token(kind, n) \in AnswerTokens /\ Token(kind, n).kind = kind
  BY DEF Token, AnswerTokens

LEMMA BodyUnitsType ==
  ASSUME NEW n \in Int
  PROVE  /\ BodyUnits(n) \in Seq(AnswerTokens) /\ BodyUnits(n) \in Seq(Tokens)
         /\ \A i \in DOMAIN BodyUnits(n) : BodyUnits(n)[i].kind = "body"
  <1>1. /\ \A i \in 1 .. n : Token("body", i) \in AnswerTokens /\ Token("body", i).kind = "body"
        /\ \A i \in 1 .. n : Token("body", i) \in Tokens
    BY DEF Token, AnswerTokens, Tokens
  <1> DEFINE m == IF n < 0 THEN 0 ELSE n
  <1>2. m \in Nat /\ 1 .. m = 1 .. n
    OBVIOUS
  <1> HIDE DEF m
  <1>3. BodyUnits(n) \in [1 .. m -> AnswerTokens] /\ BodyUnits(n) \in [1 .. m -> Tokens]
    BY <1>1, <1>2 DEF BodyUnits
  <1> QED
    BY <1>1, <1>2, <1>3, SeqDef DEF BodyUnits

\* An answer of one status line and what is none.
Plain(s) == \A i \in DOMAIN s : s[i].kind # "status"

LEMMA OpenedAnswer ==
  ASSUME NEW n \in Int, NEW rest \in Seq(AnswerTokens), Plain(rest)
  PROVE  /\ <<Status(n)>> \o rest \in Seq(AnswerTokens)
         /\ Opened(<<Status(n)>> \o rest)
  <1> DEFINE a == <<Status(n)>> \o rest
             first == <<Status(n)>>
             m == Len(rest)
  <1>1. /\ first \in Seq(AnswerTokens) /\ Len(first) = 1
        /\ first[1] = Status(n) /\ Status(n).kind = "status"
    BY AnswerToken DEF Status, Token
  <1> HIDE DEF first
  <1>2. /\ a \in Seq(AnswerTokens) /\ Len(a) = 1 + m /\ m \in Nat
        /\ DOMAIN a = 1 .. 1 + m /\ DOMAIN rest = 1 .. m
        /\ a[1] = Status(n)
        /\ \A i \in 2 .. 1 + m : a[i] = rest[i - 1]
    BY <1>1, ConcatProperties, LenProperties
  <1> HIDE DEF a, m
  <1>3. \A i \in DOMAIN a : a[i].kind = "status" => i = 1
    <2> SUFFICES ASSUME NEW i \in 2 .. 1 + m PROVE a[i].kind # "status"
      BY <1>2
    <2>1. i - 1 \in 1 .. m
      BY <1>2
    <2> QED
      BY <1>2, <2>1 DEF Plain
  <1>4. a # <<>>
    BY <1>2
  <1>5. Opened(a)
    BY <1>1, <1>2, <1>3, <1>4 DEF Opened
  <1> QED
    BY <1>2, <1>5 DEF a, first

\* What is no status line may follow.
LEMMA OpenedMore ==
  ASSUME NEW a \in Seq(AnswerTokens), Opened(a), NEW e \in AnswerTokens, e.kind # "status"
  PROVE  Opened(a \o <<e>>) /\ a \o <<e>> \in Seq(AnswerTokens)
  <1> DEFINE b == Append(a, e)
             m == Len(a)
  <1>1. a \o <<e>> = b
    OBVIOUS
  <1>2. /\ b \in Seq(AnswerTokens) /\ m \in Nat /\ DOMAIN b = 1 .. m + 1 /\ DOMAIN a = 1 .. m
        /\ \A i \in 1 .. m : b[i] = a[i]
        /\ b[m + 1] = e
    BY AppendProperties, LenProperties
  <1>3. m >= 1
    BY EmptySeq, LenProperties DEF Opened
  <1> HIDE DEF b, m
  <1>4. b[1] = a[1] /\ b # <<>>
    BY <1>2, <1>3
  <1>5. \A i \in DOMAIN b : b[i].kind = "status" => i <= 2 /\ b[i] = b[1]
    BY <1>2, <1>3, <1>4 DEF Opened
  <1> QED
    BY <1>1, <1>2, <1>4, <1>5 DEF Opened

\* The child's status line behind the parent's.
LEMMA OpenedTwice ==
  ASSUME NEW a \in Seq(AnswerTokens), NEW e \in AnswerTokens
  PROVE  /\ Append(a, e) \in Seq(AnswerTokens)
         /\ Len(a) = 1 /\ a[1] = e /\ e.kind = "status" => Opened(Append(a, e))
  <1> DEFINE b == Append(a, e)
             m == Len(a)
  <1>1. /\ b \in Seq(AnswerTokens) /\ m \in Nat /\ DOMAIN b = 1 .. m + 1
        /\ \A i \in 1 .. m : b[i] = a[i]
        /\ b[m + 1] = e
    BY AppendProperties, LenProperties
  <1> HIDE DEF b, m
  <1>2. ASSUME m = 1, a[1] = e, e.kind = "status" PROVE Opened(b)
    <2> DEFINE k == m + 1
    <2>0. /\ DOMAIN b = 1 .. k /\ b[k] = e /\ k = 2 /\ b[1] = e
      BY <1>1, <1>2
    <2> HIDE DEF k
    <2>1. \A i \in 1 .. k : i <= 2 /\ b[i] = e
      BY <2>0
    <2>2. b # <<>> /\ b[1] = e
      BY <2>0
    <2> QED
      BY <1>2, <2>0, <2>1, <2>2 DEF Opened
  <1> QED
    BY <1>1, <1>2 DEF b, m

LEMMA EmptyConcat ==
  ASSUME NEW S, NEW s \in Seq(S)
  PROVE  <<>> \o s = s
  OBVIOUS

LEMMA LinkAt ==
  ASSUME Types, NEW c \in Clients
  PROVE  /\ link[c] \in LinkRecords
         /\ link[c].answer \in Seq(AnswerTokens)
         /\ link[c].input \in Seq(Tokens) /\ link[c].unsent \in Seq(Tokens)
         /\ link[c].request \in Requests /\ link[c].ended \in BOOLEAN
  BY DEF Types, LinkRecords

LEMMA LinkUpdate ==
  ASSUME Types, NEW c \in Clients, NEW r \in LinkRecords
  PROVE  /\ [link EXCEPT ![c] = r] \in [Clients -> LinkRecords]
         /\ [link EXCEPT ![c] = r][c] = r
         /\ \A d \in Clients \ {c} : [link EXCEPT ![c] = r][d] = link[d]
  BY DEF Types

\* What the rest of accept_request may do to the connection it serves.
Serves(answer) ==
  /\ link' \in [Clients -> LinkRecords]
  /\ \A d \in Clients \ {server.client} : link'[d] = link[d]
  /\ link'[server.client].at = link[server.client].at
  /\ link'[server.client].request = link[server.client].request
  /\ link'[server.client].answer = answer

LEMMA BusyClient ==
  ASSUME Types, Current, server.at # "accept"
  PROVE  server.client \in Clients /\ link[server.client].at = "served"
  BY DEF Types, Current, ServerRecords

LEMMA MovesTypes ==
  ASSUME Types, server.at # "accept", NEW at \in Places \ {"accept"}
  PROVE  /\ [server EXCEPT !.at = at] \in ServerRecords
         /\ [server EXCEPT !.at = at].at = at
         /\ [server EXCEPT !.at = at].client = server.client
         /\ [server EXCEPT !.at = at].held = server.held
  BY DEF Types, ServerRecords

\* send() appends, or kills the server with SIGPIPE.
LEMMA SendTypes ==
  ASSUME Types, Current, server.at # "accept",
         NEW tokens \in Seq(AnswerTokens), NEW next, Send(tokens, next)
  PROVE  /\ Serves(link[server.client].answer \o tokens)
         /\ server' = next \/ server' = [server EXCEPT !.at = "dead"]
  <1> DEFINE c == server.client
             answer == link[c].answer \o tokens
             r == [link[c] EXCEPT !.answer = answer]
  <1>1. c \in Clients
    BY BusyClient
  <1>2. /\ link' = [link EXCEPT ![c] = r]
        /\ server' = next \/ server' = [server EXCEPT !.at = "dead"]
    BY <1>1 DEF Send, me, Types
  <1>3. answer \in Seq(AnswerTokens)
    BY <1>1, LinkAt, ConcatProperties
  <1> HIDE DEF answer
  <1>4. r \in LinkRecords /\ r.at = link[c].at /\ r.request = link[c].request /\ r.answer = answer
    BY <1>1, <1>3, LinkAt DEF LinkRecords
  <1> HIDE DEF r
  <1>5. Serves(answer)
    BY <1>1, <1>2, <1>4, LinkUpdate DEF Serves
  <1> QED
    BY <1>2, <1>5 DEF answer

LEMMA InputTypes ==
  ASSUME Types, Current, server.at # "accept", NEW input \in Seq(Tokens),
         link' = [link EXCEPT ![me].input = input]
  PROVE  Serves(link[server.client].answer)
  <1> DEFINE c == server.client
             r == [link[c] EXCEPT !.input = input]
  <1>1. c \in Clients
    BY BusyClient
  <1>2. link' = [link EXCEPT ![c] = r]
    BY <1>1 DEF me, Types
  <1>3. r \in LinkRecords /\ r.at = link[c].at /\ r.request = link[c].request
        /\ r.answer = link[c].answer
    BY <1>1, LinkAt DEF LinkRecords
  <1> DEFINE answer == link[c].answer
  <1>4. r.answer = answer
    BY <1>3
  <1> HIDE DEF r, answer
  <1>5. /\ link' \in [Clients -> LinkRecords] /\ link'[c] = r
        /\ \A d \in Clients \ {c} : link'[d] = link[d]
    <2>1. /\ [link EXCEPT ![c] = r] \in [Clients -> LinkRecords]
          /\ [link EXCEPT ![c] = r][c] = r
          /\ \A d \in Clients \ {c} : [link EXCEPT ![c] = r][d] = link[d]
      BY <1>1, <1>3, LinkUpdate
    <2> QED
      BY <1>2, <2>1
  <1>6. Serves(answer)
    BY <1>3, <1>4, <1>5 DEF Serves
  <1> QED
    BY <1>6 DEF answer

\* get_line takes from the input and sends nothing.
LEMMA TakeTypes ==
  ASSUME Types, Current, server.at # "accept", TakeLine
  PROVE  Serves(link[server.client].answer)
  <1> DEFINE input == link[server.client].input
  <1>1. input \in Seq(Tokens)
    BY BusyClient, LinkAt
  <1>2. LineRest \in Seq(Tokens)
    <2> DEFINE empty == <<Token("empty", 0)>>
    <2>1. <<>> \in Seq(Tokens) /\ empty \in Seq(Tokens)
      BY EmptySeq DEF Token, Tokens
    <2>2. input # <<>> => Tail(input) \in Seq(Tokens)
      BY <1>1, InTail
    <2> HIDE DEF input, empty
    <2>3. input # <<>> => empty \o Tail(input) \in Seq(Tokens)
      BY <2>1, <2>2, ConcatProperties
    <2>4. Line = "nothing" \/ input # <<>>
      BY DEF Line, input, me
    <2>5. \/ LineRest = <<>> /\ Line = "nothing"
          \/ LineRest = empty \o Tail(input) /\ Line # "nothing"
          \/ LineRest = Tail(input) /\ Line # "nothing"
      BY DEF LineRest, input, me, empty
    <2> QED
      BY <2>1, <2>2, <2>3, <2>4, <2>5
  <1> DEFINE rest == LineRest
  <1>3. link' = [link EXCEPT ![me].input = rest]
    BY DEF TakeLine
  <1> HIDE DEF rest
  <1>4. rest \in Seq(Tokens)
    BY <1>2 DEF rest
  <1> QED
    BY <1>3, <1>4, InputTypes

\* A step that serves a request and answers as its next place asks.
LEMMA Serving ==
  ASSUME OInv, NEW a, Serves(a),
         server.at \notin {"accept", "dead"},
         server'.at # "accept", server'.client = server.client,
         server'.at \in {"serve", "fopen"} => request.target \in DOMAIN Targets,
         a = <<>> \/ Opened(a),
         server'.at \in Quiet => a = <<>>,
         server'.at \in {"feed", "relay"} => Opened(a),
         server'.at = "close" /\ request.method # "DELETE" => Opened(a)
  PROVE  Current' /\ Answers'
  <1> DEFINE c == server.client
  <1>1. c \in Clients /\ link[c].at = "served"
    BY BusyClient DEF OInv
  <1>2. /\ link'[c].at = "served" /\ link'[c].request = link[c].request
        /\ link'[c].answer = a
        /\ \A d \in Clients \ {c} : link'[d] = link[d]
    BY <1>1 DEF Serves
  <1>3. Current'
    BY <1>2 DEF Current, request, me
  <1>4. Answers'
    BY <1>1, <1>2 DEF OInv, Answers, request, me
  <1> QED
    BY <1>3, <1>4

(***************************************************************************)
(* The steps of accept_request and what it calls.                          *)
(***************************************************************************)
\* The pipes and the child as they are before Fork and after RelayEnd.
LEMMA ChildKept ==
  ASSUME OInv, server.at \notin {"feed", "relay", "dead", "accept"},
         UNCHANGED <<script, stdout>>
  PROVE  Child'
  BY DEF OInv, Child

\* The same, for a step of the whole invariant that only moves and answers.
LEMMA QuietStep ==
  ASSUME OInv, NEW a, Serves(a),
         server.at \notin {"feed", "relay", "dead", "accept"},
         server' \in ServerRecords, Len(server'.held) <= 1,
         server'.at # "accept", server'.client = server.client,
         UNCHANGED <<script, stdin, stdout>>, files' \subseteq DOMAIN Targets,
         server'.at \in {"serve", "fopen"} => request.target \in DOMAIN Targets,
         a = <<>> \/ Opened(a),
         server'.at \in Quiet => a = <<>>,
         server'.at \notin {"feed", "relay"},
         server'.at = "close" /\ request.method # "DELETE" => Opened(a)
  PROVE  OInv'
  <1>1. Current' /\ Answers'
    BY Serving
  <1>2. Child'
    BY ChildKept
  <1>3. server.client # Nobody
    BY DEF OInv, Types
  <1>4. Types'
    BY <1>3 DEF OInv, Types, Serves
  <1> QED
    BY <1>1, <1>2, <1>4 DEF OInv

LEMMA RouteStep ==
  ASSUME OInv, Route
  PROVE  OInv'
  <1> DEFINE a == link[server.client].answer
  <1>1. server.at = "request" /\ TakeLine /\ UNCHANGED <<script, stdin, stdout>>
    BY DEF Route
  <1>2. Serves(a)
    BY <1>1, TakeTypes DEF OInv
  <1>3. a = <<>>
    BY <1>1 DEF OInv, Answers, Quiet
  <1>4. \E at \in {"unimplemented", "close", "missing", "serve", "cgi", "post", "pipes"} :
          /\ server' = [server EXCEPT !.at = at]
          /\ at = "close" => request.method = "DELETE"
          /\ at = "serve" => request.target \in files
    BY DEF Route
  <1>5. files' \subseteq DOMAIN Targets
    BY DEF Route, OInv, Types
  <1>6. PICK at \in {"unimplemented", "close", "missing", "serve", "cgi", "post", "pipes"} :
          /\ server' = [server EXCEPT !.at = at]
          /\ at = "close" => request.method = "DELETE"
          /\ at = "serve" => request.target \in files
    BY <1>4
  <1>7. /\ server' \in ServerRecords /\ Len(server'.held) <= 1
        /\ server'.at = at /\ server'.client = server.client
    BY <1>1, <1>6, MovesTypes DEF Places, OInv, Types
  <1>8. server'.at = "serve" => request.target \in DOMAIN Targets
    BY <1>6, <1>7 DEF OInv, Types
  <1> HIDE DEF a
  <1> QED
    BY <1>1, <1>2, <1>3, <1>5, <1>6, <1>7, <1>8, QuietStep

LEMMA DiscardStep ==
  ASSUME OInv, DiscardLine
  PROVE  OInv'
  <1> DEFINE a == link[server.client].answer
  <1>1. /\ server.at \in {"missing", "serve", "cgi"} /\ TakeLine
        /\ UNCHANGED <<script, stdin, stdout, files>>
    BY DEF DiscardLine
  <1>2. Serves(a)
    BY <1>1, TakeTypes DEF OInv
  <1>3. a = <<>>
    BY <1>1 DEF OInv, Answers, Quiet
  <1>4. /\ server' \in ServerRecords /\ Len(server'.held) <= 1
        /\ server'.at \in {"missing", "serve", "cgi", "404", "fopen", "pipes"}
        /\ server'.client = server.client
        /\ server'.at \in {"serve", "fopen"} => server.at = "serve"
    <2>1. CASE server' = server
      BY <1>1, <2>1 DEF OInv, Types
    <2>2. ASSUME NEW at \in {"404", "fopen", "pipes"}, server' = [server EXCEPT !.at = at],
                 at = "fopen" => server.at = "serve"
          PROVE  /\ server' \in ServerRecords /\ Len(server'.held) <= 1
                 /\ server'.at \in {"missing", "serve", "cgi", "404", "fopen", "pipes"}
                 /\ server'.client = server.client
                 /\ server'.at \in {"serve", "fopen"} => server.at = "serve"
      BY <1>1, <2>2, MovesTypes DEF Places, OInv, Types
    <2>3. \/ server' = server
          \/ \E at \in {"404", "fopen", "pipes"} :
               server' = [server EXCEPT !.at = at] /\ (at = "fopen" => server.at = "serve")
      BY DEF DiscardLine
    <2> QED
      BY <2>1, <2>2, <2>3
  <1>5. server'.at \in {"serve", "fopen"} => request.target \in DOMAIN Targets
    BY <1>4 DEF OInv, Current
  <1>6. files' \subseteq DOMAIN Targets
    BY <1>1 DEF OInv, Types
  <1> HIDE DEF a
  <1> QED
    BY <1>1, <1>2, <1>3, <1>4, <1>5, <1>6, QuietStep

LEMMA PostStep ==
  ASSUME OInv, PostLine
  PROVE  OInv'
  <1> DEFINE a == link[server.client].answer
             length == request.length
  <1>1. server.at = "post" /\ TakeLine /\ UNCHANGED <<script, stdin, stdout, files>>
    BY DEF PostLine
  <1>2. Serves(a)
    BY <1>1, TakeTypes DEF OInv
  <1>3. a = <<>>
    BY <1>1 DEF OInv, Answers, Quiet
  <1>4. length \in Int
    <2>1. request \in Requests
      BY <1>1, BusyClient, LinkAt DEF OInv, request, me
    <2> QED
      BY <2>1, HttpdAssumption DEF NoLength
  <1>5. /\ server' \in ServerRecords /\ Len(server'.held) <= 1
        /\ server'.at \in {"post", "400", "pipes"}
        /\ server'.client = server.client
    <2>1. \/ server' = server \/ server' = [server EXCEPT !.length = length]
          \/ \E at \in {"400", "pipes"} : server' = [server EXCEPT !.at = at]
      BY DEF PostLine
    <2> HIDE DEF length
    <2>2. CASE server' = server
      BY <1>1, <2>2 DEF OInv, Types
    <2>3. CASE server' = [server EXCEPT !.length = length]
      BY <1>1, <1>4, <2>3 DEF OInv, Types, ServerRecords
    <2>4. CASE \E at \in {"400", "pipes"} : server' = [server EXCEPT !.at = at]
      BY <1>1, <2>4, MovesTypes, ZenonT(40) DEF Places, OInv, Types
    <2> QED
      BY <2>1, <2>2, <2>3, <2>4
  <1>6. files' \subseteq DOMAIN Targets
    BY <1>1 DEF OInv, Types
  <1> HIDE DEF a
  <1> QED
    BY <1>1, <1>2, <1>3, <1>5, <1>6, QuietStep

\* A status line and what goes with it are the whole answer.
LEMMA AnswersOnce ==
  ASSUME OInv, server.at \in Quiet \ {"request", "unimplemented"},
         NEW tokens \in Seq(AnswerTokens), Opened(tokens),
         NEW at \in {"close", "dead"}, NEW next, next = [server EXCEPT !.at = at],
         Send(tokens, next),
         UNCHANGED <<script, stdin, stdout, files>>
  PROVE  OInv'
  <1>1. server' = next \/ server' = [server EXCEPT !.at = "dead"]
    BY DEF Send
  <1>2. link[server.client].answer = <<>>
    BY DEF OInv, Answers
  <1>3. server.at \notin {"feed", "relay", "dead", "accept"}
    BY DEF Quiet
  <1>4. /\ server' \in ServerRecords /\ Len(server'.held) <= 1
        /\ server'.at \in {"close", "dead"} /\ server'.client = server.client
    <2>1. PICK place \in {"close", "dead"} : server' = [server EXCEPT !.at = place]
      BY <1>1
    <2> QED
      BY <1>3, <2>1, MovesTypes DEF Places, OInv, Types
  <1>5. Serves(tokens)
    BY <1>2, <1>3, SendTypes, EmptyConcat DEF OInv
  <1>6. files' \subseteq DOMAIN Targets
    BY DEF OInv, Types
  <1> QED
    BY <1>3, <1>4, <1>5, <1>6, QuietStep DEF Quiet

LEMMA Pair ==
  ASSUME NEW S, NEW x \in S, NEW y \in S
  PROVE  <<x, y>> = <<x>> \o <<y>>
  <1> DEFINE a == <<x>>
             b == <<y>>
             d == <<x, y>>
             e == a \o b
  <1>1. /\ a \in Seq(S) /\ b \in Seq(S) /\ d \in Seq(S)
        /\ Len(a) = 1 /\ Len(b) = 1 /\ Len(d) = 2
        /\ a[1] = x /\ b[1] = y /\ d[1] = x /\ d[2] = y
    OBVIOUS
  <1> HIDE DEF a, b, d
  <1>2. /\ e \in Seq(S) /\ Len(e) = Len(a) + Len(b)
        /\ \A i \in 1 .. Len(a) + Len(b) : e[i] = IF i <= Len(a) THEN a[i] ELSE b[i - Len(a)]
    BY <1>1, ConcatProperties
  <1> HIDE DEF e
  <1>3. Len(e) = Len(d) /\ \A i \in 1 .. Len(e) : e[i] = d[i]
    BY <1>1, <1>2
  <1>4. e = d
    BY <1>1, <1>2, <1>3, SeqEqual
  <1> QED
    BY <1>4 DEF a, b, d, e

LEMMA Triple ==
  ASSUME NEW x, NEW y, NEW z
  PROVE  <<x, y, z>> = <<x>> \o <<y, z>>
  OBVIOUS

LEMMA EndType == EndOfHeader \in AnswerTokens /\ EndOfHeader.kind = "end"
  BY AnswerToken DEF EndOfHeader

LEMMA ShortAnswer ==
  ASSUME NEW n \in Int
  PROVE  LET tokens == <<Status(n), EndOfHeader, Token("body", 0)>>
         IN  tokens \in Seq(AnswerTokens) /\ Opened(tokens)
  <1> DEFINE e == EndOfHeader
             f == Token("body", 0)
             rest == <<e, f>>
             s == Status(n)
  <1>1. e \in AnswerTokens /\ f \in AnswerTokens /\ e.kind = "end" /\ f.kind = "body"
    BY EndType, AnswerToken
  <1>2. rest \in Seq(AnswerTokens) /\ Plain(rest)
    <2> HIDE DEF e, f
    <2> QED
      BY <1>1 DEF Plain
  <1> HIDE DEF e, f
  <1>3. <<s, e, f>> = <<s>> \o rest
    <2> HIDE DEF s
    <2> QED
      BY Triple
  <1> HIDE DEF rest
  <1>4. <<s>> \o rest \in Seq(AnswerTokens) /\ Opened(<<s>> \o rest)
    BY <1>2, OpenedAnswer
  <1>5. <<s, e, f>> \in Seq(AnswerTokens) /\ Opened(<<s, e, f>>)
    BY <1>3, <1>4
  <1> QED
    BY <1>5 DEF e, f

\* The headers of serve_file, and what cat sends behind them.
LEMMA LongAnswer ==
  ASSUME NEW n \in Int, NEW body \in Seq(AnswerTokens), Plain(body)
  PROVE  LET tokens == <<Status(n), EndOfHeader>> \o body
         IN  tokens \in Seq(AnswerTokens) /\ Opened(tokens)
  <1> DEFINE e == EndOfHeader
             end == <<e>>
             rest == end \o body
             s == Status(n)
             status == <<s>>
  <1>1. end \in Seq(AnswerTokens) /\ Plain(end)
    <2>1. e \in AnswerTokens /\ e.kind = "end"
      BY EndType
    <2> HIDE DEF e
    <2> QED
      BY <2>1 DEF Plain
  <1>2. status \in Seq(AnswerTokens)
    <2>1. s \in AnswerTokens
      BY AnswerToken DEF Status
    <2> HIDE DEF s
    <2> QED
      BY <2>1
  <1>3. <<s, e>> = status \o end
    <2>1. s \in AnswerTokens /\ e \in AnswerTokens
      BY AnswerToken, EndType DEF Status
    <2> HIDE DEF s, e
    <2> QED
      BY <2>1, Pair
  <1> HIDE DEF end
  <1>4. rest \in Seq(AnswerTokens) /\ Plain(rest)
    <2>1. rest \in Seq(AnswerTokens) /\ In(rest) \subseteq In(end) \cup In(body)
      BY <1>1, InConcat
    <2> QED
      BY <1>1, <2>1 DEF Plain, In
  <1>5. status \o rest \in Seq(AnswerTokens) /\ Opened(status \o rest)
    BY <1>4, OpenedAnswer
  <1> HIDE DEF status
  <1>6. (status \o end) \o body = status \o rest
    BY <1>1, <1>2, ConcatAssociative
  <1>7. <<s, e>> \o body \in Seq(AnswerTokens) /\ Opened(<<s, e>> \o body)
    BY <1>3, <1>5, <1>6
  <1> QED
    BY <1>7 DEF e

LEMMA StatusAlone ==
  ASSUME NEW n \in Int
  PROVE  <<Status(n)>> \in Seq(AnswerTokens) /\ Opened(<<Status(n)>>)
  <1> DEFINE s == Status(n)
             first == <<s>>
  <1>1. s \in AnswerTokens /\ s.kind = "status"
    BY AnswerToken DEF Status
  <1> HIDE DEF s
  <1>2. first \in Seq(AnswerTokens) /\ DOMAIN first = {1} /\ first[1] = s /\ first # <<>>
    BY <1>1
  <1> HIDE DEF first
  <1>3. Opened(first)
    BY <1>1, <1>2 DEF Opened
  <1> QED
    BY <1>2, <1>3 DEF first, s

LEMMA RefusesStep ==
  ASSUME OInv, NotFound \/ BadRequest \/ CannotExecute
  PROVE  OInv'
  <1>1. /\ server.at \in {"404", "400", "pipes"}
        /\ UNCHANGED <<script, stdin, stdout, files>>
        /\ \E n \in {404, 400, 500} :
             Send(<<Status(n), EndOfHeader, Token("body", 0)>>, [server EXCEPT !.at = "close"])
    BY DEF NotFound, BadRequest, CannotExecute, NotFoundAnswer
  <1>2. PICK n \in {404, 400, 500} :
          Send(<<Status(n), EndOfHeader, Token("body", 0)>>, [server EXCEPT !.at = "close"])
    BY <1>1
  <1> DEFINE tokens == <<Status(n), EndOfHeader, Token("body", 0)>>
             next == [server EXCEPT !.at = "close"]
  <1>3. tokens \in Seq(AnswerTokens) /\ Opened(tokens)
    <2>1. n \in Int
      OBVIOUS
    <2> QED
      BY <2>1, ShortAnswer
  <1>4. Send(tokens, next)
    BY <1>2
  <1>5. server.at \in Quiet \ {"request", "unimplemented"}
    BY <1>1 DEF Quiet
  <1> HIDE DEF tokens
  <1> QED
    BY <1>1, <1>3, <1>4, <1>5, AnswersOnce

LEMMA ServeStep ==
  ASSUME OInv, ServeFile
  PROVE  OInv'
  <1> DEFINE n == CatLines(request.target)
             body == IF request.method = "HEAD" THEN <<>> ELSE BodyUnits(n)
  <1>1. server.at = "fopen" /\ UNCHANGED <<script, stdin, stdout, files>>
    BY DEF ServeFile
  <1>2. server.at \in Quiet \ {"request", "unimplemented"}
    BY <1>1 DEF Quiet
  <1>3. CASE Send(NotFoundAnswer, [server EXCEPT !.at = "dead"])
    <2> DEFINE next == [server EXCEPT !.at = "dead"]
    <2>1. NotFoundAnswer \in Seq(AnswerTokens) /\ Opened(NotFoundAnswer)
      BY ShortAnswer DEF NotFoundAnswer
    <2>2. Send(NotFoundAnswer, next)
      BY <1>3
    <2> QED
      BY <1>1, <1>2, <2>1, <2>2, AnswersOnce
  <1>4. CASE Send(<<Status(200), EndOfHeader>> \o body, [server EXCEPT !.at = "close"])
    <2>1. body \in Seq(AnswerTokens) /\ Plain(body)
      <3>1. n \in Int
        BY <1>1, HttpdAssumption DEF OInv, Current, CatLines
      <3>2. BodyUnits(n) \in Seq(AnswerTokens) /\ Plain(BodyUnits(n))
        BY <3>1, BodyUnitsType DEF Plain
      <3>3. <<>> \in Seq(AnswerTokens) /\ Plain(<<>>)
        BY EmptySeq DEF Plain
      <3> HIDE DEF n
      <3> QED
        BY <3>2, <3>3
    <2> HIDE DEF body
    <2> DEFINE tokens == <<Status(200), EndOfHeader>> \o body
               next == [server EXCEPT !.at = "close"]
    <2>2. tokens \in Seq(AnswerTokens) /\ Opened(tokens)
      BY <2>1, LongAnswer
    <2>3. Send(tokens, next)
      BY <1>4
    <2> HIDE DEF tokens
    <2> QED
      BY <1>1, <1>2, <2>2, <2>3, AnswersOnce
  <1> QED
    BY <1>3, <1>4 DEF ServeFile

LEMMA ForkStep ==
  ASSUME OInv, Fork
  PROVE  OInv'
  <1> DEFINE tokens == <<Status(200)>>
             a == tokens
  <1>1. server.at = "pipes" /\ UNCHANGED <<stdin, stdout, files>>
        /\ script' = [NoScript EXCEPT !.at = "start"]
    BY DEF Fork
  <1>2. PICK place \in {"feed", "relay"} : Send(tokens, [server EXCEPT !.at = place])
    BY DEF Fork
  <1>3. tokens \in Seq(AnswerTokens) /\ Opened(tokens)
    <2> DEFINE n == 200
    <2>1. n \in Int
      OBVIOUS
    <2> HIDE DEF n
    <2>2. <<Status(n)>> \in Seq(AnswerTokens) /\ Opened(<<Status(n)>>)
      BY <2>1, StatusAlone
    <2> QED
      BY <2>2 DEF n
  <1>4. link[server.client].answer = <<>>
    BY <1>1 DEF OInv, Answers, Quiet
  <1> HIDE DEF tokens
  <1> DEFINE next == [server EXCEPT !.at = place]
  <1>5. Serves(tokens) /\ (server' = next \/ server' = [server EXCEPT !.at = "dead"])
    BY <1>1, <1>2, <1>3, <1>4, SendTypes, EmptyConcat DEF OInv
  <1>6. PICK at \in {"feed", "relay", "dead"} : server' = [server EXCEPT !.at = at]
    BY <1>5
  <1>7. /\ server' \in ServerRecords /\ Len(server'.held) <= 1
        /\ server'.at \in {"feed", "relay", "dead"} /\ server'.client = server.client
    BY <1>1, <1>6, MovesTypes DEF Places, OInv, Types
  <1>8. script' \in ScriptRecords /\ script'.at = "start"
    BY <1>1, EmptySeq DEF NoScript, ScriptRecords
  <1>9. server.client \in Clients /\ server.client # Nobody
    BY <1>1, BusyClient, HttpdAssumption DEF OInv
  <1>10. Types'
    BY <1>1, <1>5, <1>7, <1>8, <1>9 DEF OInv, Types, Serves
  <1>11. Current' /\ Answers'
    BY <1>1, <1>3, <1>5, <1>7, Serving DEF Quiet
  <1>12. Child'
    <2>1. stdout = <<>>
      BY <1>1 DEF OInv, Child
    <2>2. link'[server'.client].answer = tokens
      BY <1>5, <1>7 DEF Serves
    <2> QED
      BY <1>1, <1>7, <1>8, <2>1, <2>2 DEF Child, tokens
  <1> QED
    BY <1>10, <1>11, <1>12 DEF OInv

(***************************************************************************)
(* The parent between the client and the script.                           *)
(***************************************************************************)
\* A step of the parent between the fork and the end of its loops.
LEMMA ForwardStep ==
  ASSUME OInv, NEW a, Serves(a), server.at \in {"feed", "relay"},
         server' \in ServerRecords, Len(server'.held) <= 1, server'.client = server.client,
         server'.at \in {"feed", "relay", "close", "dead"},
         server'.at = "close" => script.at = "ended" /\ stdout = <<>>,
         UNCHANGED <<script, files>>,
         stdin' \in Seq(Tokens), Len(stdin') <= PipeSize,
         stdout' \in Seq(ScriptTokens), Len(stdout') <= PipeSize,
         stdout = <<>> => stdout' = <<>> /\ a = link[server.client].answer,
         Opened(a)
  PROVE  OInv'
  <1>1. server.client \in Clients /\ server.client # Nobody
    BY BusyClient, HttpdAssumption DEF OInv
  <1>2. Types'
    BY <1>1 DEF OInv, Types, Serves
  <1>3. Current' /\ Answers'
    BY Serving DEF Quiet
  <1>4. Child'
    <2>1. link'[server'.client].answer = a
      BY DEF Serves
    <2> QED
      BY <2>1 DEF OInv, Child
  <1> QED
    BY <1>2, <1>3, <1>4 DEF OInv

LEMMA Unchanged ==
  ASSUME OInv, server.at # "accept", UNCHANGED link
  PROVE  Serves(link[server.client].answer)
  BY BusyClient DEF OInv, Types, Serves

LEMMA FeedTakeStep ==
  ASSUME OInv, FeedTake
  PROVE  OInv'
  <1> DEFINE c == server.client
             input == link[c].input
             unit == IF input = <<>> THEN server.last ELSE Head(input)
             rest == IF input = <<>> THEN <<>> ELSE Tail(input)
             a == link[c].answer
  <1>1. /\ server.at = "feed" /\ UNCHANGED <<script, stdin, stdout, files>>
        /\ server' = [server EXCEPT !.held = <<unit>>, !.last = unit]
    BY DEF FeedTake, me
  <1>2. c \in Clients /\ input \in Seq(Tokens)
    BY <1>1, BusyClient, LinkAt DEF OInv
  <1>3. unit \in Tokens /\ rest \in Seq(Tokens)
    <2>1. server.last \in Tokens
      BY DEF OInv, Types, ServerRecords
    <2>2. ASSUME input # <<>> PROVE Head(input) \in Tokens /\ Tail(input) \in Seq(Tokens)
      BY <1>2, <2>2, HeadTailProperties
    <2>3. <<>> \in Seq(Tokens)
      BY EmptySeq
    <2> HIDE DEF input
    <2> QED
      BY <2>1, <2>2, <2>3
  <1>4. link' = [link EXCEPT ![me].input = rest]
    BY <1>2 DEF FeedTake, me, OInv, Types
  <1>5. Serves(a)
    <2> HIDE DEF rest
    <2> QED
      BY <1>1, <1>3, <1>4, InputTypes DEF OInv
  <1>6. Opened(a)
    BY <1>1 DEF OInv, Answers
  <1>7. /\ server' \in ServerRecords /\ Len(server'.held) <= 1 /\ server'.client = c
        /\ server'.at = "feed"
    <2> HIDE DEF unit
    <2>1. <<unit>> \in Seq(Tokens) /\ Len(<<unit>>) = 1
      BY <1>3
    <2> DEFINE held == <<unit>>
    <2> HIDE DEF held
    <2>2. /\ held \in Seq(Tokens)
          /\ server' = [server EXCEPT !.held = held, !.last = unit]
      BY <1>1, <2>1 DEF held
    <2>3. server \in ServerRecords
      BY DEF OInv, Types
    <2>4. /\ server' \in ServerRecords /\ server'.held = held /\ server'.client = server.client
          /\ server'.at = server.at
      BY <1>3, <2>2, <2>3 DEF ServerRecords
    <2>5. Len(server'.held) <= 1
      BY <2>1, <2>4 DEF held
    <2> QED
      BY <1>1, <2>4, <2>5
  <1> HIDE DEF a, unit, rest
  <1> QED
    BY <1>1, <1>5, <1>6, <1>7, ForwardStep DEF OInv, Types, a

LEMMA FeedWriteStep ==
  ASSUME OInv, FeedWrite
  PROVE  OInv'
  <1> DEFINE a == link[server.client].answer
  <1>1. server.at = "feed" /\ UNCHANGED <<link, script, stdout, files>>
    BY DEF FeedWrite
  <1>2. Serves(a) /\ Opened(a)
    BY <1>1, Unchanged DEF OInv, Answers
  <1>3. /\ server' \in ServerRecords /\ Len(server'.held) <= 1
        /\ server'.client = server.client /\ server'.at \in {"feed", "dead"}
        /\ stdin' \in Seq(Tokens) /\ Len(stdin') <= PipeSize
    <2>1. CASE server' = [server EXCEPT !.at = "dead"] /\ stdin' = stdin
      BY <1>1, <2>1, MovesTypes DEF OInv, Types, Places
    <2>2. CASE /\ Len(stdin) < PipeSize /\ stdin' = stdin \o server.held
               /\ server' = [server EXCEPT !.held = <<>>, !.fed = @ + 1]
      <3>1. server.held \in Seq(Tokens) /\ Len(server.held) <= 1 /\ stdin \in Seq(Tokens)
        BY DEF OInv, Types, ServerRecords
      <3>2. stdin' \in Seq(Tokens) /\ Len(stdin') <= PipeSize
        BY <2>2, <3>1, ConcatProperties, LenProperties, HttpdAssumption
      <3> DEFINE fed == server.fed + 1
                 none == <<>>
      <3>3. /\ server \in ServerRecords /\ fed \in Nat /\ none \in Seq(Tokens)
            /\ server' = [server EXCEPT !.held = none, !.fed = fed]
        BY <2>2, EmptySeq DEF OInv, Types, ServerRecords
      <3> HIDE DEF fed, none
      <3>4. server' \in ServerRecords /\ server'.held = none /\ server'.client = server.client
            /\ server'.at = server.at
        BY <3>3 DEF ServerRecords
      <3> QED
        BY <1>1, <3>2, <3>4, EmptySeq DEF none
    <2> QED
      BY <2>1, <2>2 DEF FeedWrite
  <1> HIDE DEF a
  <1> QED
    BY <1>1, <1>2, <1>3, ForwardStep DEF OInv, Types, a

LEMMA FeedEndStep ==
  ASSUME OInv, FeedEnd
  PROVE  OInv'
  <1> DEFINE a == link[server.client].answer
  <1>1. server.at = "feed" /\ UNCHANGED <<link, script, stdin, stdout, files>>
        /\ server' = [server EXCEPT !.at = "relay"]
    BY DEF FeedEnd
  <1>2. Serves(a) /\ Opened(a)
    BY <1>1, Unchanged DEF OInv, Answers
  <1>3. /\ server' \in ServerRecords /\ Len(server'.held) <= 1
        /\ server'.client = server.client /\ server'.at = "relay"
    BY <1>1, MovesTypes DEF OInv, Types, Places
  <1> HIDE DEF a
  <1> QED
    BY <1>1, <1>2, <1>3, ForwardStep DEF OInv, Types, a

LEMMA RelayEndStep ==
  ASSUME OInv, RelayEnd
  PROVE  OInv'
  <1> DEFINE a == link[server.client].answer
  <1>1. server.at = "relay" /\ UNCHANGED <<link, script, stdin, stdout, files>>
        /\ server' = [server EXCEPT !.at = "close"] /\ stdout = <<>> /\ script.at = "ended"
    BY DEF RelayEnd
  <1>2. Serves(a) /\ Opened(a)
    BY <1>1, Unchanged DEF OInv, Answers
  <1>3. /\ server' \in ServerRecords /\ Len(server'.held) <= 1
        /\ server'.client = server.client /\ server'.at = "close"
    BY <1>1, MovesTypes DEF OInv, Types, Places
  <1> HIDE DEF a
  <1> QED
    BY <1>1, <1>2, <1>3, ForwardStep DEF OInv, Types, a

LEMMA RelayStep ==
  ASSUME OInv, Relay
  PROVE  OInv'
  <1> DEFINE e == Head(stdout)
             old == link[server.client].answer
             a == old \o <<e>>
             next == server
  <1>1. server.at = "relay" /\ UNCHANGED <<script, stdin, files>>
        /\ stdout # <<>> /\ stdout' = Tail(stdout) /\ Send(<<e>>, next)
    BY DEF Relay
  <1>2. e \in AnswerTokens /\ e.kind # "status"
    <2>1. e \in ScriptTokens
      BY <1>1, HeadTailProperties DEF OInv, Types
    <2> HIDE DEF e
    <2> QED
      BY <2>1 DEF ScriptTokens, AnswerTokens
  <1>3. stdout' \in Seq(ScriptTokens) /\ Len(stdout') <= PipeSize
    BY <1>1, HeadTailProperties, LenProperties, HttpdAssumption DEF OInv, Types
  <1>4. old \in Seq(AnswerTokens) /\ Opened(old)
    BY <1>1, BusyClient, LinkAt DEF OInv, Answers
  <1> HIDE DEF e, old
  <1>5. Opened(a)
    BY <1>2, <1>4, OpenedMore
  <1>6. Serves(a) /\ (server' = next \/ server' = [server EXCEPT !.at = "dead"])
    <2> DEFINE tokens == <<e>>
    <2>1. tokens \in Seq(AnswerTokens)
      BY <1>2
    <2> HIDE DEF tokens
    <2>2. Serves(old \o tokens) /\ (server' = next \/ server' = [server EXCEPT !.at = "dead"])
      BY <1>1, <2>1, SendTypes DEF tokens, OInv, old
    <2> QED
      BY <2>2 DEF tokens
  <1> HIDE DEF a
  <1>7. /\ server' \in ServerRecords /\ Len(server'.held) <= 1
        /\ server'.client = server.client /\ server'.at \in {"relay", "dead"}
    <2>1. CASE server' = next
      BY <1>1, <2>1 DEF OInv, Types
    <2>2. CASE server' = [server EXCEPT !.at = "dead"]
      BY <1>1, <2>2, MovesTypes DEF OInv, Types, Places
    <2> QED
      BY <1>6, <2>1, <2>2
  <1> QED
    BY <1>1, <1>3, <1>5, <1>6, <1>7, ForwardStep DEF OInv, Types

(***************************************************************************)
(* The script, and the ends of a connection.                               *)
(***************************************************************************)
\* A step of the child, whatever the parent is at.
LEMMA ChildStep ==
  ASSUME OInv, NEW a, Serves(a), server.at \in {"feed", "relay", "dead"},
         UNCHANGED <<server, files>>,
         script' \in ScriptRecords, script'.at # "start",
         stdin' \in Seq(Tokens), Len(stdin') <= PipeSize,
         stdout' \in Seq(ScriptTokens), Len(stdout') <= PipeSize,
         Opened(a) \/ a = link[server.client].answer
  PROVE  OInv'
  <1> DEFINE c == server.client
  <1>1. c \in Clients /\ c # Nobody /\ link[c].at = "served"
    BY BusyClient, HttpdAssumption DEF OInv
  <1>2. /\ link'[c].at = "served" /\ link'[c].request = link[c].request
        /\ link'[c].answer = a
        /\ \A d \in Clients \ {c} : link'[d] = link[d]
    BY <1>1 DEF Serves
  <1>3. Types'
    BY <1>1 DEF OInv, Types, Serves
  <1>4. Current' /\ Child'
    BY <1>2 DEF OInv, Current, Child, request, me
  <1>5. Answers'
    BY <1>1, <1>2 DEF OInv, Answers, Quiet, request, me
  <1> QED
    BY <1>3, <1>4, <1>5 DEF OInv

LEMMA ScriptStartStep ==
  ASSUME OInv, ScriptStart
  PROVE  OInv'
  <1> DEFINE c == server.client
             s == Status(200)
             old == link[c].answer
             a == Append(old, s)
             r == [link[c] EXCEPT !.answer = a]
  <1>1. script.at = "start" /\ UNCHANGED <<server, stdin, stdout, files>>
    BY DEF ScriptStart
  <1>2. server.at \in {"feed", "relay", "dead"} /\ c \in Clients /\ old = <<s>>
    BY <1>1, BusyClient DEF OInv, Child
  <1>3. s \in AnswerTokens /\ s.kind = "status"
    <2>1. \E n \in Int : s = Token("status", n)
      BY DEF Status
    <2> HIDE DEF s
    <2> QED
      BY <2>1, AnswerToken
  <1>4. link' = [link EXCEPT ![c] = r]
    BY <1>2 DEF ScriptStart, me, OInv, Types
  <1> HIDE DEF s
  <1>5. a \in Seq(AnswerTokens) /\ Opened(a)
    <2>1. old \in Seq(AnswerTokens)
      BY <1>2, LinkAt DEF OInv
    <2>2. Len(old) = 1 /\ old[1] = s
      BY <1>2
    <2> HIDE DEF old
    <2> QED
      BY <1>3, <2>1, <2>2, OpenedTwice
  <1> HIDE DEF a
  <1>6. r \in LinkRecords /\ r.at = link[c].at /\ r.request = link[c].request /\ r.answer = a
    <2>1. a \in Seq(AnswerTokens) /\ link[c] \in LinkRecords
      BY <1>2, <1>5, LinkAt DEF OInv
    <2> QED
      BY <2>1 DEF LinkRecords
  <1> HIDE DEF r
  <1>7. Serves(a)
    BY <1>2, <1>4, <1>6, LinkUpdate DEF Serves, OInv
  <1>8. script' \in ScriptRecords /\ script'.at # "start"
    <2>1. script \in ScriptRecords
      BY DEF OInv, Types
    <2>2. \/ script' = [script EXCEPT !.at = "ended"]
          \/ \E does \in Behaviours : script' = [script EXCEPT !.at = "run", !.does = does]
      BY DEF ScriptStart
    <2> QED
      BY <2>1, <2>2 DEF ScriptRecords
  <1> QED
    BY <1>1, <1>2, <1>5, <1>7, <1>8, ChildStep DEF OInv, Types

LEMMA Running ==
  ASSUME OInv, script.at = "run", UNCHANGED <<link, server, files>>,
         script' \in ScriptRecords, script'.at # "start",
         stdin' \in Seq(Tokens), Len(stdin') <= PipeSize,
         stdout' \in Seq(ScriptTokens), Len(stdout') <= PipeSize
  PROVE  OInv'
  <1> DEFINE a == link[server.client].answer
  <1>1. server.at \in {"feed", "relay", "dead"}
    BY DEF OInv, Child
  <1>2. Serves(a)
    BY <1>1, Unchanged
  <1>3. a = link[server.client].answer
    OBVIOUS
  <1> HIDE DEF a
  <1> QED
    BY <1>1, <1>2, <1>3, ChildStep

LEMMA ScriptReadStep ==
  ASSUME OInv, ScriptRead
  PROVE  OInv'
  <1> DEFINE e == Head(stdin)
             rest == Tail(stdin)
             took == Append(script.took, e)
  <1>1. /\ script.at = "run" /\ UNCHANGED <<link, server, stdout, files>>
        /\ stdin # <<>> /\ stdin' = rest /\ script' = [script EXCEPT !.took = took]
    BY DEF ScriptRead, OInv, Types, ScriptRecords
  <1>2. script \in ScriptRecords /\ script.took \in Seq(Tokens)
    BY DEF OInv, Types, ScriptRecords
  <1>3. e \in Tokens /\ rest \in Seq(Tokens) /\ Len(rest) <= PipeSize
    BY <1>1, HeadTailProperties, LenProperties, HttpdAssumption DEF OInv, Types
  <1> HIDE DEF e, rest
  <1>4. took \in Seq(Tokens)
    BY <1>2, <1>3, InAppend
  <1> HIDE DEF took
  <1>5. script' \in ScriptRecords /\ script'.at = "run"
    BY <1>1, <1>2, <1>4 DEF ScriptRecords
  <1> QED
    BY <1>1, <1>3, <1>5, Running DEF OInv, Types

LEMMA ScriptWriteStep ==
  ASSUME OInv, ScriptWrite
  PROVE  OInv'
  <1> DEFINE e == IF script.wrote = 0 THEN EndOfHeader ELSE Token("body", script.wrote)
             wrote == script.wrote + 1
             out == Append(stdout, e)
  <1>1. /\ script.at = "run" /\ UNCHANGED <<link, server, stdin, files>>
        /\ Len(stdout) < PipeSize /\ stdout' = out /\ script' = [script EXCEPT !.wrote = wrote]
    BY DEF ScriptWrite, OInv, Types, ScriptRecords
  <1>2. script \in ScriptRecords /\ script.wrote \in Nat /\ wrote \in Nat
    BY DEF OInv, Types, ScriptRecords
  <1>3. e \in ScriptTokens
    BY <1>2 DEF EndOfHeader, Token, ScriptTokens
  <1> HIDE DEF e, wrote
  <1>4. out \in Seq(ScriptTokens) /\ Len(out) = Len(stdout) + 1
    BY <1>3, AppendProperties DEF OInv, Types
  <1>5. Len(out) <= PipeSize
    BY <1>1, <1>4, LenProperties, HttpdAssumption DEF OInv, Types
  <1> HIDE DEF out
  <1>6. script' \in ScriptRecords /\ script'.at = "run"
    BY <1>1, <1>2 DEF ScriptRecords
  <1> QED
    BY <1>1, <1>4, <1>5, <1>6, Running DEF OInv, Types

LEMMA ScriptEndStep ==
  ASSUME OInv, ScriptEnd
  PROVE  OInv'
  <1>1. /\ script.at = "run" /\ UNCHANGED <<link, server, stdin, stdout, files>>
        /\ script' = [script EXCEPT !.at = "ended"]
    BY DEF ScriptEnd
  <1>2. script' \in ScriptRecords /\ script'.at = "ended"
    BY <1>1 DEF ScriptRecords, OInv, Types
  <1> QED
    BY <1>1, <1>2, Running DEF OInv, Types

LEMMA IdleType ==
  Idle \in ServerRecords /\ Len(Idle.held) = 0 /\ Idle.at = "accept" /\ Idle.client = Nobody
  <1> DEFINE none == <<>>
             last == Token("nothing", 0)
  <1>1. none \in Seq(Tokens) /\ Len(none) = 0 /\ last \in Tokens
    BY EmptySeq DEF Token, Tokens
  <1>2. Idle = [at |-> "accept", client |-> Nobody, length |-> NoLength, fed |-> 0,
                held |-> none, last |-> last]
    BY DEF Idle
  <1> HIDE DEF none, last
  <1> QED
    BY <1>1, <1>2 DEF ServerRecords, Places, NoLength

LEMMA NoScriptType == NoScript \in ScriptRecords /\ NoScript.at = "none"
  BY EmptySeq DEF NoScript, ScriptRecords

LEMMA AcceptStep ==
  ASSUME OInv, NEW c \in Clients, Accept(c)
  PROVE  OInv'
  <1> DEFINE r == [link[c] EXCEPT !.at = "served"]
  <1>1. /\ server.at = "accept" /\ link[c].at = "queued"
        /\ server' = [server EXCEPT !.at = "request", !.client = c]
        /\ link' = [link EXCEPT ![c] = r]
        /\ UNCHANGED <<script, stdin, stdout, files>>
    BY DEF Accept, OInv, Types
  <1>2. r \in LinkRecords /\ r.at = "served" /\ r.answer = link[c].answer
        /\ r.request = link[c].request
    BY LinkAt DEF LinkRecords, OInv
  <1> HIDE DEF r
  <1>3. /\ link' \in [Clients -> LinkRecords] /\ link'[c] = r
        /\ \A d \in Clients \ {c} : link'[d] = link[d]
    BY <1>1, <1>2, LinkUpdate DEF OInv
  <1>4. /\ server' \in ServerRecords /\ server'.at = "request" /\ server'.client = c
        /\ server'.held = server.held
    BY <1>1 DEF OInv, Types, ServerRecords, Places
  <1>5. Types'
    BY <1>1, <1>3, <1>4, HttpdAssumption DEF OInv, Types
  <1>6. Current'
    BY <1>2, <1>3, <1>4 DEF Current
  <1>7. Answers'
    BY <1>1, <1>2, <1>3, <1>4 DEF OInv, Answers
  <1>8. Child'
    BY <1>1, <1>4 DEF OInv, Child
  <1> QED
    BY <1>5, <1>6, <1>7, <1>8 DEF OInv

LEMMA UnimplementedStep ==
  ASSUME OInv, Unimplemented
  PROVE  OInv'
  <1> DEFINE n == 501
             tokens == <<Status(n), EndOfHeader, Token("body", 0)>>
             next == Idle
             c == server.client
  <1>1. server.at = "unimplemented" /\ UNCHANGED <<script, stdin, stdout, files>>
        /\ Send(tokens, next)
    BY DEF Unimplemented
  <1>2. tokens \in Seq(AnswerTokens) /\ Opened(tokens)
    <2>1. n \in Int
      OBVIOUS
    <2> HIDE DEF n
    <2> QED
      BY <2>1, ShortAnswer
  <1> HIDE DEF tokens
  <1>3. link[c].answer = <<>> /\ c \in Clients
    BY <1>1, BusyClient DEF OInv, Answers, Quiet
  <1>4. Serves(tokens) /\ (server' = next \/ server' = [server EXCEPT !.at = "dead"])
    BY <1>1, <1>2, <1>3, SendTypes, EmptyConcat DEF OInv
  <1>5. CASE server' = [server EXCEPT !.at = "dead"]
    <2>1. /\ server' \in ServerRecords /\ Len(server'.held) <= 1
          /\ server'.at = "dead" /\ server'.client = server.client
      BY <1>1, <1>5, MovesTypes DEF OInv, Types, Places
    <2> QED
      BY <1>1, <1>2, <1>4, <2>1, QuietStep DEF Quiet, OInv, Types
  <1>6. CASE server' = next
    <2>1. /\ server' \in ServerRecords /\ Len(server'.held) <= 1
          /\ server'.at = "accept" /\ server'.client = Nobody
      BY <1>6, IdleType
    <2>2. /\ link'[c].at = "served" /\ link'[c].answer = tokens
          /\ \A d \in Clients \ {c} : link'[d] = link[d]
          /\ link' \in [Clients -> LinkRecords]
      BY <1>1, <1>4, BusyClient DEF Serves, OInv
    <2>3. Types'
      BY <1>1, <2>1, <2>2 DEF OInv, Types
    <2>4. Current' /\ Child'
      BY <1>1, <2>1 DEF OInv, Current, Child
    <2>5. Answers'
      BY <1>2, <1>3, <2>1, <2>2 DEF OInv, Answers, Quiet
    <2> QED
      BY <2>3, <2>4, <2>5 DEF OInv
  <1> QED
    BY <1>4, <1>5, <1>6

LEMMA CloseStep ==
  ASSUME OInv, Close
  PROVE  OInv'
  <1> DEFINE c == server.client
             reset == link[c].input # <<>>
             r == [link[c] EXCEPT !.at = "closed", !.reset = reset]
  <1>1. /\ server.at = "close" /\ server' = Idle /\ script' = NoScript
        /\ stdin' = <<>> /\ stdout' = <<>> /\ files' = files
    BY DEF Close
  <1>2. c \in Clients
    BY <1>1, BusyClient DEF OInv
  <1>3. link' = [link EXCEPT ![c] = r]
    BY <1>2 DEF Close, me, OInv, Types
  <1>4. reset \in BOOLEAN /\ link[c] \in LinkRecords
    BY <1>2, LinkAt DEF OInv
  <1> HIDE DEF reset
  <1>5. r \in LinkRecords /\ r.at = "closed" /\ r.answer = link[c].answer
        /\ r.request = link[c].request
    BY <1>4 DEF LinkRecords
  <1> HIDE DEF r
  <1>6. /\ link' \in [Clients -> LinkRecords] /\ link'[c] = r
        /\ \A d \in Clients \ {c} : link'[d] = link[d]
    BY <1>2, <1>3, <1>5, LinkUpdate DEF OInv
  <1>7. /\ server' \in ServerRecords /\ Len(server'.held) <= 1
        /\ server'.at = "accept" /\ server'.client = Nobody
    BY <1>1, IdleType
  <1>8. Types'
    <2>1. stdin' \in Seq(Tokens) /\ Len(stdin') <= PipeSize /\ stdout' \in Seq(ScriptTokens)
          /\ Len(stdout') <= PipeSize
      BY <1>1, EmptySeq, HttpdAssumption
    <2>2. script' \in ScriptRecords
      BY <1>1, NoScriptType
    <2> QED
      BY <1>1, <1>6, <1>7, <2>1, <2>2 DEF OInv, Types
  <1>9. Current' /\ Child'
    BY <1>1, <1>7, NoScriptType DEF Current, Child
  <1>10. Answers'
    BY <1>1, <1>2, <1>5, <1>6, <1>7 DEF OInv, Answers, Quiet, request, me
  <1> QED
    BY <1>8, <1>9, <1>10 DEF OInv

(***************************************************************************)
(* The clients, and the whole.                                             *)
(***************************************************************************)
\* A client acts on its connection and sends no answer.
LEMMA LinkStep ==
  ASSUME OInv, NEW c \in Clients, NEW r \in LinkRecords, link' = [link EXCEPT ![c] = r],
         UNCHANGED <<server, script, stdin, stdout, files>>, r.answer = link[c].answer,
         \/ link[c].at = "new" /\ r.at = "queued"
         \/ link[c].at \in {"queued", "served"} /\ r.at = link[c].at
              /\ r.request = link[c].request
  PROVE  OInv'
  <1>1. /\ link' \in [Clients -> LinkRecords] /\ link'[c] = r
        /\ \A d \in Clients \ {c} : link'[d] = link[d]
    BY LinkUpdate DEF OInv
  <1>2. server.at # "accept" => server.client \in Clients /\ link[server.client].at = "served"
    BY BusyClient DEF OInv
  <1>3. \A d \in Clients : /\ link[d].at = "served" => link'[d].at = "served"
                           /\ link[d].at = "served" => link'[d].request = link[d].request
                           /\ link'[d].answer = link[d].answer
    BY <1>1
  <1>4. Types'
    BY <1>1 DEF OInv, Types
  <1>5. Current'
    BY <1>2, <1>3 DEF OInv, Current, request, me
  <1>6. Child'
    <2>1. script.at = "start" => server.at # "accept"
      BY DEF OInv, Child
    <2> QED
      BY <1>2, <1>3, <2>1 DEF OInv, Child
  <1>7. Answers'
    <2>1. /\ \A d \in Clients : link'[d].answer = <<>> \/ Opened(link'[d].answer)
          /\ server.at \in Quiet => link'[server.client].answer = <<>>
          /\ server.at \in {"feed", "relay"} => Opened(link'[server.client].answer)
      BY <1>2, <1>3 DEF OInv, Answers, Quiet
    <2>2. server.at = "close" /\ link'[server.client].request.method # "DELETE" =>
            Opened(link'[server.client].answer)
      BY <1>2, <1>3 DEF OInv, Answers, request, me
    <2>3. \A d \in Clients : link'[d].at \in {"new", "queued"} => link'[d].answer = <<>>
      BY <1>1, <1>3 DEF OInv, Answers
    <2>4. \A d \in Clients : link'[d].at = "closed" /\ link'[d].request.method # "DELETE" =>
            Opened(link'[d].answer)
      BY <1>1, <1>3 DEF OInv, Answers
    <2> QED
      BY <2>1, <2>2, <2>3, <2>4 DEF Answers, request, me
  <1> QED
    BY <1>4, <1>5, <1>6, <1>7 DEF OInv

LEMMA StreamType ==
  ASSUME NEW r \in Requests
  PROVE  Stream(r) \in Seq(Tokens)
  <1> DEFINE first == <<Token("request", 0)>>
             headers == [i \in DOMAIN r.headers |-> Token(r.headers[i], 0)]
             empty == <<Token("empty", 0)>>
  <1>1. first \in Seq(Tokens) /\ empty \in Seq(Tokens)
    BY DEF Token, Tokens
  <1>2. headers \in Seq(Tokens)
    <2>1. r.headers \in Seq(LineKinds)
      BY HttpdAssumption DEF LineKinds
    <2> DEFINE m == Len(r.headers)
    <2>2. m \in Nat /\ DOMAIN r.headers = 1 .. m /\ \A i \in 1 .. m : r.headers[i] \in LineKinds
      BY <2>1, LenProperties
    <2> HIDE DEF m
    <2>3. \A i \in 1 .. m : Token(r.headers[i], 0) \in Tokens
      BY <2>2 DEF Token, Tokens
    <2>4. headers \in [1 .. m -> Tokens]
      BY <2>2, <2>3
    <2> QED
      BY <2>2, <2>4, SeqDef
  <1>3. BodyUnits(r.body) \in Seq(Tokens)
    BY BodyUnitsType, HttpdAssumption
  <1>4. Stream(r) = ((first \o headers) \o empty) \o BodyUnits(r.body)
    BY DEF Stream
  <1> HIDE DEF first, headers, empty
  <1> QED
    BY <1>1, <1>2, <1>3, <1>4, ConcatProperties

LEMMA ConnectStep ==
  ASSUME OInv, NEW c \in Clients, NEW q \in Requests, Connect(c, q)
  PROVE  OInv'
  <1> DEFINE s == Stream(q)
             r == [link[c] EXCEPT !.at = "queued", !.request = q, !.unsent = s]
  <1>1. /\ link[c].at = "new" /\ link' = [link EXCEPT ![c] = r]
        /\ UNCHANGED <<server, script, stdin, stdout, files>>
    BY DEF Connect, OInv, Types
  <1>2. s \in Seq(Tokens) /\ link[c] \in LinkRecords
    BY StreamType, LinkAt DEF OInv
  <1> HIDE DEF s
  <1>3. r \in LinkRecords /\ r.at = "queued" /\ r.answer = link[c].answer
    BY <1>2 DEF LinkRecords
  <1> HIDE DEF r
  <1> QED
    BY <1>1, <1>3, LinkStep

LEMMA PressStep ==
  ASSUME OInv, NEW c \in Clients, NEW q \in Buttons, Press(c, q)
  PROVE  OInv'
  <1> DEFINE s == Stream(q)
             r == [link[c] EXCEPT !.at = "queued", !.request = q, !.input = s]
  <1>1. /\ link[c].at = "new" /\ link' = [link EXCEPT ![c] = r]
        /\ UNCHANGED <<server, script, stdin, stdout, files>>
    BY DEF Press, OInv, Types
  <1>2. s \in Seq(Tokens) /\ link[c] \in LinkRecords /\ q \in Requests
    BY StreamType, LinkAt, BrowserAssumption DEF OInv
  <1> HIDE DEF s
  <1>3. r \in LinkRecords /\ r.at = "queued" /\ r.answer = link[c].answer
    BY <1>2 DEF LinkRecords
  <1> HIDE DEF r
  <1> QED
    BY <1>1, <1>3, LinkStep

LEMMA ClientSendStep ==
  ASSUME OInv, NEW c \in Clients, NEW n \in 1 .. Len(link[c].unsent), ClientSend(c, n)
  PROVE  OInv'
  <1> DEFINE unsent == link[c].unsent
             sent == SubSeq(unsent, 1, n)
             rest == SubSeq(unsent, n + 1, Len(unsent))
             input == link[c].input \o sent
             r == [link[c] EXCEPT !.input = input, !.unsent = rest]
  <1>1. /\ link[c].at \in {"queued", "served"} /\ link' = [link EXCEPT ![c] = r]
        /\ UNCHANGED <<server, script, stdin, stdout, files>>
    BY DEF ClientSend, OInv, Types
  <1>2. link[c] \in LinkRecords /\ unsent \in Seq(Tokens) /\ link[c].input \in Seq(Tokens)
    BY LinkAt DEF OInv
  <1>3. rest \in Seq(Tokens) /\ sent \in Seq(Tokens)
    <2> DEFINE m == Len(unsent)
    <2>1. m \in Nat /\ n \in 1 .. m /\ \A i \in 1 .. m : unsent[i] \in Tokens
      BY <1>2, LenProperties
    <2> HIDE DEF unsent, m
    <2>2. SubSeq(unsent, n + 1, m) \in Seq(Tokens) /\ SubSeq(unsent, 1, n) \in Seq(Tokens)
      BY <2>1, SubSeqProperties
    <2> QED
      BY <2>2 DEF m
  <1>4. input \in Seq(Tokens)
    BY <1>2, <1>3, ConcatProperties
  <1> HIDE DEF rest, sent, input
  <1>5. r \in LinkRecords /\ r.at = link[c].at /\ r.answer = link[c].answer
        /\ r.request = link[c].request
    BY <1>2, <1>3, <1>4 DEF LinkRecords
  <1> HIDE DEF r
  <1> QED
    BY <1>1, <1>5, LinkStep

LEMMA ClientCloseStep ==
  ASSUME OInv, NEW c \in Clients, ClientClose(c)
  PROVE  OInv'
  <1> DEFINE r == [link[c] EXCEPT !.ended = TRUE]
  <1>1. /\ link[c].at \in {"queued", "served"} /\ link' = [link EXCEPT ![c] = r]
        /\ UNCHANGED <<server, script, stdin, stdout, files>>
    BY DEF ClientClose, OInv, Types
  <1>2. r \in LinkRecords /\ r.at = link[c].at /\ r.answer = link[c].answer
        /\ r.request = link[c].request
    BY LinkAt DEF LinkRecords, OInv
  <1> HIDE DEF r
  <1> QED
    BY <1>1, <1>2, LinkStep

LEMMA OInit == BrowserInit => OInv
  <1> SUFFICES ASSUME BrowserInit PROVE OInv
    OBVIOUS
  <1> DEFINE none == <<>>
             r == [at |-> "new", request |-> NoRequest, unsent |-> none, input |-> none,
                   ended |-> FALSE, answer |-> none, reset |-> FALSE]
  <1>1. /\ link = [c \in Clients |-> r] /\ server = Idle /\ script = NoScript
        /\ stdin = none /\ stdout = none /\ files = DOMAIN Targets
    BY DEF BrowserInit, Init
  <1>2. none \in Seq(Tokens) /\ none \in Seq(AnswerTokens) /\ none \in Seq(ScriptTokens)
        /\ Len(none) = 0 /\ none = <<>>
    BY EmptySeq
  <1>3. NoRequest \in Requests
    BY HttpdAssumption DEF NoRequest
  <1> HIDE DEF none
  <1>4. r \in LinkRecords /\ r.at = "new" /\ r.answer = none
    BY <1>2, <1>3 DEF LinkRecords
  <1> HIDE DEF r
  <1>5. link \in [Clients -> LinkRecords] /\ \A c \in Clients : link[c] = r
    BY <1>1, <1>4
  <1>6. Types
    <2>1. Len(stdin) <= PipeSize /\ Len(stdout) <= PipeSize
      BY <1>1, <1>2, HttpdAssumption
    <2>2. server \in ServerRecords /\ Len(server.held) <= 1 /\ server.at = "accept"
          /\ server.client = Nobody
      BY <1>1, IdleType
    <2> QED
      BY <1>1, <1>2, <1>5, <2>1, <2>2, NoScriptType DEF Types
  <1>7. server.at = "accept" /\ script.at = "none"
    BY <1>1, IdleType, NoScriptType
  <1>8. Current /\ Child
    BY <1>1, <1>2, <1>7 DEF Current, Child
  <1>9. Answers
    BY <1>2, <1>4, <1>5, <1>7 DEF Answers, Quiet
  <1> QED
    BY <1>6, <1>8, <1>9 DEF OInv

LEMMA OKept ==
  ASSUME OInv, UNCHANGED vars
  PROVE  OInv'
  BY DEF vars, OInv, Types, Current, Answers, Child, request, me

LEMMA OProcess ==
  ASSUME OInv, Process
  PROVE  OInv'
  <1>1. CASE \E c \in Clients : Accept(c)
    BY <1>1, AcceptStep
  <1>2. CASE Route \/ DiscardLine \/ PostLine
    BY <1>2, RouteStep, DiscardStep, PostStep
  <1>3. CASE NotFound \/ BadRequest \/ CannotExecute \/ ServeFile
    BY <1>3, RefusesStep, ServeStep
  <1>4. CASE FeedTake \/ FeedWrite \/ FeedEnd \/ Relay \/ RelayEnd
    BY <1>4, FeedTakeStep, FeedWriteStep, FeedEndStep, RelayStep, RelayEndStep
  <1>5. CASE Fork \/ Unimplemented \/ Close
    BY <1>5, ForkStep, UnimplementedStep, CloseStep
  <1> QED
    BY <1>1, <1>2, <1>3, <1>4, <1>5 DEF Process

LEMMA OClient ==
  ASSUME OInv, NEW c \in Clients, Surroundings(c)
  PROVE  OInv'
  <1>1. CASE \E q \in Requests : Connect(c, q)
    BY <1>1, ConnectStep
  <1>2. CASE \E n \in 1 .. Len(link[c].unsent) : ClientSend(c, n)
    BY <1>2, ClientSendStep
  <1>3. CASE ClientClose(c)
    BY <1>3, ClientCloseStep
  <1> QED
    BY <1>1, <1>2, <1>3 DEF Surroundings

\* Every step keeps the invariant.
LEMMA OStep == OInv /\ [BrowserNext]_allvars => OInv'
  <1> SUFFICES ASSUME OInv, [BrowserNext]_allvars PROVE OInv'
    OBVIOUS
  <1>1. CASE Process
    BY <1>1, OProcess
  <1>2. CASE Script
    BY <1>2, ScriptStartStep, ScriptReadStep, ScriptWriteStep, ScriptEndStep DEF Script
  <1>3. CASE Others
    BY <1>3, OClient DEF Others
  <1>4. CASE \E c \in Clients, q \in Buttons : Press(c, q)
    BY <1>4, PressStep
  <1>5. CASE Receive
    BY <1>5, OKept DEF Receive
  <1>6. CASE UNCHANGED allvars
    BY <1>6, OKept DEF allvars
  <1> QED
    BY <1>1, <1>2, <1>3, <1>4, <1>5, <1>6 DEF BrowserNext, BrowserStep

LEMMA OInvGives == OInv => OneAnswer
  <1> SUFFICES ASSUME OInv, NEW c \in Clients
      PROVE /\ \A i, j \in Statuses(c) : link[c].answer[i] = link[c].answer[j]
            /\ \A i \in Statuses(c) : i <= 2
            /\ link[c].at = "closed" /\ link[c].request.method # "DELETE" => Statuses(c) # {}
    BY DEF OneAnswer
  <1> DEFINE a == link[c].answer
  <1>1. a \in Seq(AnswerTokens) /\ (a = <<>> \/ Opened(a))
        /\ (link[c].at = "closed" /\ link[c].request.method # "DELETE" => Opened(a))
    BY LinkAt DEF OInv, Answers
  <1>2. Statuses(c) = {i \in DOMAIN a : a[i].kind = "status"}
    BY DEF Statuses
  <1> HIDE DEF a
  <1>3. a = <<>> => Statuses(c) = {}
    BY <1>2
  <1>4. Opened(a) => /\ \A i, j \in Statuses(c) : a[i] = a[j]
                     /\ \A i \in Statuses(c) : i <= 2
    BY <1>2 DEF Opened
  <1>5. Opened(a) => Statuses(c) # {}
    <2> SUFFICES ASSUME Opened(a) PROVE 1 \in Statuses(c)
      OBVIOUS
    <2>1. Len(a) \in Nat /\ DOMAIN a = 1 .. Len(a) /\ Len(a) # 0
      BY <1>1, EmptySeq, LenProperties DEF Opened
    <2> QED
      BY <1>2, <2>1 DEF Opened
  <1> QED
    BY <1>1, <1>3, <1>4, <1>5 DEF a

\* Every connection gets one status line first, twice the same when the script is
\* started (execute_cgi and its child both send one), never two different ones,
\* and none is closed unanswered but after a DELETE.  So it is for any clients,
\* requests, files and scripts, and whichever send, pipe, fork or popen fails.
THEOREM OneAnswerAlways == BrowserSpec => []OneAnswer
  BY OInit, OStep, OInvGives, PTL DEF BrowserSpec

(***************************************************************************)
(* The browser.                                                            *)
(***************************************************************************)
\* Every connection it has used is taken.
Used ==
  /\ browser \in [at : {"ready", "waiting", "crashed"}, on : Clients \cup {Nobody},
                  uses : SUBSET Clients]
  /\ buffer \in Seq(AnswerTokens)
  /\ page = [c \in Clients |-> page[c]]
  /\ \A c \in browser.uses : link[c].at # "new"
  /\ browser.at # "ready" => browser.on \in browser.uses

\* What the page shows, and what the browser found when it crashed.
Pages ==
  /\ \A c \in Clients : page[c] # NoPage =>
       /\ c \in browser.uses /\ Ended(c)
       /\ Reset(c) \/ page[c] = SubSeq(link[c].answer, FirstEnd(link[c].answer) + 1,
                                       Len(link[c].answer))
  /\ browser.at = "crashed" =>
       /\ Ended(browser.on)
       /\ Ends(link[browser.on].answer) = {} \/ Reset(browser.on)

PInv == OInv /\ Used /\ Pages

\* The end of the header that the browser finds.
LEMMA FirstIsFirst ==
  ASSUME NEW data, DOMAIN data \subseteq Nat, Ends(data) # {}
  PROVE  FirstEnd(data) \in Ends(data) /\ \A j \in Ends(data) : FirstEnd(data) <= j
  <1>1. \E i \in Ends(data) : \A j \in Ends(data) : i <= j
    BY Least DEF Ends
  <1> QED
    BY <1>1 DEF FirstEnd

\* An answer at the start of data_buf, and what an earlier one left behind it.
LEMMA Received ==
  ASSUME NEW answer \in Seq(AnswerTokens), NEW old \in Seq(AnswerTokens),
         NEW n \in 0 .. Len(answer)
  PROVE  LET data == SubSeq(answer, 1, n) \o SubSeq(old, n + 1, Len(old))
         IN  /\ data \in Seq(AnswerTokens) /\ n <= Len(data)
             /\ \A i \in 1 .. n : data[i] = answer[i]
  <1> DEFINE first == SubSeq(answer, 1, n)
             m == Len(old)
             rest == SubSeq(old, n + 1, m)
  <1>1. /\ Len(answer) \in Nat /\ \A i \in 1 .. Len(answer) : answer[i] \in AnswerTokens
        /\ m \in Nat /\ \A i \in 1 .. m : old[i] \in AnswerTokens
    BY LenProperties
  <1> HIDE DEF m
  <1>2. /\ first \in Seq(AnswerTokens) /\ Len(first) = n
        /\ \A i \in 1 .. n : first[i] = answer[i]
    <2>1. \A i \in 1 .. n : answer[i] \in AnswerTokens
      BY <1>1
    <2>2. /\ first \in Seq(AnswerTokens)
          /\ Len(first) = IF 1 <= n THEN n - 1 + 1 ELSE 0
          /\ \A i \in 1 .. n - 1 + 1 : first[i] = answer[1 + i - 1]
      BY <2>1, SubSeqProperties
    <2> HIDE DEF first
    <2> QED
      BY <2>2
  <1>3. rest \in Seq(AnswerTokens)
    <2>1. \A i \in n + 1 .. m : old[i] \in AnswerTokens
      BY <1>1
    <2> QED
      BY <1>1, <2>1, SubSeqProperties
  <1> HIDE DEF first, rest
  <1>4. /\ first \o rest \in Seq(AnswerTokens) /\ Len(first \o rest) = n + Len(rest)
        /\ \A i \in 1 .. n : (first \o rest)[i] = first[i]
    <2>1. /\ first \o rest \in Seq(AnswerTokens) /\ Len(first \o rest) = Len(first) + Len(rest)
          /\ \A i \in 1 .. Len(first) + Len(rest) :
               (first \o rest)[i] = IF i <= Len(first) THEN first[i] ELSE rest[i - Len(first)]
      BY <1>2, <1>3, ConcatProperties
    <2>2. Len(rest) \in Nat
      BY <1>3, LenProperties
    <2> QED
      BY <1>2, <2>1, <2>2
  <1>5. n <= Len(first \o rest)
    BY <1>3, <1>4, LenProperties
  <1> QED
    BY <1>2, <1>4, <1>5 DEF first, rest, m

\* Without a reset the end of the header in data_buf is that of the answer.
LEMMA SameEnd ==
  ASSUME NEW answer \in Seq(AnswerTokens), NEW data \in Seq(AnswerTokens),
         Len(answer) <= Len(data), \A i \in 1 .. Len(answer) : data[i] = answer[i]
  PROVE  /\ Ends(data) # {} /\ FirstEnd(data) <= Len(answer) =>
              SubSeq(data, FirstEnd(data) + 1, Len(answer)) =
                SubSeq(answer, FirstEnd(answer) + 1, Len(answer))
         /\ ~ (Ends(data) # {} /\ FirstEnd(data) <= Len(answer)) => Ends(answer) = {}
  <1> DEFINE n == Len(answer)
             k == FirstEnd(data)
  <1>1. /\ n \in Nat /\ DOMAIN answer = 1 .. n /\ DOMAIN data = 1 .. Len(data)
        /\ Len(data) \in Nat /\ n <= Len(data)
        /\ \A i \in 1 .. n : data[i] = answer[i] /\ answer[i] \in AnswerTokens
    BY LenProperties
  <1> HIDE DEF n
  <1>2. /\ Ends(data) \subseteq 1 .. Len(data) /\ Ends(answer) \subseteq 1 .. n
        /\ \A i \in 1 .. n : i \in Ends(data) <=> i \in Ends(answer)
    BY <1>1 DEF Ends
  <1>3. Ends(data) # {} => k \in Ends(data) /\ \A j \in Ends(data) : k <= j
    BY <1>1, FirstIsFirst
  <1> HIDE DEF k
  <1>4. ASSUME Ends(data) # {}, k <= n PROVE FirstEnd(answer) = k
    <2>1. k \in Ends(answer) /\ \A j \in Ends(answer) : k <= j
      BY <1>1, <1>2, <1>3, <1>4
    <2>2. FirstEnd(answer) \in Ends(answer) /\ \A j \in Ends(answer) : FirstEnd(answer) <= j
      BY <1>1, <2>1, FirstIsFirst
    <2>3. FirstEnd(answer) <= k /\ k <= FirstEnd(answer)
      BY <2>1, <2>2
    <2>4. FirstEnd(answer) \in Int /\ k \in Int
      BY <1>1, <1>2, <2>1, <2>2
    <2> QED
      BY <2>3, <2>4
  <1>5. ASSUME k \in 1 .. n PROVE SubSeq(data, k + 1, n) = SubSeq(answer, k + 1, n)
    <2> DEFINE a == SubSeq(data, k + 1, n)
               b == SubSeq(answer, k + 1, n)
               l == IF k + 1 <= n THEN n - (k + 1) + 1 ELSE 0
    <2>1. /\ \A i \in k + 1 .. n : data[i] \in AnswerTokens /\ answer[i] \in AnswerTokens
          /\ \A i \in 1 .. n - (k + 1) + 1 : k + 1 + i - 1 \in 1 .. n
      BY <1>1, <1>5
    <2>2. /\ a \in Seq(AnswerTokens) /\ Len(a) = l
          /\ \A i \in 1 .. n - (k + 1) + 1 : a[i] = data[k + 1 + i - 1]
      BY <1>1, <1>5, <2>1, SubSeqProperties
    <2>3. /\ b \in Seq(AnswerTokens) /\ Len(b) = l
          /\ \A i \in 1 .. n - (k + 1) + 1 : b[i] = answer[k + 1 + i - 1]
      BY <1>1, <1>5, <2>1, SubSeqProperties
    <2> HIDE DEF a, b
    <2>4. \A i \in 1 .. l : a[i] = b[i]
      BY <1>1, <1>5, <2>1, <2>2, <2>3
    <2> QED
      BY <2>2, <2>3, <2>4, SeqEqual DEF a, b
  <1>6. Ends(data) # {} /\ k <= n => k \in 1 .. n
    BY <1>1, <1>2, <1>3
  <1>7. ASSUME ~ (Ends(data) # {} /\ k <= n) PROVE Ends(answer) = {}
    <2> SUFFICES ASSUME NEW i \in Ends(answer) PROVE FALSE
      OBVIOUS
    <2>1. i \in Ends(data) /\ i <= n
      BY <1>1, <1>2
    <2> QED
      BY <1>1, <1>2, <1>3, <1>7, <2>1
  <1> QED
    BY <1>4, <1>5, <1>6, <1>7 DEF n, k

(***************************************************************************)
(* An ended connection stays as it is.                                     *)
(***************************************************************************)
LEMMA ServerTouches ==
  ASSUME OInv, Process, NEW c \in Clients, link[c].at = "closed"
  PROVE  link'[c] = link[c]
  <1>1. \/ link' = link
        \/ \E d \in Clients : \E r :
             link[d].at # "closed" /\ link' = [link EXCEPT ![d] = r]
    <2>1. ASSUME NEW d \in Clients, Accept(d)
          PROVE  \E r : link[d].at # "closed" /\ link' = [link EXCEPT ![d] = r]
      <3>1. link[d].at = "queued" /\ \E r : link' = [link EXCEPT ![d] = r]
        BY <2>1 DEF Accept, OInv, Types
      <3> QED
        BY <3>1
    <2>2. ASSUME server.at # "accept", \E r : link' = [link EXCEPT ![server.client] = r]
          PROVE  \E d \in Clients : \E r : link[d].at # "closed" /\ link' = [link EXCEPT ![d] = r]
      <3>1. server.client \in Clients /\ link[server.client].at # "closed"
        BY <2>2, BusyClient DEF OInv
      <3> QED
        BY <2>2, <3>1
    <2>3. ASSUME TakeLine, server.at # "accept"
          PROVE  \E r : link' = [link EXCEPT ![server.client] = r]
      BY <2>3, BusyClient DEF TakeLine, me, OInv, Types
    <2>4. ASSUME NEW t, NEW next, Send(t, next), server.at # "accept"
          PROVE  \E r : link' = [link EXCEPT ![server.client] = r]
      BY <2>4, BusyClient DEF Send, me, OInv, Types
    <2>5. CASE \E d \in Clients : Accept(d)
      BY <2>1, <2>5
    <2>6. CASE Route \/ DiscardLine \/ PostLine
      BY <2>2, <2>3, <2>6 DEF Route, DiscardLine, PostLine
    <2>7. CASE \/ NotFound \/ BadRequest \/ CannotExecute \/ ServeFile
               \/ Fork \/ Unimplemented \/ Relay
      <3>1. server.at # "accept" /\ \E t, next : Send(t, next)
        BY <2>7 DEF NotFound, BadRequest, CannotExecute, ServeFile, Fork, Unimplemented, Relay
      <3> QED
        BY <2>2, <2>4, <3>1
    <2>8. CASE FeedTake \/ Close
      <3>1. server.at # "accept"
        BY <2>8 DEF FeedTake, Close
      <3>2. \E r : link' = [link EXCEPT ![server.client] = r]
        BY <2>8, <3>1, BusyClient, ZenonT(40) DEF FeedTake, Close, me, OInv, Types
      <3> QED
        BY <2>2, <3>1, <3>2
    <2>9. CASE FeedWrite \/ FeedEnd \/ RelayEnd
      BY <2>9 DEF FeedWrite, FeedEnd, RelayEnd
    <2> QED
      BY <2>5, <2>6, <2>7, <2>8, <2>9 DEF Process
  <1>2. ASSUME NEW d \in Clients, NEW r, link[d].at # "closed", link' = [link EXCEPT ![d] = r]
        PROVE  link'[c] = link[c]
    <2>1. d # c
      BY <1>2
    <2> QED
      BY <1>2, <2>1 DEF OInv, Types
  <1> QED
    BY <1>1, <1>2

LEMMA ScriptTouches ==
  ASSUME OInv, Script, NEW c \in Clients, link[c].at = "closed"
  PROVE  link'[c] = link[c]
  <1>1. CASE ScriptStart
    <2>1. server.at # "accept"
      BY <1>1 DEF ScriptStart, OInv, Child
    <2>2. server.client \in Clients /\ server.client # c
      BY <2>1, BusyClient DEF OInv
    <2>3. \E r : link' = [link EXCEPT ![server.client] = r]
      BY <1>1, <2>2 DEF ScriptStart, me, OInv, Types
    <2> QED
      BY <2>2, <2>3 DEF OInv, Types
  <1>2. CASE ScriptRead \/ ScriptWrite \/ ScriptEnd
    BY <1>2 DEF ScriptRead, ScriptWrite, ScriptEnd
  <1> QED
    BY <1>1, <1>2 DEF Script

\* What clients do leaves the other connections alone, and no client that the
\* browser has taken belongs to another.
LEMMA OutsideTouches ==
  ASSUME OInv, Used, NEW c \in browser.uses,
         Others \/ \E d \in Clients, r \in Buttons : Press(d, r)
  PROVE  /\ link'[c] = link[c] /\ UNCHANGED <<server, script>>
         /\ \A d \in Clients : link[d].at # "new" => link'[d].at # "new"
  <1>1. PICK d \in Clients :
          /\ d \notin browser.uses \/ link[d].at = "new"
          /\ Surroundings(d) \/ \E r \in Buttons : Press(d, r)
    BY DEF Others, Press
  <1>2. c # d /\ c \in Clients
    BY <1>1 DEF Used
  <1>3. /\ UNCHANGED <<server, script>>
        /\ \E r : link' = [link EXCEPT ![d] = r] /\ (link[d].at # "new" => r.at # "new")
    <2>1. ASSUME NEW q, Connect(d, q)
          PROVE  /\ UNCHANGED <<server, script>>
                 /\ \E r : link' = [link EXCEPT ![d] = r] /\ (link[d].at # "new" => r.at # "new")
      BY <2>1 DEF Connect, OInv, Types
    <2>2. ASSUME NEW n, ClientSend(d, n)
          PROVE  /\ UNCHANGED <<server, script>>
                 /\ \E r : link' = [link EXCEPT ![d] = r] /\ (link[d].at # "new" => r.at # "new")
      <3>1. PICK x, y : link' = [link EXCEPT ![d].input = x, ![d].unsent = y]
        BY <2>2 DEF ClientSend
      <3>2. link' = [link EXCEPT ![d] = [link[d] EXCEPT !.input = x, !.unsent = y]]
        BY <3>1, ZenonT(40) DEF OInv, Types
      <3>3. [link[d] EXCEPT !.input = x, !.unsent = y].at = link[d].at
        BY LinkAt DEF OInv, LinkRecords
      <3>4. UNCHANGED <<server, script>>
        BY <2>2 DEF ClientSend
      <3> QED
        BY <3>2, <3>3, <3>4
    <2>3. ASSUME ClientClose(d)
          PROVE  /\ UNCHANGED <<server, script>>
                 /\ \E r : link' = [link EXCEPT ![d] = r] /\ (link[d].at # "new" => r.at # "new")
      <3>1. link' = [link EXCEPT ![d] = [link[d] EXCEPT !.ended = TRUE]]
        BY <2>3 DEF ClientClose, OInv, Types
      <3>2. [link[d] EXCEPT !.ended = TRUE].at = link[d].at
        BY LinkAt DEF OInv, LinkRecords
      <3>3. UNCHANGED <<server, script>>
        BY <2>3 DEF ClientClose
      <3> QED
        BY <3>1, <3>2, <3>3
    <2>4. ASSUME NEW q, Press(d, q)
          PROVE  /\ UNCHANGED <<server, script>>
                 /\ \E r : link' = [link EXCEPT ![d] = r] /\ (link[d].at # "new" => r.at # "new")
      <3>1. link[d].at = "new" /\ UNCHANGED <<server, script>>
        BY <2>4 DEF Press
      <3>2. link' = [link EXCEPT ![d] =
                       [link[d] EXCEPT !.at = "queued", !.request = q, !.input = Stream(q)]]
        BY <2>4 DEF Press, OInv, Types
      <3> QED
        BY <3>1, <3>2
    <2> QED
      BY <1>1, <2>1, <2>2, <2>3, <2>4 DEF Surroundings
  <1>4. PICK r : link' = [link EXCEPT ![d] = r] /\ (link[d].at # "new" => r.at # "new")
    BY <1>3
  <1> QED
    BY <1>2, <1>3, <1>4 DEF OInv, Types

LEMMA Frozen ==
  ASSUME OInv, Used, [BrowserNext]_allvars, NEW c \in browser.uses, Ended(c)
  PROVE  link'[c] = link[c] /\ Ended(c)'
  <1>0. c \in Clients
    BY DEF Used
  <1>1. CASE Process
    <2>1. server.at # "dead"
      BY <1>1 DEF Process, Accept, Route, DiscardLine, PostLine, NotFound, BadRequest,
         CannotExecute, ServeFile, Fork, Unimplemented, Relay, Close, FeedTake, FeedWrite,
         FeedEnd, RelayEnd
    <2>2. link[c].at = "closed"
      BY <2>1 DEF Ended
    <2> QED
      BY <1>0, <1>1, <2>2, ServerTouches DEF Ended
  <1>2. CASE Script
    <2>1. script.at \in {"start", "run"}
      BY <1>2 DEF Script, ScriptStart, ScriptRead, ScriptWrite, ScriptEnd
    <2>2. link[c].at = "closed"
      BY <2>1 DEF Ended
    <2> QED
      BY <1>0, <1>2, <2>2, ScriptTouches DEF Ended
  <1>3. CASE Others \/ \E d \in Clients, r \in Buttons : Press(d, r)
    BY <1>3, OutsideTouches DEF Ended
  <1>4. CASE UNCHANGED vars
    BY <1>4 DEF Ended, vars
  <1> QED
    BY <1>1, <1>2, <1>3, <1>4 DEF BrowserNext, BrowserStep, Receive, allvars

LEMMA OtherField ==
  ASSUME OInv, server.at # "accept",
         \/ \E x : link' = [link EXCEPT ![me].answer = x]
         \/ \E x : link' = [link EXCEPT ![me].input = x]
  PROVE  \A c \in Clients : link'[c].at = link[c].at
  <1>1. server.client \in Clients
    BY BusyClient DEF OInv
  <1>2. \E r : /\ link' = [link EXCEPT ![server.client] = r]
               /\ r.at = link[server.client].at
    <2>1. \A x : /\ [link[server.client] EXCEPT !.answer = x].at = link[server.client].at
                 /\ [link[server.client] EXCEPT !.input = x].at = link[server.client].at
      BY <1>1, LinkAt DEF OInv, LinkRecords
    <2>2. ASSUME NEW x, link' = [link EXCEPT ![me].answer = x]
          PROVE  \E r : /\ link' = [link EXCEPT ![server.client] = r]
                        /\ r.at = link[server.client].at
      <3>1. link' = [link EXCEPT ![server.client] = [link[server.client] EXCEPT !.answer = x]]
        BY <1>1, <2>2 DEF me, OInv, Types
      <3> QED
        BY <2>1, <3>1
    <2>3. ASSUME NEW x, link' = [link EXCEPT ![me].input = x]
          PROVE  \E r : /\ link' = [link EXCEPT ![server.client] = r]
                        /\ r.at = link[server.client].at
      <3>1. link' = [link EXCEPT ![server.client] = [link[server.client] EXCEPT !.input = x]]
        BY <1>1, <2>3 DEF me, OInv, Types
      <3> QED
        BY <2>1, <3>1
    <2> QED
      BY <2>2, <2>3
  <1> QED
    BY <1>1, <1>2 DEF OInv, Types

\* No step makes a connection new again.
LEMMA Taken ==
  ASSUME OInv, Used, [BrowserNext]_allvars, NEW c \in browser.uses
  PROVE  link'[c].at # "new"
  <1>0. c \in Clients /\ link[c].at # "new"
    BY DEF Used
  <1>1. CASE Process
    <2>1. CASE \E d \in Clients : Accept(d)
      <3>1. PICK d \in Clients : link' = [link EXCEPT ![d] = [link[d] EXCEPT !.at = "served"]]
        BY <2>1 DEF Accept, OInv, Types
      <3>2. [link[d] EXCEPT !.at = "served"].at = "served"
        BY LinkAt DEF OInv, LinkRecords
      <3> QED
        BY <1>0, <3>1, <3>2 DEF OInv, Types
    <2>2. CASE \/ Route \/ DiscardLine \/ PostLine \/ FeedTake
               \/ NotFound \/ BadRequest \/ CannotExecute \/ ServeFile \/ Fork
               \/ Unimplemented \/ Relay
      <3>1. server.at # "accept"
        BY <2>2 DEF Route, DiscardLine, PostLine, FeedTake, NotFound, BadRequest, CannotExecute,
           ServeFile, Fork, Unimplemented, Relay
      <3>2. \/ \E x : link' = [link EXCEPT ![me].answer = x]
            \/ \E x : link' = [link EXCEPT ![me].input = x]
        <4>1. CASE TakeLine
          BY <4>1 DEF TakeLine
        <4>2. CASE \E t, next : Send(t, next)
          BY <4>2 DEF Send
        <4>3. CASE FeedTake
          BY <4>3 DEF FeedTake
        <4> QED
          BY <2>2, <4>1, <4>2, <4>3 DEF Route, DiscardLine, PostLine, NotFound, BadRequest,
             CannotExecute, ServeFile, Fork, Unimplemented, Relay
      <3> QED
        BY <1>0, <3>1, <3>2, OtherField
    <2>3. CASE Close
      <3>1. server.client \in Clients
        BY <2>3, BusyClient DEF Close, OInv
      <3>2. \E x : link' = [link EXCEPT ![server.client] =
                              [link[server.client] EXCEPT !.at = "closed", !.reset = x]]
        BY <2>3, <3>1 DEF Close, me, OInv, Types
      <3>3. \A x : [link[server.client] EXCEPT !.at = "closed", !.reset = x].at = "closed"
        BY <3>1, LinkAt DEF OInv, LinkRecords
      <3> QED
        BY <1>0, <3>1, <3>2, <3>3 DEF OInv, Types
    <2>4. CASE FeedWrite \/ FeedEnd \/ RelayEnd
      BY <1>0, <2>4 DEF FeedWrite, FeedEnd, RelayEnd
    <2> QED
      BY <1>1, <2>1, <2>2, <2>3, <2>4 DEF Process
  <1>2. CASE ScriptStart
    <2>1. server.at # "accept"
      BY <1>2 DEF ScriptStart, OInv, Child
    <2>2. \E x : link' = [link EXCEPT ![me].answer = x]
      BY <1>2 DEF ScriptStart
    <2> QED
      BY <1>0, <2>1, <2>2, OtherField
  <1>3. CASE ScriptRead \/ ScriptWrite \/ ScriptEnd \/ UNCHANGED vars
    BY <1>0, <1>3 DEF ScriptRead, ScriptWrite, ScriptEnd, vars
  <1>4. CASE Others \/ \E d \in Clients, r \in Buttons : Press(d, r)
    BY <1>0, <1>4, OutsideTouches
  <1> QED
    BY <1>1, <1>2, <1>3, <1>4 DEF BrowserNext, BrowserStep, Receive, allvars, Script

(***************************************************************************)
(* The steps of the browser.                                               *)
(***************************************************************************)
\* What it has seen of a connection stays true while it does nothing about it.
LEMMA SeenStays ==
  ASSUME PInv, [BrowserNext]_allvars, NEW c \in browser.uses, Ended(c)
  PROVE  /\ Ended(c)' /\ (Reset(c)' <=> Reset(c)) /\ link'[c] = link[c]
  BY Frozen DEF PInv, Reset

LEMMA QuietView ==
  ASSUME PInv, [BrowserNext]_allvars, UNCHANGED view
  PROVE  Used' /\ Pages'
  <1>1. UNCHANGED <<browser, buffer, page>>
    BY DEF view
  <1>2. \A c \in browser.uses : link'[c].at # "new"
    BY Taken DEF PInv
  <1>3. Used'
    BY <1>1, <1>2 DEF PInv, Used
  <1>4. \A c \in browser.uses : Ended(c) =>
          Ended(c)' /\ (Reset(c)' <=> Reset(c)) /\ link'[c] = link[c]
    BY SeenStays
  <1>5. ASSUME NEW c \in Clients, page[c] # NoPage
        PROVE  /\ c \in browser.uses /\ Ended(c)'
               /\ Reset(c)' \/ page[c] = SubSeq(link'[c].answer, FirstEnd(link'[c].answer) + 1,
                                                Len(link'[c].answer))
    BY <1>4, <1>5 DEF PInv, Pages
  <1>6. ASSUME browser.at = "crashed"
        PROVE  /\ Ended(browser.on)'
               /\ Ends(link'[browser.on].answer) = {} \/ Reset(browser.on)'
    <2>1. browser.on \in browser.uses /\ Ended(browser.on)
          /\ (Ends(link[browser.on].answer) = {} \/ Reset(browser.on))
      BY <1>6 DEF PInv, Pages, Used
    <2> QED
      BY <1>1, <1>4, <2>1 DEF Ended, Reset
  <1> QED
    BY <1>1, <1>3, <1>5, <1>6 DEF Pages, Ended, Reset

LEMMA PressView ==
  ASSUME PInv, NEW c \in Clients, NEW r \in Buttons, Press(c, r)
  PROVE  Used' /\ Pages'
  <1> DEFINE at == IF r.method = "DELETE" THEN "ready" ELSE "waiting"
             uses == browser.uses \cup {c}
  <1>0. [BrowserNext]_allvars
    BY DEF BrowserNext, BrowserStep
  <1>1. /\ browser' = [at |-> at, on |-> c, uses |-> uses] /\ UNCHANGED <<buffer, page>>
        /\ at \in {"ready", "waiting"} /\ link[c].at = "new"
        /\ link' = [link EXCEPT ![c] = [link[c] EXCEPT !.at = "queued", !.request = r,
                                                       !.input = Stream(r)]]
    BY DEF Press, PInv, OInv, Types
  <1>2. link'[c].at # "new"
    <2>1. \A x : [link[c] EXCEPT !.at = "queued", !.request = r, !.input = x].at = "queued"
      BY LinkAt DEF PInv, OInv, LinkRecords
    <2> QED
      BY <1>1, <2>1 DEF PInv, OInv, Types
  <1>3. \A d \in browser.uses : link'[d].at # "new"
    BY <1>0, Taken DEF PInv
  <1> HIDE DEF at
  <1>4. browser.uses \subseteq Clients
    BY DEF PInv, Used
  <1>5. browser'.at = at /\ browser'.on = c /\ browser'.uses = uses
    BY <1>1
  <1>6. Used'
    <2>1. browser' \in [at : {"ready", "waiting", "crashed"}, on : Clients \cup {Nobody},
                        uses : SUBSET Clients]
      BY <1>1, <1>4
    <2>2. \A d \in browser'.uses : link'[d].at # "new"
      BY <1>2, <1>3, <1>5
    <2> QED
      BY <1>1, <1>5, <2>1, <2>2 DEF PInv, Used
  <1>7. \A d \in browser.uses : Ended(d) =>
          Ended(d)' /\ (Reset(d)' <=> Reset(d)) /\ link'[d] = link[d]
    BY <1>0, SeenStays
  <1>8. ASSUME NEW d \in Clients, page[d] # NoPage
        PROVE  /\ d \in browser'.uses /\ Ended(d)'
               /\ Reset(d)' \/ page[d] = SubSeq(link'[d].answer, FirstEnd(link'[d].answer) + 1,
                                                Len(link'[d].answer))
    BY <1>5, <1>7, <1>8 DEF PInv, Pages
  <1> QED
    BY <1>1, <1>5, <1>6, <1>8 DEF Pages, Ended, Reset

LEMMA ReceiveView ==
  ASSUME PInv, Receive
  PROVE  Used' /\ Pages'
  <1> DEFINE c == browser.on
             answer == link[c].answer
             m == Len(answer)
  <1>1. /\ browser.at = "waiting" /\ UNCHANGED vars /\ Ended(c)
        /\ c \in browser.uses /\ c \in Clients
        /\ answer \in Seq(AnswerTokens) /\ buffer \in Seq(AnswerTokens) /\ m \in Nat
    <2>1. browser.at = "waiting" /\ UNCHANGED vars /\ Ended(c)
      BY DEF Receive
    <2>2. c \in browser.uses /\ c \in Clients /\ buffer \in Seq(AnswerTokens)
      BY <2>1 DEF PInv, Used
    <2>3. answer \in Seq(AnswerTokens)
      BY <2>2, LinkAt DEF PInv, OInv
    <2> QED
      BY <2>1, <2>2, <2>3, LenProperties
  <1>2. PICK n \in IF Reset(c) THEN 0 .. m ELSE {m} :
          LET data == SubSeq(answer, 1, n) \o SubSeq(buffer, n + 1, Len(buffer))
              size == IF Reset(c) THEN n - 1 ELSE n
          IN  /\ buffer' = data
              /\ IF Ends(data) # {} /\ FirstEnd(data) <= size
                   THEN /\ page' = [page EXCEPT ![c] = SubSeq(data, FirstEnd(data) + 1, size)]
                        /\ browser' = [browser EXCEPT !.at = "ready"]
                   ELSE /\ browser' = [browser EXCEPT !.at = "crashed"]
                        /\ UNCHANGED page
    BY DEF Receive
  <1> DEFINE data == SubSeq(answer, 1, n) \o SubSeq(buffer, n + 1, Len(buffer))
             size == IF Reset(c) THEN n - 1 ELSE n
             saved == SubSeq(data, FirstEnd(data) + 1, size)
  <1>3. n \in 0 .. m /\ (~ Reset(c) => n = m /\ size = m)
    BY <1>1, <1>2
  <1>4. /\ data \in Seq(AnswerTokens) /\ n <= Len(data)
        /\ \A i \in 1 .. n : data[i] = answer[i]
    BY <1>1, <1>3, Received
  <1>5. /\ buffer' = data
        /\ \/ /\ Ends(data) # {} /\ FirstEnd(data) <= size
              /\ page' = [page EXCEPT ![c] = saved]
              /\ browser' = [browser EXCEPT !.at = "ready"]
           \/ /\ ~ (Ends(data) # {} /\ FirstEnd(data) <= size)
              /\ browser' = [browser EXCEPT !.at = "crashed"]
              /\ UNCHANGED page
    BY <1>2
  <1> HIDE DEF data
  <1>6. /\ link' = link
        /\ \A d : (Ended(d)' <=> Ended(d)) /\ (Reset(d)' <=> Reset(d))
    BY <1>1 DEF vars, Ended, Reset
  <1>7. ASSUME ~ Reset(c)
        PROVE  /\ Ends(data) # {} /\ FirstEnd(data) <= size =>
                    saved = SubSeq(answer, FirstEnd(answer) + 1, m)
               /\ ~ (Ends(data) # {} /\ FirstEnd(data) <= size) => Ends(answer) = {}
    <2>1. size = m /\ m <= Len(data) /\ \A i \in 1 .. m : data[i] = answer[i]
      BY <1>3, <1>4, <1>7
    <2> HIDE DEF answer, size
    <2> QED
      BY <1>1, <1>4, <2>1, SameEnd
  <1> HIDE DEF saved, size
  <1>8. /\ browser'.on = c /\ browser'.uses = browser.uses
        /\ browser' \in [at : {"ready", "waiting", "crashed"}, on : Clients \cup {Nobody},
                         uses : SUBSET Clients]
    BY <1>5 DEF PInv, Used
  <1>9. /\ page' = [d \in Clients |-> page'[d]]
        /\ \A d \in Clients \ {c} : page'[d] = page[d]
    BY <1>5 DEF PInv, Used
  <1>10. Used'
    BY <1>1, <1>4, <1>5, <1>6, <1>8, <1>9 DEF PInv, Used
  <1>11. CASE /\ Ends(data) # {} /\ FirstEnd(data) <= size
              /\ page' = [page EXCEPT ![c] = saved]
              /\ browser' = [browser EXCEPT !.at = "ready"]
    <2>1. browser'.at = "ready" /\ page'[c] = saved
      BY <1>1, <1>11 DEF PInv, Used
    <2>2. ASSUME NEW d \in Clients, page'[d] # NoPage
          PROVE  /\ d \in browser.uses /\ Ended(d)
                 /\ Reset(d) \/ page'[d] = SubSeq(link[d].answer, FirstEnd(link[d].answer) + 1,
                                                  Len(link[d].answer))
      BY <1>1, <1>7, <1>9, <1>11, <2>1, <2>2 DEF PInv, Pages
    <2> QED
      BY <1>6, <1>8, <1>10, <2>1, <2>2 DEF Pages
  <1>12. CASE /\ ~ (Ends(data) # {} /\ FirstEnd(data) <= size)
              /\ browser' = [browser EXCEPT !.at = "crashed"]
              /\ UNCHANGED page
    <2>1. Ends(answer) = {} \/ Reset(c)
      BY <1>7, <1>12
    <2>2. \A d \in Clients : page[d] # NoPage =>
            /\ d \in browser.uses /\ Ended(d)
            /\ Reset(d) \/ page[d] = SubSeq(link[d].answer, FirstEnd(link[d].answer) + 1,
                                            Len(link[d].answer))
      BY DEF PInv, Pages
    <2> QED
      BY <1>1, <1>6, <1>8, <1>10, <1>12, <2>1, <2>2 DEF Pages
  <1> QED
    BY <1>5, <1>11, <1>12

LEMMA PInit == BrowserInit => PInv
  <1> SUFFICES ASSUME BrowserInit PROVE PInv
    OBVIOUS
  <1>1. /\ browser = [at |-> "ready", on |-> Nobody, uses |-> {}]
        /\ buffer = <<>> /\ page = [c \in Clients |-> NoPage]
    BY DEF BrowserInit
  <1>2. Used
    BY <1>1, EmptySeq DEF Used
  <1>3. Pages
    BY <1>1 DEF Pages
  <1> QED
    BY <1>2, <1>3, OInit DEF PInv

LEMMA PStep == PInv /\ [BrowserNext]_allvars => PInv'
  <1> SUFFICES ASSUME PInv, [BrowserNext]_allvars PROVE PInv'
    OBVIOUS
  <1>1. OInv'
    BY OStep DEF PInv
  <1>2. CASE UNCHANGED view
    BY <1>1, <1>2, QuietView DEF PInv
  <1>3. CASE \E c \in Clients, r \in Buttons : Press(c, r)
    BY <1>1, <1>3, PressView DEF PInv
  <1>4. CASE Receive
    BY <1>1, <1>4, ReceiveView DEF PInv
  <1> QED
    BY <1>2, <1>3, <1>4 DEF BrowserNext, BrowserStep, allvars

LEMMA PInvGives == PInv => TypeOK /\ PageIsAnswer
  <1> SUFFICES ASSUME PInv PROVE TypeOK /\ PageIsAnswer
    OBVIOUS
  <1>1. ServerTypeOK
    <2>1. \A c \in Clients : /\ link[c].at \in {"new", "queued", "served", "closed"}
                             /\ link[c].request \in Requests
      BY LinkAt DEF PInv, OInv, LinkRecords
    <2>2. server.client \in Clients \cup {Nobody} /\ server.fed \in Nat
      BY DEF PInv, OInv, Types, ServerRecords
    <2> QED
      BY <2>1, <2>2 DEF ServerTypeOK, PInv, OInv, Types
  <1>2. TypeOK
    BY <1>1 DEF TypeOK, PInv, Used
  <1>3. PageIsAnswer
    BY DEF PageIsAnswer, PInv, Pages
  <1> QED
    BY <1>2, <1>3

\* The connections, the pipes, the script, the descriptors and the page keep their
\* types, and neither pipe ever holds more than it can.
THEOREM TypeCorrect == BrowserSpec => []TypeOK
  BY PInit, PStep, PInvGives, PTL DEF BrowserSpec

\* The page shows the body of the answer to the button that was pressed, cut at
\* the first empty line, although main never clears data_buf between two of them,
\* and the browser only crashes on an answer that has no empty line or was reset.
THEOREM PageIsAnswerAlways == BrowserSpec => []PageIsAnswer
  BY PInit, PStep, PInvGives, PTL DEF BrowserSpec

(***************************************************************************)
(* How far the server has read.                                            *)
(***************************************************************************)
\* What is to come of the sequence s after its first p elements.
Follows(rest, s, p) ==
  /\ p \in 0 .. Len(s) /\ Len(rest) = Len(s) - p
  /\ \A i \in 1 .. Len(rest) : rest[i] = s[p + i]

\* The server has read p tokens of the request.
Read(l, p) == Follows(l.input \o l.unsent, Stream(l.request), p)
Lines(l) == Len(l.request.headers)

\* A connection whose client stays, and no line of whose header is split.
Whole(l) ==
  /\ ~ l.ended
  /\ \A i \in DOMAIN l.request.headers : l.request.headers[i] # "full"

\* What of the body the script has or is to get.
Passed == script.took \o stdin \o server.held
Units(s) == \A i \in DOMAIN s : s[i] = Token("body", i)

\* How far it has read where the server is, and what the script has of it.
ReadSoFar(l, at, passed) ==
  Whole(l) =>
    /\ at = "request" => Read(l, 0)
    /\ at = "post" => \E p \in 1 .. Lines(l) + 1 : Read(l, p)
    /\ at = "cgi" => l.request.method # "POST"
    /\ at = "pipes" /\ l.request.method = "POST" => Read(l, Lines(l) + 2)
    /\ at = "feed" => Read(l, Lines(l) + 2 + Len(passed))
    /\ at \in {"feed", "relay", "dead"} => Units(passed)

\* A request in the queue is whole, the pipes are empty before the fork, and the
\* server has read its request as far as where it is asks.
Bodies ==
  /\ \A c \in Clients : link[c].at = "new" => link[c].input = <<>> /\ link[c].unsent = <<>>
  /\ \A c \in Clients : link[c].at = "queued" /\ Whole(link[c]) => Read(link[c], 0)
  /\ server.at \notin {"feed", "relay", "dead", "close"} =>
       script.took = <<>> /\ stdin = <<>> /\ server.held = <<>>
  /\ server.at # "accept" => ReadSoFar(link[server.client], server.at, Passed)

BInv == OInv /\ Bodies

\* Taking one element of the input.
LEMMA FollowsTake ==
  ASSUME NEW S, NEW s \in Seq(S), NEW input \in Seq(S), NEW unsent \in Seq(S), NEW p,
         Follows(input \o unsent, s, p), input # <<>>
  PROVE  /\ p + 1 \in 1 .. Len(s) /\ Head(input) = s[p + 1]
         /\ Follows(Tail(input) \o unsent, s, p + 1)
  <1> DEFINE rest == input \o unsent
             left == Tail(input) \o unsent
             a == Len(input)
             b == Len(unsent)
             m == Len(s)
  <1>1. /\ a \in Nat /\ a >= 1 /\ b \in Nat /\ m \in Nat
        /\ Len(rest) = a + b
        /\ \A i \in 1 .. a + b : rest[i] = IF i <= a THEN input[i] ELSE unsent[i - a]
    BY ConcatProperties, LenProperties, EmptySeq
  <1>2. /\ Tail(input) \in Seq(S) /\ Len(Tail(input)) = a - 1 /\ Head(input) = input[1]
        /\ \A i \in 1 .. a - 1 : Tail(input)[i] = input[i + 1]
    BY <1>1, HeadTailProperties
  <1> DEFINE tail == Tail(input)
  <1>3. /\ Len(left) = a - 1 + b
        /\ \A i \in 1 .. a - 1 + b : left[i] = IF i <= a - 1 THEN tail[i] ELSE unsent[i - (a - 1)]
    <2>1. /\ Len(tail \o unsent) = Len(tail) + Len(unsent)
          /\ \A i \in 1 .. Len(tail) + Len(unsent) :
               (tail \o unsent)[i] = IF i <= Len(tail) THEN tail[i] ELSE unsent[i - Len(tail)]
      BY <1>2, ConcatProperties
    <2> QED
      BY <1>2, <2>1
  <1> HIDE DEF rest, left, a, b, m, tail
  <1>4. /\ p \in 0 .. m /\ a + b = m - p
        /\ \A i \in 1 .. a + b : rest[i] = s[p + i]
    BY <1>1 DEF Follows, rest, m
  <1>5. p + 1 \in 1 .. m /\ input[1] = s[p + 1]
    BY <1>1, <1>4
  <1>6. \A i \in 1 .. a - 1 + b : left[i] = s[p + 1 + i]
    <2> SUFFICES ASSUME NEW i \in 1 .. a - 1 + b PROVE left[i] = s[p + 1 + i]
      OBVIOUS
    <2>1. i + 1 \in 1 .. a + b /\ rest[i + 1] = s[p + (i + 1)] /\ p + (i + 1) = p + 1 + i
      BY <1>1, <1>4
    <2>2. CASE i <= a - 1
      <3>1. left[i] = input[i + 1]
        BY <1>1, <1>2, <1>3, <2>2 DEF tail
      <3>2. rest[i + 1] = input[i + 1]
        BY <1>1, <2>1, <2>2
      <3> QED
        BY <2>1, <3>1, <3>2
    <2>3. CASE ~ (i <= a - 1)
      <3>1. left[i] = unsent[i - (a - 1)] /\ i - (a - 1) = i + 1 - a
        BY <1>1, <1>3, <2>3
      <3>2. rest[i + 1] = unsent[i + 1 - a]
        BY <1>1, <2>1, <2>3
      <3> QED
        BY <2>1, <3>1, <3>2
    <2> QED
      BY <2>2, <2>3
  <1>7. Follows(left, s, p + 1)
    <2>1. p + 1 \in 0 .. m /\ Len(left) = m - (p + 1) /\ Len(left) = a - 1 + b
      BY <1>1, <1>3, <1>4, <1>5
    <2> QED
      BY <1>6, <2>1 DEF Follows, m
  <1> QED
    BY <1>2, <1>5, <1>7 DEF left, m, tail

\* A sequence cut in two.
LEMMA Split ==
  ASSUME NEW S, NEW s \in Seq(S), NEW n \in 1 .. Len(s)
  PROVE  /\ SubSeq(s, 1, n) \in Seq(S) /\ SubSeq(s, n + 1, Len(s)) \in Seq(S)
         /\ SubSeq(s, 1, n) \o SubSeq(s, n + 1, Len(s)) = s
  <1> DEFINE m == Len(s)
             a == SubSeq(s, 1, n)
             b == SubSeq(s, n + 1, m)
             u == a \o b
  <1>1. m \in Nat /\ \A i \in 1 .. m : s[i] \in S
    BY LenProperties
  <1>2. a \in Seq(S) /\ Len(a) = n /\ \A i \in 1 .. n : a[i] = s[i]
    <2>1. /\ a \in Seq(S) /\ Len(a) = IF 1 <= n THEN n - 1 + 1 ELSE 0
          /\ \A i \in 1 .. n - 1 + 1 : a[i] = s[1 + i - 1]
      BY <1>1, SubSeqProperties
    <2> HIDE DEF a
    <2> QED
      BY <1>1, <2>1
  <1>3. b \in Seq(S) /\ Len(b) = m - n /\ \A i \in 1 .. m - n : b[i] = s[n + i]
    <2>0. m \in Int /\ n + 1 \in Int /\ \A i \in n + 1 .. m : s[i] \in S
      BY <1>1
    <2>1. /\ b \in Seq(S) /\ Len(b) = IF n + 1 <= m THEN m - (n + 1) + 1 ELSE 0
          /\ \A i \in 1 .. m - (n + 1) + 1 : b[i] = s[n + 1 + i - 1]
      BY <2>0, SubSeqProperties
    <2> HIDE DEF b, m
    <2>2. Len(b) = m - n
      BY <1>1, <2>1 DEF m
    <2>3. \A i \in 1 .. m - n : n + 1 + i - 1 = n + i /\ i \in 1 .. m - (n + 1) + 1
      BY <1>1
    <2> QED
      BY <2>1, <2>2, <2>3
  <1> HIDE DEF a, b, m
  <1>4. /\ u \in Seq(S) /\ Len(u) = Len(a) + Len(b)
        /\ \A i \in 1 .. Len(a) + Len(b) : u[i] = IF i <= Len(a) THEN a[i] ELSE b[i - Len(a)]
    BY <1>2, <1>3, ConcatProperties
  <1> HIDE DEF u
  <1>5. Len(u) = m /\ n \in 1 .. m
    BY <1>1, <1>2, <1>3, <1>4 DEF m
  <1>6. \A i \in 1 .. m : u[i] = s[i]
    <2> SUFFICES ASSUME NEW i \in 1 .. m PROVE u[i] = s[i]
      OBVIOUS
    <2>1. CASE i <= n
      BY <1>1, <1>2, <1>3, <1>4, <1>5, <2>1
    <2>2. CASE ~ (i <= n)
      <3>1. i - n \in 1 .. m - n /\ n + (i - n) = i
        BY <1>1, <1>5, <2>2
      <3>2. u[i] = b[i - n]
        BY <1>1, <1>2, <1>3, <1>4, <1>5, <2>2
      <3> QED
        BY <1>3, <3>1, <3>2
    <2> QED
      BY <2>1, <2>2
  <1>7. u = s
    BY <1>4, <1>5, <1>6, SeqEqual DEF m
  <1> QED
    BY <1>2, <1>3, <1>7 DEF a, b, u, m

\* The lines of a request, the empty line and the body.
LEMMA StreamIs ==
  ASSUME NEW r \in Requests
  PROVE  LET s == Stream(r)
             h == Len(r.headers)
         IN  /\ s \in Seq(Tokens) /\ h \in Nat /\ Len(s) \in Nat /\ h + 2 <= Len(s)
             /\ s[1].kind = "request" /\ s[h + 2].kind = "empty"
             /\ \A i \in 1 .. h : s[i + 1].kind = r.headers[i]
             /\ \A i \in 1 .. Len(s) - (h + 2) : s[h + 2 + i] = Token("body", i)
  <1> DEFINE h == Len(r.headers)
             n == IF r.body < 0 THEN 0 ELSE r.body
             first == <<Token("request", 0)>>
             headers == [i \in DOMAIN r.headers |-> Token(r.headers[i], 0)]
             empty == <<Token("empty", 0)>>
             body == BodyUnits(r.body)
             two == first \o headers
             three == two \o empty
             s == three \o body
  <1>1. /\ first \in Seq(Tokens) /\ empty \in Seq(Tokens) /\ Len(first) = 1 /\ Len(empty) = 1
        /\ first[1].kind = "request" /\ empty[1].kind = "empty"
    BY DEF Token, Tokens
  <1>2. /\ headers \in Seq(Tokens) /\ Len(headers) = h /\ h \in Nat
        /\ \A i \in 1 .. h : headers[i].kind = r.headers[i]
    <2>1. r.headers \in Seq(LineKinds)
      BY HttpdAssumption DEF LineKinds
    <2>2. h \in Nat /\ DOMAIN r.headers = 1 .. h /\ \A i \in 1 .. h : r.headers[i] \in LineKinds
      BY <2>1, LenProperties
    <2> HIDE DEF h
    <2>3. \A i \in 1 .. h : /\ Token(r.headers[i], 0) \in Tokens
                            /\ Token(r.headers[i], 0).kind = r.headers[i]
      BY <2>2 DEF Token, Tokens
    <2>4. headers \in [1 .. h -> Tokens] /\ \A i \in 1 .. h : headers[i].kind = r.headers[i]
      BY <2>2, <2>3
    <2>5. headers \in Seq(Tokens) /\ DOMAIN headers = 1 .. h
      BY <2>2, <2>4, SeqDef
    <2> HIDE DEF headers
    <2>6. Len(headers) = h
      BY <2>2, <2>5, LenProperties
    <2> QED
      BY <2>2, <2>4, <2>5, <2>6
  <1>3. /\ body \in Seq(Tokens) /\ Len(body) = n /\ n \in Nat
        /\ \A i \in 1 .. n : body[i] = Token("body", i)
    <2>1. r.body \in Int /\ body \in Seq(Tokens)
      BY BodyUnitsType, HttpdAssumption
    <2>2. n \in Nat /\ 1 .. n = 1 .. r.body
      BY <2>1
    <2> HIDE DEF n
    <2>3. DOMAIN body = 1 .. n /\ \A i \in 1 .. n : body[i] = Token("body", i)
      BY <2>2 DEF BodyUnits
    <2> HIDE DEF body
    <2>4. Len(body) = n
      BY <2>1, <2>2, <2>3, LenProperties
    <2> QED
      BY <2>1, <2>2, <2>3, <2>4
  <1>4. Stream(r) = s
    BY DEF Stream
  <1> HIDE DEF h, n, first, headers, empty, body
  <1>5. /\ two \in Seq(Tokens) /\ Len(two) = 1 + h /\ two[1].kind = "request"
        /\ \A i \in 1 .. h : two[i + 1].kind = r.headers[i]
    <2>1. /\ two \in Seq(Tokens) /\ Len(two) = Len(first) + Len(headers)
          /\ \A i \in 1 .. Len(first) + Len(headers) :
               two[i] = IF i <= Len(first) THEN first[i] ELSE headers[i - Len(first)]
      BY <1>1, <1>2, ConcatProperties
    <2> HIDE DEF two
    <2>2. \A i \in 1 .. h : two[i + 1] = headers[i]
      <3> SUFFICES ASSUME NEW i \in 1 .. h PROVE two[i + 1] = headers[i]
        OBVIOUS
      <3>1. i + 1 \in 1 .. 1 + h /\ ~ (i + 1 <= 1) /\ i + 1 - 1 = i
        BY <1>2
      <3> QED
        BY <1>1, <1>2, <2>1, <3>1
    <2> QED
      BY <1>1, <1>2, <2>1, <2>2
  <1> HIDE DEF two
  <1>6. /\ three \in Seq(Tokens) /\ Len(three) = h + 2 /\ three[h + 2].kind = "empty"
        /\ \A i \in 1 .. h + 1 : three[i] = two[i]
    <2>1. /\ three \in Seq(Tokens) /\ Len(three) = Len(two) + Len(empty)
          /\ \A i \in 1 .. Len(two) + Len(empty) :
               three[i] = IF i <= Len(two) THEN two[i] ELSE empty[i - Len(two)]
      BY <1>1, <1>5, ConcatProperties
    <2> HIDE DEF three
    <2>2. Len(three) = h + 2 /\ three[h + 2] = empty[1]
      BY <1>1, <1>2, <1>5, <2>1
    <2>3. \A i \in 1 .. h + 1 : three[i] = two[i]
      BY <1>1, <1>2, <1>5, <2>1
    <2> QED
      BY <1>1, <2>1, <2>2, <2>3
  <1> HIDE DEF three
  <1>7. /\ s \in Seq(Tokens) /\ Len(s) = h + 2 + n
        /\ \A i \in 1 .. h + 2 : s[i] = three[i]
        /\ \A i \in 1 .. n : s[h + 2 + i] = body[i]
    <2>1. /\ s \in Seq(Tokens) /\ Len(s) = Len(three) + Len(body)
          /\ \A i \in 1 .. Len(three) + Len(body) :
               s[i] = IF i <= Len(three) THEN three[i] ELSE body[i - Len(three)]
      BY <1>3, <1>6, ConcatProperties
    <2> HIDE DEF s
    <2>2. Len(s) = h + 2 + n /\ \A i \in 1 .. h + 2 : s[i] = three[i]
      BY <1>2, <1>3, <1>6, <2>1
    <2>3. \A i \in 1 .. n : s[h + 2 + i] = body[i]
      <3> SUFFICES ASSUME NEW i \in 1 .. n PROVE s[h + 2 + i] = body[i]
        OBVIOUS
      <3>1. /\ h + 2 + i \in 1 .. h + 2 + n /\ ~ (h + 2 + i <= h + 2)
            /\ h + 2 + i - (h + 2) = i
        BY <1>2, <1>3
      <3> QED
        BY <1>3, <1>6, <2>1, <3>1
    <2> QED
      BY <2>1, <2>2, <2>3
  <1> HIDE DEF s
  <1>8. Len(s) - (h + 2) = n /\ h + 2 <= Len(s) /\ Len(s) \in Nat
    BY <1>2, <1>3, <1>7
  <1>9. s[1].kind = "request" /\ s[h + 2].kind = "empty"
    <2>1. 1 \in 1 .. h + 2 /\ h + 2 \in 1 .. h + 2 /\ 1 \in 1 .. h + 1
      BY <1>2
    <2> QED
      BY <1>5, <1>6, <1>7, <2>1
  <1>10. \A i \in 1 .. h : s[i + 1].kind = r.headers[i]
    <2> SUFFICES ASSUME NEW i \in 1 .. h PROVE s[i + 1].kind = r.headers[i]
      OBVIOUS
    <2>1. i + 1 \in 1 .. h + 2 /\ i + 1 \in 1 .. h + 1
      BY <1>2
    <2> QED
      BY <1>5, <1>6, <1>7, <2>1
  <1>11. \A i \in 1 .. n : s[h + 2 + i] = Token("body", i)
    BY <1>3, <1>7
  <1> QED
    BY <1>2, <1>4, <1>7, <1>8, <1>9, <1>10, <1>11 DEF h

\* The connection m is l but for its answer; with Fed, but for the input too.
Kept(l, m) ==
  /\ m.input = l.input /\ m.unsent = l.unsent /\ m.ended = l.ended
  /\ m.request = l.request /\ m.at = l.at

Fed(l, m, input) ==
  /\ m.input = input /\ m.unsent = l.unsent /\ m.ended = l.ended
  /\ m.request = l.request /\ m.at = l.at

\* What is to be read does not differ.
LEMMA KeptReads ==
  ASSUME NEW l, NEW m, Kept(l, m)
  PROVE  /\ Whole(m) <=> Whole(l)
         /\ Lines(m) = Lines(l)
         /\ \A p : Read(m, p) <=> Read(l, p)
  BY DEF Kept, Whole, Lines, Read

\* Only the input differs.
LEMMA FedReads ==
  ASSUME NEW l, NEW m, NEW input, Fed(l, m, input)
  PROVE  /\ Whole(m) <=> Whole(l)
         /\ Lines(m) = Lines(l)
         /\ \A p : Read(m, p) <=> Follows(input \o l.unsent, Stream(l.request), p)
  BY DEF Fed, Whole, Lines, Read

\* Sending an answer leaves what is to be read alone.
LEMMA AnswerOnly ==
  ASSUME OInv, server.at # "accept", \E x : link' = [link EXCEPT ![me].answer = x]
  PROVE  /\ Kept(link[server.client], link'[server.client])
         /\ \A d \in Clients \ {server.client} : link'[d] = link[d]
  <1>1. server.client \in Clients /\ link[server.client] \in LinkRecords
    BY BusyClient, LinkAt DEF OInv
  <1>2. PICK x : link' = [link EXCEPT ![server.client] = [link[server.client] EXCEPT !.answer = x]]
    BY <1>1 DEF me, OInv, Types
  <1> DEFINE m == [link[server.client] EXCEPT !.answer = x]
  <1>3. Kept(link[server.client], m)
    BY <1>1 DEF Kept, LinkRecords
  <1> HIDE DEF m
  <1>4. link'[server.client] = m /\ \A d \in Clients \ {server.client} : link'[d] = link[d]
    BY <1>1, <1>2 DEF m, OInv, Types
  <1> QED
    BY <1>3, <1>4

\* Reading from one connection leaves the others alone.
LEMMA InputOnly ==
  ASSUME OInv, server.at # "accept", NEW x, link' = [link EXCEPT ![me].input = x]
  PROVE  /\ Fed(link[server.client], link'[server.client], x)
         /\ \A d \in Clients \ {server.client} : link'[d] = link[d]
  <1>1. server.client \in Clients /\ link[server.client] \in LinkRecords
    BY BusyClient, LinkAt DEF OInv
  <1>2. link' = [link EXCEPT ![server.client] = [link[server.client] EXCEPT !.input = x]]
    BY <1>1 DEF me, OInv, Types
  <1> DEFINE m == [link[server.client] EXCEPT !.input = x]
  <1>3. Fed(link[server.client], m, x)
    BY <1>1 DEF Fed, LinkRecords
  <1> HIDE DEF m
  <1>4. link'[server.client] = m /\ \A d \in Clients \ {server.client} : link'[d] = link[d]
    BY <1>1, <1>2 DEF m, OInv, Types
  <1> QED
    BY <1>3, <1>4

\* A step that serves one connection and reads as its next place asks.
LEMMA BodiesStep ==
  ASSUME BInv, server.at # "accept",
         \A d \in Clients \ {server.client} : link'[d] = link[d],
         link'[server.client].at \in {"served", "closed"},
         server'.at \notin {"feed", "relay", "dead", "close"} =>
           script'.took = <<>> /\ stdin' = <<>> /\ server'.held = <<>>,
         server'.at # "accept" =>
           /\ server'.client = server.client
           /\ ReadSoFar(link'[server.client], server'.at, Passed')
  PROVE  Bodies'
  BY DEF BInv, Bodies

\* The line that get_line reads, of a header that it splits nowhere.
LEMMA ReadsLine ==
  ASSUME OInv, server.at # "accept", TakeLine, LineReady, Whole(link[server.client]),
         NEW p \in 0 .. Lines(link[server.client]) + 1, Read(link[server.client], p)
  PROVE  /\ Line # "nothing"
         /\ Line = "empty" <=> p = Lines(link[server.client]) + 1
         /\ Read(link'[server.client], p + 1)
  <1> DEFINE l == link[server.client]
             s == Stream(l.request)
             h == Lines(l)
  <1>1. /\ l \in LinkRecords /\ l.request \in Requests /\ l.input \in Seq(Tokens)
        /\ l.unsent \in Seq(Tokens)
    BY BusyClient, LinkAt DEF OInv
  <1>2. l.input # <<>> /\ Line = Head(l.input).kind
    BY DEF LineReady, Line, Whole, me
  <1>3. /\ s \in Seq(Tokens) /\ h \in Nat /\ Len(s) \in Nat /\ h + 2 <= Len(s)
        /\ s[1].kind = "request" /\ s[h + 2].kind = "empty"
        /\ \A i \in 1 .. h : s[i + 1].kind = l.request.headers[i]
    BY <1>1, StreamIs DEF Lines
  <1>4. \A i \in 1 .. h : l.request.headers[i] \in {"line", "length"}
    <2>1. l.request.headers \in Seq({"line", "length", "full"})
      BY <1>1, HttpdAssumption
    <2>2. \A i \in 1 .. h : l.request.headers[i] \in {"line", "length", "full"}
                              /\ i \in DOMAIN l.request.headers
      BY <2>1, LenProperties DEF Lines
    <2> QED
      BY <2>2 DEF Whole
  <1>5. TakeLine
    OBVIOUS
  <1> HIDE DEF s, h
  <1>6. /\ p + 1 \in 1 .. Len(s) /\ Head(l.input) = s[p + 1]
        /\ Follows(Tail(l.input) \o l.unsent, s, p + 1)
    <2>1. Follows(l.input \o l.unsent, s, p)
      BY DEF Read, s
    <2> QED
      BY <1>1, <1>2, <1>3, <2>1, FollowsTake
  <1>7. /\ s[p + 1].kind \in {"request", "line", "length", "empty"}
        /\ s[p + 1].kind = "empty" <=> p = h + 1
    <2>1. p = 0 \/ p \in 1 .. h \/ p = h + 1
      BY <1>3 DEF h
    <2>2. CASE p = 0
      BY <1>3, <2>2
    <2>3. CASE p \in 1 .. h
      <3>1. s[p + 1].kind \in {"line", "length"} /\ p # h + 1
        BY <1>3, <1>4, <2>3
      <3> QED
        BY <3>1
    <2>4. CASE p = h + 1
      <3>1. p + 1 = h + 2
        BY <1>3, <2>4
      <3> QED
        BY <1>3, <2>4, <3>1
    <2> QED
      BY <2>1, <2>2, <2>3, <2>4
  <1>8. Line = s[p + 1].kind
    BY <1>2, <1>6
  <1>9. LineRest = Tail(l.input)
    BY <1>7, <1>8 DEF LineRest, me
  <1>10. Fed(l, link'[server.client], Tail(l.input))
    BY <1>5, <1>9, InputOnly DEF TakeLine
  <1>11. Read(link'[server.client], p + 1)
    BY <1>6, <1>10, FedReads DEF s
  <1> QED
    BY <1>7, <1>8, <1>11 DEF h

LEMMA LineKept ==
  ASSUME OInv, server.at # "accept", TakeLine
  PROVE  /\ Whole(link'[server.client]) <=> Whole(link[server.client])
         /\ Lines(link'[server.client]) = Lines(link[server.client])
         /\ link'[server.client].request = link[server.client].request
         /\ link'[server.client].at = "served"
         /\ \A d \in Clients \ {server.client} : link'[d] = link[d]
  <1>1. /\ Fed(link[server.client], link'[server.client], LineRest)
        /\ \A d \in Clients \ {server.client} : link'[d] = link[d]
    BY InputOnly DEF TakeLine
  <1>2. link[server.client].at = "served"
    BY BusyClient DEF OInv
  <1> QED
    BY <1>1, <1>2, FedReads DEF Fed

LEMMA BRoute ==
  ASSUME BInv, Route
  PROVE  Bodies'
  <1> DEFINE l == link[server.client]
             m == link'[server.client]
  <1>1. server.at = "request" /\ TakeLine /\ LineReady /\ UNCHANGED <<script, stdin, stdout>>
    BY DEF Route
  <1>2. PICK at \in {"unimplemented", "close", "missing", "serve", "cgi", "post", "pipes"} :
          /\ server' = [server EXCEPT !.at = at]
          /\ at \in {"cgi", "pipes"} => l.request.method # "POST"
    BY DEF Route, request, me
  <1>3. server'.at = at /\ server'.client = server.client /\ server'.held = server.held
    BY <1>1, <1>2, MovesTypes DEF BInv, OInv, Places
  <1>4. script.took = <<>> /\ stdin = <<>> /\ server.held = <<>>
    BY <1>1 DEF BInv, Bodies
  <1>5. /\ Whole(m) <=> Whole(l)
        /\ Lines(m) = Lines(l)
        /\ m.request = l.request /\ m.at = "served"
        /\ \A d \in Clients \ {server.client} : link'[d] = link[d]
    BY <1>1, LineKept DEF BInv
  <1>6. ASSUME Whole(m) PROVE \E p \in 1 .. Lines(m) + 1 : Read(m, p)
    <2>1. Read(l, 0) /\ Whole(l)
      BY <1>1, <1>5, <1>6 DEF BInv, Bodies, ReadSoFar
    <2>2. Lines(l) \in Nat
      BY <1>1, BusyClient, LinkAt, StreamIs DEF BInv, OInv, Lines
    <2>3. \E p \in 0 .. Lines(l) + 1 : p = 0 /\ Read(l, p)
      BY <2>1, <2>2
    <2>4. PICK p \in 0 .. Lines(l) + 1 : p = 0 /\ Read(l, p)
      BY <2>3
    <2>5. Read(m, p + 1)
      BY <1>1, <2>1, <2>4, ReadsLine DEF BInv
    <2>6. p + 1 \in 1 .. Lines(m) + 1
      BY <1>5, <2>2, <2>4
    <2> QED
      BY <2>5, <2>6
  <1> HIDE DEF m, l
  <1>7. ReadSoFar(m, server'.at, Passed')
    BY <1>2, <1>3, <1>5, <1>6 DEF ReadSoFar
  <1> QED
    BY <1>1, <1>3, <1>4, <1>5, <1>7, BodiesStep DEF m

LEMMA BDiscard ==
  ASSUME BInv, DiscardLine
  PROVE  Bodies'
  <1> DEFINE l == link[server.client]
             m == link'[server.client]
  <1>1. server.at \in {"missing", "serve", "cgi"} /\ TakeLine /\ UNCHANGED <<script, stdin, stdout>>
    BY DEF DiscardLine
  <1>2. PICK at \in {"missing", "serve", "cgi", "404", "fopen", "pipes"} :
          /\ server' = [server EXCEPT !.at = at]
          /\ at \in {"cgi", "pipes"} => server.at = "cgi"
    <2>1. CASE server' = server
      <3>1. server' = [server EXCEPT !.at = server.at]
        BY <2>1 DEF BInv, OInv, Types, ServerRecords
      <3> QED
        BY <1>1, <3>1
    <2>2. CASE server' # server
      BY <1>1, <2>2 DEF DiscardLine
    <2> QED
      BY <2>1, <2>2
  <1>3. server'.at = at /\ server'.client = server.client /\ server'.held = server.held
    BY <1>1, <1>2, MovesTypes DEF BInv, OInv, Places
  <1>4. script.took = <<>> /\ stdin = <<>> /\ server.held = <<>>
    BY <1>1 DEF BInv, Bodies
  <1>5. /\ Whole(m) <=> Whole(l)
        /\ Lines(m) = Lines(l)
        /\ m.request = l.request /\ m.at = "served"
        /\ \A d \in Clients \ {server.client} : link'[d] = link[d]
    BY <1>1, LineKept DEF BInv
  <1>6. Whole(l) /\ server.at = "cgi" => l.request.method # "POST"
    BY DEF BInv, Bodies, ReadSoFar
  <1> HIDE DEF m, l
  <1>7. ReadSoFar(m, server'.at, Passed')
    BY <1>2, <1>3, <1>5, <1>6 DEF ReadSoFar
  <1> QED
    BY <1>1, <1>3, <1>4, <1>5, <1>7, BodiesStep DEF m

LEMMA BPost ==
  ASSUME BInv, PostLine
  PROVE  Bodies'
  <1> DEFINE l == link[server.client]
             m == link'[server.client]
             length == request.length
  <1>1. server.at = "post" /\ TakeLine /\ LineReady /\ UNCHANGED <<script, stdin, stdout>>
    BY DEF PostLine
  <1>2. /\ server'.client = server.client /\ server'.held = server.held
        /\ server'.at \in {"post", "400", "pipes"}
        /\ server'.at = "post" => Line \notin {"empty", "nothing"}
        /\ server'.at # "post" => Line \in {"empty", "nothing"}
    <2>1. \/ server' = server /\ Line \notin {"empty", "nothing"}
          \/ server' = [server EXCEPT !.length = length] /\ Line \notin {"empty", "nothing"}
          \/ \E at \in {"400", "pipes"} : /\ server' = [server EXCEPT !.at = at]
                                          /\ Line \in {"empty", "nothing"}
      BY DEF PostLine
    <2> HIDE DEF length
    <2>2. CASE server' = server /\ Line \notin {"empty", "nothing"}
      BY <1>1, <2>2
    <2>3. CASE server' = [server EXCEPT !.length = length] /\ Line \notin {"empty", "nothing"}
      BY <1>1, <2>3 DEF BInv, OInv, Types, ServerRecords
    <2>4. CASE \E at \in {"400", "pipes"} : /\ server' = [server EXCEPT !.at = at]
                                            /\ Line \in {"empty", "nothing"}
      BY <1>1, <2>4, MovesTypes DEF Places, BInv, OInv
    <2> QED
      BY <2>1, <2>2, <2>3, <2>4
  <1>4. script.took = <<>> /\ stdin = <<>> /\ server.held = <<>>
    BY <1>1 DEF BInv, Bodies
  <1>5. /\ Whole(m) <=> Whole(l)
        /\ Lines(m) = Lines(l)
        /\ m.request = l.request /\ m.at = "served"
        /\ \A d \in Clients \ {server.client} : link'[d] = link[d]
    BY <1>1, LineKept DEF BInv
  <1>6. ASSUME Whole(m)
        PROVE  /\ server'.at = "post" => \E p \in 1 .. Lines(m) + 1 : Read(m, p)
               /\ server'.at = "pipes" => Read(m, Lines(m) + 2)
    <2>1. Whole(l) /\ \E p \in 1 .. Lines(l) + 1 : Read(l, p)
      BY <1>1, <1>5, <1>6 DEF BInv, Bodies, ReadSoFar
    <2>2. PICK p \in 1 .. Lines(l) + 1 : Read(l, p)
      BY <2>1
    <2>3. Lines(l) \in Nat
      BY <1>1, BusyClient, LinkAt, StreamIs DEF BInv, OInv, Lines
    <2>4. /\ Line # "nothing" /\ (Line = "empty" <=> p = Lines(l) + 1)
          /\ Read(m, p + 1)
      <3>1. p \in 0 .. Lines(l) + 1
        BY <2>3
      <3> QED
        BY <1>1, <2>1, <2>2, <3>1, ReadsLine DEF BInv
    <2>5. ASSUME server'.at = "post" PROVE \E k \in 1 .. Lines(m) + 1 : Read(m, k)
      <3>1. p # Lines(l) + 1
        BY <1>2, <2>4, <2>5
      <3>2. p + 1 \in 1 .. Lines(m) + 1
        BY <1>5, <2>3, <3>1
      <3> QED
        BY <2>4, <3>2
    <2>6. ASSUME server'.at = "pipes" PROVE Read(m, Lines(m) + 2)
      <3>1. p = Lines(l) + 1
        BY <1>2, <2>4, <2>6
      <3>2. p + 1 = Lines(m) + 2
        BY <1>5, <2>3, <3>1
      <3> QED
        BY <2>4, <3>2
    <2> QED
      BY <2>5, <2>6
  <1> HIDE DEF m, l
  <1>7. ReadSoFar(m, server'.at, Passed')
    BY <1>2, <1>5, <1>6 DEF ReadSoFar
  <1> QED
    BY <1>1, <1>2, <1>4, <1>5, <1>7, BodiesStep DEF m

LEMMA EmptyUnits == Units(<<>> \o <<>> \o <<>>) /\ Len(<<>> \o <<>> \o <<>>) = 0
  <1>1. <<>> \o <<>> \o <<>> = <<>>
    OBVIOUS
  <1> QED
    BY <1>1 DEF Units

\* An answer, and the way to close.
LEMMA BAnswers ==
  ASSUME BInv, server.at \in Quiet, UNCHANGED <<script, stdin, stdout>>,
         NEW t, NEW next, Send(t, next),
         \/ next = Idle
         \/ next = [server EXCEPT !.at = "close"]
         \/ next = [server EXCEPT !.at = "dead"]
  PROVE  Bodies'
  <1> DEFINE m == link'[server.client]
  <1>1. server.at # "accept" /\ \E x : link' = [link EXCEPT ![me].answer = x]
    BY DEF Quiet, Send
  <1>2. /\ Kept(link[server.client], m)
        /\ \A d \in Clients \ {server.client} : link'[d] = link[d]
    BY <1>1, AnswerOnly DEF BInv
  <1>3. m.at = "served"
    BY <1>1, <1>2, BusyClient DEF BInv, OInv, Kept
  <1>4. script.took = <<>> /\ stdin = <<>> /\ server.held = <<>>
    BY DEF BInv, Bodies, Quiet
  <1>5. CASE server' = Idle
    <2>1. server'.at = "accept" /\ server'.held = <<>>
      BY <1>5 DEF Idle
    <2> QED
      BY <1>1, <1>2, <1>3, <1>4, <2>1, BodiesStep DEF m
  <1>6. CASE \E at \in {"close", "dead"} : server' = [server EXCEPT !.at = at]
    <2>1. /\ server'.at \in {"close", "dead"} /\ server'.client = server.client
          /\ server'.held = server.held
      BY <1>1, <1>6, MovesTypes DEF BInv, OInv, Places
    <2>2. Units(Passed')
      BY <1>4, <2>1, EmptyUnits DEF Passed
    <2> HIDE DEF m
    <2>3. ReadSoFar(m, server'.at, Passed')
      BY <2>1, <2>2 DEF ReadSoFar
    <2> QED
      BY <1>1, <1>2, <1>3, <1>4, <2>1, <2>3, BodiesStep DEF m
  <1> QED
    BY <1>5, <1>6 DEF Send

LEMMA BFork ==
  ASSUME BInv, Fork
  PROVE  Bodies'
  <1> DEFINE l == link[server.client]
             m == link'[server.client]
  <1>1. server.at = "pipes" /\ stdin' = stdin /\ script' = [NoScript EXCEPT !.at = "start"]
    BY DEF Fork
  <1>2. \E x : link' = [link EXCEPT ![me].answer = x]
    BY DEF Fork, Send
  <1>3. PICK at \in {"feed", "relay", "dead"} :
          /\ server' = [server EXCEPT !.at = at]
          /\ at = "feed" => l.request.method = "POST"
    BY DEF Fork, Send, request, me
  <1>4. /\ server'.at = at /\ server'.client = server.client /\ server'.held = server.held
    BY <1>1, <1>3, MovesTypes DEF BInv, OInv, Places
  <1>5. /\ Kept(l, m) /\ \A d \in Clients \ {server.client} : link'[d] = link[d]
    BY <1>1, <1>2, AnswerOnly DEF BInv
  <1>6. m.at = "served" /\ m.request = l.request
    BY <1>1, <1>5, BusyClient DEF BInv, OInv, Kept
  <1>7. /\ Whole(m) <=> Whole(l)
        /\ Lines(m) = Lines(l) /\ \A p : Read(m, p) <=> Read(l, p)
    BY <1>5, KeptReads
  <1>8. script'.took = <<>> /\ stdin' = <<>> /\ server'.held = <<>>
    BY <1>1, <1>4 DEF BInv, Bodies, NoScript
  <1>9. Units(Passed') /\ Len(Passed') = 0
    BY <1>8, EmptyUnits DEF Passed
  <1>10. ASSUME Whole(m), at = "feed" PROVE Read(m, Lines(m) + 2 + Len(Passed'))
    <2>1. Read(m, Lines(m) + 2)
      BY <1>1, <1>3, <1>7, <1>10 DEF BInv, Bodies, ReadSoFar
    <2>2. Lines(l) \in Nat
      BY <1>1, BusyClient, LinkAt, StreamIs DEF BInv, OInv, Lines
    <2>3. Lines(m) + 2 + Len(Passed') = Lines(m) + 2
      BY <1>7, <1>9, <2>2
    <2> QED
      BY <2>1, <2>3
  <1> HIDE DEF m, l
  <1>11. ReadSoFar(m, server'.at, Passed')
    BY <1>3, <1>4, <1>9, <1>10 DEF ReadSoFar
  <1> QED
    BY <1>1, <1>4, <1>5, <1>6, <1>11, BodiesStep DEF m

LEMMA PassedType ==
  ASSUME OInv
  PROVE  /\ script.took \in Seq(Tokens) /\ stdin \in Seq(Tokens) /\ server.held \in Seq(Tokens)
         /\ Passed \in Seq(Tokens) /\ Len(Passed) \in Nat
  <1>1. script.took \in Seq(Tokens) /\ stdin \in Seq(Tokens) /\ server.held \in Seq(Tokens)
    BY DEF OInv, Types, ScriptRecords, ServerRecords
  <1>2. Passed \in Seq(Tokens)
    BY <1>1, ConcatProperties DEF Passed
  <1> QED
    BY <1>1, <1>2, LenProperties

\* The next byte of the body.
LEMMA UnitsAppend ==
  ASSUME NEW s \in Seq(Tokens), Units(s), NEW e \in Tokens, e = Token("body", Len(s) + 1)
  PROVE  Units(Append(s, e)) /\ Len(Append(s, e)) = Len(s) + 1
  <1> DEFINE t == Append(s, e)
             n == Len(s)
  <1>1. /\ n \in Nat /\ DOMAIN s = 1 .. n /\ DOMAIN t = 1 .. n + 1 /\ Len(t) = n + 1
        /\ \A i \in 1 .. n : t[i] = s[i]
        /\ t[n + 1] = e
    BY AppendProperties, LenProperties
  <1>2. e = Token("body", n + 1)
    OBVIOUS
  <1> HIDE DEF t, n
  <1>3. Units(t)
    <2> SUFFICES ASSUME NEW i \in 1 .. n + 1 PROVE t[i] = Token("body", i)
      BY <1>1 DEF Units
    <2>1. i \in 1 .. n \/ i = n + 1
      BY <1>1
    <2> QED
      BY <1>1, <1>2, <2>1 DEF Units
  <1> QED
    BY <1>1, <1>3 DEF t, n

LEMMA BFeedTake ==
  ASSUME BInv, FeedTake
  PROVE  Bodies'
  <1> DEFINE l == link[server.client]
             m == link'[server.client]
             input == l.input
             unit == IF input = <<>> THEN server.last ELSE Head(input)
             rest == IF input = <<>> THEN <<>> ELSE Tail(input)
             s == Stream(l.request)
             h == Lines(l)
  <1>1. /\ server.at = "feed" /\ UNCHANGED <<script, stdin, stdout>> /\ server.held = <<>>
        /\ server' = [server EXCEPT !.held = <<unit>>, !.last = unit] /\ LineReady
    BY DEF FeedTake, me
  <1>2. l \in LinkRecords /\ l.request \in Requests /\ input \in Seq(Tokens)
        /\ l.unsent \in Seq(Tokens) /\ l.at = "served" /\ server.client \in Clients
    BY <1>1, BusyClient, LinkAt DEF BInv, OInv
  <1>3. link' = [link EXCEPT ![me].input = rest]
    BY <1>2 DEF FeedTake, me, BInv, OInv, Types
  <1>4. /\ Fed(l, m, rest) /\ \A d \in Clients \ {server.client} : link'[d] = link[d]
    <2> HIDE DEF rest
    <2> QED
      BY <1>1, <1>3, InputOnly DEF BInv
  <1>5. m.at = "served" /\ m.request = l.request
    BY <1>2, <1>4 DEF Fed
  <1>6. server'.at = "feed" /\ server'.client = server.client /\ server'.held = <<unit>>
    <2> DEFINE held == <<unit>>
    <2>1. server' = [server EXCEPT !.held = held, !.last = unit]
      BY <1>1
    <2> HIDE DEF held, unit
    <2>2. server'.at = server.at /\ server'.client = server.client /\ server'.held = held
      BY <2>1 DEF BInv, OInv, Types, ServerRecords
    <2> QED
      BY <1>1, <2>2 DEF held
  <1>7. ASSUME Whole(m) PROVE Read(m, h + 2 + Len(Passed')) /\ Units(Passed')
    <2>1. Whole(l) /\ Lines(m) = Lines(l)
      BY <1>4, <1>7, FedReads
    <2>2. input # <<>>
      BY <1>1, <2>1 DEF LineReady, Whole, me
    <2> DEFINE p == h + 2 + Len(Passed)
    <2>3. Follows(input \o l.unsent, s, p) /\ Units(Passed)
      BY <1>1, <2>1 DEF BInv, Bodies, ReadSoFar, Read
    <2>4. /\ s \in Seq(Tokens) /\ h \in Nat /\ Len(s) \in Nat /\ h + 2 <= Len(s)
          /\ \A i \in 1 .. Len(s) - (h + 2) : s[h + 2 + i] = Token("body", i)
      BY <1>2, StreamIs DEF Lines
    <2>5. Passed \in Seq(Tokens) /\ Len(Passed) \in Nat /\ unit = Head(input) /\ rest = Tail(input)
      BY <2>2, PassedType DEF BInv
    <2>6. unit \in Tokens
      BY <1>2, <2>2, HeadTailProperties
    <2> HIDE DEF s, h, input, unit, rest, p
    <2>7. p + 1 \in 1 .. Len(s) /\ unit = s[p + 1] /\ Follows(rest \o l.unsent, s, p + 1)
      BY <1>2, <2>2, <2>3, <2>4, <2>5, FollowsTake
    <2>8. unit = Token("body", Len(Passed) + 1)
      <3>1. p + 1 = h + 2 + (Len(Passed) + 1) /\ Len(Passed) + 1 \in 1 .. Len(s) - (h + 2)
        BY <2>4, <2>5, <2>7 DEF p
      <3> QED
        BY <2>4, <2>7, <3>1
    <2>9. Passed' = Append(Passed, unit)
      <3> DEFINE first == script.took \o stdin
                 none == <<>>
                 one == <<unit>>
      <3>1. first \in Seq(Tokens)
        BY PassedType, ConcatProperties DEF BInv
      <3>2. Passed = first \o none /\ Passed' = first \o one
        BY <1>1, <1>6 DEF Passed
      <3> HIDE DEF first
      <3>3. first \o none = first /\ first \o one = Append(first, unit)
        BY <2>6, <3>1
      <3> QED
        BY <3>2, <3>3
    <2>10. Units(Passed') /\ Len(Passed') = Len(Passed) + 1
      BY <2>3, <2>5, <2>6, <2>8, <2>9, UnitsAppend
    <2>11. h + 2 + Len(Passed') = p + 1
      BY <2>4, <2>5, <2>10 DEF p
    <2>12. Read(m, p + 1)
      BY <1>4, <2>7, FedReads DEF s, input
    <2> QED
      BY <2>10, <2>11, <2>12
  <1>8. Lines(m) = h
    BY <1>4, FedReads
  <1> HIDE DEF m, l, h, unit, rest
  <1>9. ReadSoFar(m, server'.at, Passed')
    BY <1>6, <1>7, <1>8 DEF ReadSoFar
  <1> QED
    BY <1>1, <1>4, <1>5, <1>6, <1>9, BodiesStep DEF m

\* The parent goes on, and what the script has or is to get stays the same.
LEMMA BGoesOn ==
  ASSUME BInv, server.at \in {"feed", "relay"},
         Kept(link[server.client], link'[server.client]),
         \A d \in Clients \ {server.client} : link'[d] = link[d],
         server'.client = server.client,
         server'.at \in {server.at, "relay", "close", "dead"},
         Passed' = Passed
  PROVE  Bodies'
  <1> DEFINE l == link[server.client]
             m == link'[server.client]
  <1>1. m.at = "served"
    BY BusyClient DEF BInv, OInv, Kept
  <1>2. /\ Whole(m) <=> Whole(l)
        /\ Lines(m) = Lines(l) /\ \A p : Read(m, p) <=> Read(l, p)
    BY KeptReads
  <1>3. ReadSoFar(l, server.at, Passed)
    BY DEF BInv, Bodies
  <1> HIDE DEF l, m
  <1>4. ReadSoFar(m, server'.at, Passed')
    BY <1>2, <1>3 DEF ReadSoFar
  <1> QED
    BY <1>1, <1>4, BodiesStep DEF m

LEMMA KeptSame ==
  ASSUME NEW l
  PROVE  Kept(l, l)
  BY DEF Kept

LEMMA BFeedWrite ==
  ASSUME BInv, FeedWrite
  PROVE  Bodies'
  <1>1. server.at = "feed" /\ UNCHANGED <<link, script>>
    BY DEF FeedWrite
  <1>2. CASE server' = [server EXCEPT !.at = "dead"] /\ stdin' = stdin
    <2>1. server'.at = "dead" /\ server'.client = server.client /\ server'.held = server.held
      BY <1>1, <1>2, MovesTypes DEF BInv, OInv, Places
    <2>2. Passed' = Passed
      BY <1>1, <1>2, <2>1 DEF Passed
    <2> QED
      BY <1>1, <2>1, <2>2, BGoesOn, KeptSame
  <1>3. CASE /\ stdin' = stdin \o server.held
             /\ server' = [server EXCEPT !.held = <<>>, !.fed = @ + 1]
    <2> DEFINE fed == server.fed + 1
               none == <<>>
    <2>1. server' = [server EXCEPT !.held = none, !.fed = fed]
      BY <1>3 DEF BInv, OInv, Types, ServerRecords
    <2> HIDE DEF fed, none
    <2>2. server'.at = server.at /\ server'.client = server.client /\ server'.held = none
      BY <2>1 DEF BInv, OInv, Types, ServerRecords
    <2>3. Passed' = Passed
      <3> DEFINE a == script.took
                 b == stdin
                 c == server.held
      <3>1. a \in Seq(Tokens) /\ b \in Seq(Tokens) /\ c \in Seq(Tokens)
        BY PassedType DEF BInv
      <3>2. Passed = (a \o b) \o c /\ Passed' = (a \o (b \o c)) \o <<>>
        BY <1>1, <1>3, <2>2 DEF Passed, none
      <3> HIDE DEF a, b, c
      <3>3. (a \o b) \o c = a \o (b \o c)
        BY <3>1, ConcatAssociative
      <3>4. a \o (b \o c) \in Seq(Tokens)
        BY <3>1, ConcatProperties
      <3> DEFINE u == a \o (b \o c)
      <3> HIDE DEF u
      <3>5. u \o <<>> = u
        BY <3>4 DEF u
      <3> QED
        BY <3>2, <3>3, <3>5 DEF u
    <2> QED
      BY <1>1, <2>2, <2>3, BGoesOn, KeptSame
  <1> QED
    BY <1>2, <1>3 DEF FeedWrite

LEMMA BMoves ==
  ASSUME BInv, FeedEnd \/ RelayEnd
  PROVE  Bodies'
  <1>1. /\ server.at \in {"feed", "relay"} /\ UNCHANGED <<link, script, stdin>>
        /\ \E at \in {"relay", "close"} : server' = [server EXCEPT !.at = at]
    BY DEF FeedEnd, RelayEnd
  <1>2. /\ server'.at \in {"relay", "close"} /\ server'.client = server.client
        /\ server'.held = server.held
    BY <1>1, MovesTypes DEF BInv, OInv, Places
  <1>3. Passed' = Passed
    BY <1>1, <1>2 DEF Passed
  <1> QED
    BY <1>1, <1>2, <1>3, BGoesOn, KeptSame

LEMMA BRelay ==
  ASSUME BInv, Relay
  PROVE  Bodies'
  <1>1. /\ server.at = "relay" /\ UNCHANGED <<script, stdin>>
        /\ server' = server \/ server' = [server EXCEPT !.at = "dead"]
        /\ \E x : link' = [link EXCEPT ![me].answer = x]
    BY DEF Relay, Send
  <1>2. /\ server'.at \in {"relay", "dead"} /\ server'.client = server.client
        /\ server'.held = server.held
    <2>1. CASE server' = server
      BY <1>1, <2>1
    <2>2. CASE server' = [server EXCEPT !.at = "dead"]
      BY <1>1, <2>2, MovesTypes DEF BInv, OInv, Places
    <2> QED
      BY <1>1, <2>1, <2>2
  <1>3. Passed' = Passed
    BY <1>1, <1>2 DEF Passed
  <1>4. /\ Kept(link[server.client], link'[server.client])
        /\ \A d \in Clients \ {server.client} : link'[d] = link[d]
    BY <1>1, AnswerOnly DEF BInv
  <1> QED
    BY <1>1, <1>2, <1>3, <1>4, BGoesOn

LEMMA BClose ==
  ASSUME BInv, Close
  PROVE  Bodies'
  <1>1. /\ server.at = "close" /\ server' = Idle /\ script' = NoScript /\ stdin' = <<>>
    BY DEF Close
  <1>2. /\ server'.at = "accept" /\ server'.held = <<>> /\ script'.took = <<>>
    BY <1>1 DEF Idle, NoScript
  <1>3. server.client \in Clients
    BY <1>1, BusyClient DEF BInv, OInv
  <1>4. PICK x : link' = [link EXCEPT ![server.client] =
                           [link[server.client] EXCEPT !.at = "closed", !.reset = x]]
    BY <1>3 DEF Close, me, BInv, OInv, Types
  <1>5. [link[server.client] EXCEPT !.at = "closed", !.reset = x].at = "closed"
    BY <1>3, LinkAt DEF BInv, OInv, LinkRecords
  <1>6. /\ link'[server.client].at = "closed"
        /\ \A d \in Clients \ {server.client} : link'[d] = link[d]
    BY <1>3, <1>4, <1>5 DEF BInv, OInv, Types
  <1> QED
    BY <1>1, <1>2, <1>6, BodiesStep

LEMMA BAccept ==
  ASSUME BInv, NEW c \in Clients, Accept(c)
  PROVE  Bodies'
  <1> DEFINE m == [link[c] EXCEPT !.at = "served"]
  <1>1. /\ server.at = "accept" /\ link[c].at = "queued" /\ UNCHANGED <<script, stdin>>
        /\ server' = [server EXCEPT !.at = "request", !.client = c]
        /\ link' = [link EXCEPT ![c] = m]
    BY DEF Accept, BInv, OInv, Types
  <1>2. /\ server'.at = "request" /\ server'.client = c /\ server'.held = server.held
    BY <1>1 DEF BInv, OInv, Types, ServerRecords
  <1>3. /\ m.at = "served" /\ m.request = link[c].request /\ m.input = link[c].input
        /\ m.unsent = link[c].unsent /\ m.ended = link[c].ended
    BY LinkAt DEF BInv, OInv, LinkRecords
  <1> HIDE DEF m
  <1>4. link'[c] = m /\ \A d \in Clients \ {c} : link'[d] = link[d]
    BY <1>1 DEF BInv, OInv, Types
  <1>5. Whole(m) => Read(m, 0)
    BY <1>1, <1>3 DEF BInv, Bodies, Whole, Read
  <1>6. ReadSoFar(m, "request", Passed')
    BY <1>5 DEF ReadSoFar
  <1>7. script.took = <<>> /\ stdin = <<>> /\ server.held = <<>>
    BY <1>1 DEF BInv, Bodies
  <1>8. ReadSoFar(link'[server'.client], server'.at, Passed')
    BY <1>2, <1>4, <1>6
  <1>9. /\ \A d \in Clients : link'[d].at = "new" => link'[d].input = <<>> /\ link'[d].unsent = <<>>
        /\ \A d \in Clients : link'[d].at = "queued" /\ Whole(link'[d]) => Read(link'[d], 0)
    BY <1>3, <1>4 DEF BInv, Bodies
  <1>10. script'.took = <<>> /\ stdin' = <<>> /\ server'.held = <<>>
    BY <1>1, <1>2, <1>7
  <1> QED
    BY <1>8, <1>9, <1>10 DEF Bodies

LEMMA BProcess ==
  ASSUME BInv, Process
  PROVE  Bodies'
  <1>1. CASE NotFound \/ BadRequest \/ CannotExecute \/ ServeFile \/ Unimplemented
    <2>1. server.at \in Quiet /\ UNCHANGED <<script, stdin, stdout>>
      BY <1>1 DEF NotFound, BadRequest, CannotExecute, ServeFile, Unimplemented, Quiet
    <2>2. \E t, next :
            /\ Send(t, next)
            /\ \/ next = Idle \/ next = [server EXCEPT !.at = "close"]
               \/ next = [server EXCEPT !.at = "dead"]
      BY <1>1 DEF NotFound, BadRequest, CannotExecute, ServeFile, Unimplemented
    <2> QED
      BY <2>1, <2>2, BAnswers
  <1> QED
    BY <1>1, BAccept, BRoute, BDiscard, BPost, BFork, BFeedTake, BFeedWrite, BMoves, BRelay,
       BClose DEF Process

(***************************************************************************)
(* The script and the clients.                                             *)
(***************************************************************************)
LEMMA BScriptGoesOn ==
  ASSUME BInv, server.at \in {"feed", "relay", "dead"}, server' = server,
         Kept(link[server.client], link'[server.client]),
         \A d \in Clients \ {server.client} : link'[d] = link[d],
         Passed' = Passed
  PROVE  Bodies'
  <1> DEFINE l == link[server.client]
             m == link'[server.client]
  <1>1. m.at = "served"
    BY BusyClient DEF BInv, OInv, Kept
  <1>2. /\ Whole(m) <=> Whole(l)
        /\ Lines(m) = Lines(l) /\ \A p : Read(m, p) <=> Read(l, p)
    BY KeptReads
  <1>3. ReadSoFar(l, server.at, Passed)
    BY DEF BInv, Bodies
  <1> HIDE DEF l, m
  <1>4. ReadSoFar(m, server'.at, Passed')
    BY <1>2, <1>3 DEF ReadSoFar
  <1> QED
    BY <1>1, <1>4, BodiesStep DEF m

LEMMA BScript ==
  ASSUME BInv, Script
  PROVE  Bodies'
  <1>1. server.at \in {"feed", "relay", "dead"} /\ server' = server
    <2>1. server' = server /\ script.at \in {"start", "run"}
      BY DEF Script, ScriptStart, ScriptRead, ScriptWrite, ScriptEnd
    <2> QED
      BY <2>1 DEF BInv, OInv, Child
  <1>2. script \in ScriptRecords
    BY DEF BInv, OInv, Types
  <1>3. CASE ScriptStart
    <2>1. \E x : link' = [link EXCEPT ![me].answer = x]
      BY <1>3 DEF ScriptStart
    <2>2. /\ Kept(link[server.client], link'[server.client])
          /\ \A d \in Clients \ {server.client} : link'[d] = link[d]
      BY <1>1, <2>1, AnswerOnly DEF BInv
    <2>3. \/ script' = [script EXCEPT !.at = "ended"]
          \/ \E does : script' = [script EXCEPT !.at = "run", !.does = does]
      BY <1>3 DEF ScriptStart
    <2>4. script'.took = script.took /\ stdin' = stdin
      BY <1>2, <1>3, <2>3 DEF ScriptRecords, ScriptStart
    <2>5. Passed' = Passed
      BY <1>1, <2>4 DEF Passed
    <2> QED
      BY <1>1, <2>2, <2>5, BScriptGoesOn
  <1>4. CASE ScriptRead
    <2> DEFINE took == script.took
               in == stdin
               held == server.held
               new == Append(took, Head(in))
    <2>1. /\ UNCHANGED <<link, server>> /\ in # <<>> /\ stdin' = Tail(in)
          /\ script' = [script EXCEPT !.took = new]
      BY <1>2, <1>4 DEF ScriptRead, ScriptRecords
    <2>2. took \in Seq(Tokens) /\ in \in Seq(Tokens)
      BY PassedType DEF BInv
    <2>3. script'.took = new
      BY <1>2, <2>1 DEF ScriptRecords
    <2>4. Passed = (took \o in) \o held /\ Passed' = (new \o Tail(in)) \o held
      BY <1>1, <2>1, <2>3 DEF Passed
    <2> HIDE DEF took, in, held
    <2>5. new \o Tail(in) = took \o in
      BY <2>1, <2>2, MoveHead
    <2>6. Passed' = Passed
      BY <2>4, <2>5
    <2> QED
      BY <1>1, <2>1, <2>6, BScriptGoesOn, KeptSame
  <1>5. CASE ScriptWrite \/ ScriptEnd
    <2>1. /\ UNCHANGED <<link, server, stdin>>
          /\ \/ \E x : script' = [script EXCEPT !.wrote = x]
             \/ script' = [script EXCEPT !.at = "ended"]
      BY <1>5 DEF ScriptWrite, ScriptEnd
    <2>2. script'.took = script.took
      BY <1>2, <2>1 DEF ScriptRecords
    <2>3. Passed' = Passed
      BY <2>1, <2>2 DEF Passed
    <2> QED
      BY <1>1, <2>1, <2>3, BScriptGoesOn, KeptSame
  <1> QED
    BY <1>3, <1>4, <1>5 DEF Script

\* A client acts on its own connection.
LEMMA BClient ==
  ASSUME BInv, NEW c \in Clients, NEW m, link' = [link EXCEPT ![c] = m],
         UNCHANGED <<server, script, stdin>>,
         m.at = "queued" /\ Whole(m) => Read(m, 0),
         m.at # "new",
         link[c].at = "served" =>
           /\ Whole(m) => Whole(link[c])
           /\ Lines(m) = Lines(link[c]) /\ m.request = link[c].request
           /\ \A p : Read(m, p) <=> Read(link[c], p)
  PROVE  Bodies'
  <1>1. link'[c] = m /\ \A d \in Clients \ {c} : link'[d] = link[d]
    BY DEF BInv, OInv, Types
  <1>2. /\ \A d \in Clients : link'[d].at = "new" => link'[d].input = <<>> /\ link'[d].unsent = <<>>
        /\ \A d \in Clients : link'[d].at = "queued" /\ Whole(link'[d]) => Read(link'[d], 0)
    BY <1>1 DEF BInv, Bodies
  <1>3. server.at \notin {"feed", "relay", "dead", "close"} =>
          script.took = <<>> /\ stdin = <<>> /\ server.held = <<>>
    BY DEF BInv, Bodies
  <1>4. ASSUME server.at # "accept"
        PROVE  ReadSoFar(link'[server.client], server.at, Passed)
    <2>1. ReadSoFar(link[server.client], server.at, Passed) /\ link[server.client].at = "served"
          /\ server.client \in Clients
      BY <1>4, BusyClient DEF BInv, Bodies, OInv
    <2>2. CASE server.client # c
      BY <1>1, <2>1, <2>2
    <2>3. CASE server.client = c
      <3>1. ReadSoFar(m, server.at, Passed)
        BY <2>1, <2>3 DEF ReadSoFar
      <3> QED
        BY <1>1, <2>3, <3>1
    <2> QED
      BY <2>2, <2>3
  <1>5. Passed' = Passed
    BY DEF Passed
  <1> QED
    BY <1>2, <1>3, <1>4, <1>5 DEF Bodies

\* A request that is all in flight, and one that has arrived whole.
LEMMA ReadFrom0 ==
  ASSUME NEW r \in Requests
  PROVE  /\ Follows(<<>> \o Stream(r), Stream(r), 0)
         /\ Follows(Stream(r) \o <<>>, Stream(r), 0)
  <1> DEFINE s == Stream(r)
  <1>1. s \in Seq(Tokens) /\ Len(s) \in Nat
    BY StreamIs
  <1> HIDE DEF s
  <1>2. <<>> \o s = s /\ s \o <<>> = s
    BY <1>1
  <1>3. Follows(s, s, 0)
    BY <1>1 DEF Follows
  <1> QED
    BY <1>2, <1>3 DEF s

LEMMA BConnect ==
  ASSUME BInv, NEW c \in Clients, NEW r \in Requests,
         Connect(c, r) \/ Press(c, r)
  PROVE  Bodies'
  <1> DEFINE s == Stream(r)
             l == link[c]
             a == [l EXCEPT !.at = "queued", !.request = r, !.unsent = s]
             b == [l EXCEPT !.at = "queued", !.request = r, !.input = s]
  <1>1. /\ l.at = "new" /\ UNCHANGED <<server, script, stdin>>
        /\ link' = [link EXCEPT ![c] = a] \/ link' = [link EXCEPT ![c] = b]
    BY DEF Connect, Press, BInv, OInv, Types
  <1>2. l \in LinkRecords /\ l.input = <<>> /\ l.unsent = <<>>
    BY <1>1, LinkAt DEF BInv, OInv, Bodies
  <1>3. Follows(<<>> \o s, s, 0) /\ Follows(s \o <<>>, s, 0)
    BY ReadFrom0
  <1>4. /\ a.at = "queued" /\ a.request = r /\ a.input = <<>> /\ a.unsent = s
        /\ b.at = "queued" /\ b.request = r /\ b.input = s /\ b.unsent = <<>>
    <2> HIDE DEF s
    <2> QED
      BY <1>2 DEF LinkRecords
  <1> HIDE DEF a, b, l
  <1>5. Read(a, 0) /\ Read(b, 0)
    BY <1>3, <1>4 DEF Read
  <1>6. CASE link' = [link EXCEPT ![c] = a]
    BY <1>1, <1>4, <1>5, <1>6, BClient DEF l
  <1>7. CASE link' = [link EXCEPT ![c] = b]
    BY <1>1, <1>4, <1>5, <1>7, BClient DEF l
  <1> QED
    BY <1>1, <1>6, <1>7

LEMMA BClientSend ==
  ASSUME BInv, NEW c \in Clients, NEW n \in 1 .. Len(link[c].unsent), ClientSend(c, n)
  PROVE  Bodies'
  <1> DEFINE l == link[c]
             unsent == l.unsent
             sent == SubSeq(unsent, 1, n)
             rest == SubSeq(unsent, n + 1, Len(unsent))
             input == l.input \o sent
             m == [l EXCEPT !.input = input, !.unsent = rest]
  <1>1. /\ l.at \in {"queued", "served"} /\ UNCHANGED <<server, script, stdin>>
        /\ link' = [link EXCEPT ![c] = m]
    BY DEF ClientSend, BInv, OInv, Types
  <1>2. l \in LinkRecords /\ unsent \in Seq(Tokens) /\ l.input \in Seq(Tokens)
    BY LinkAt DEF BInv, OInv
  <1>3. sent \in Seq(Tokens) /\ rest \in Seq(Tokens) /\ sent \o rest = unsent
    BY <1>2, Split
  <1>4. input \o rest = l.input \o l.unsent
    <2> DEFINE old == l.input
    <2>1. old \in Seq(Tokens) /\ sent \in Seq(Tokens) /\ rest \in Seq(Tokens)
      BY <1>2, <1>3
    <2>2. input = old \o sent /\ sent \o rest = unsent
      BY <1>3
    <2> HIDE DEF sent, rest, old, input, unsent, l, m
    <2>3. (old \o sent) \o rest = old \o (sent \o rest)
      BY <2>1, ConcatAssociative, SMTT(30)
    <2>4. input \o rest = old \o unsent
      BY <2>2, <2>3
    <2> QED
      BY <2>4 DEF old, unsent, l
  <1> HIDE DEF input, rest, l
  <1>5. /\ m.at = l.at /\ m.request = l.request /\ m.ended = l.ended
        /\ m.input \o m.unsent = l.input \o l.unsent
    BY <1>2, <1>4 DEF LinkRecords
  <1> HIDE DEF m
  <1>6. /\ Whole(m) <=> Whole(l)
        /\ Lines(m) = Lines(l) /\ \A p : Read(m, p) <=> Read(l, p)
    BY <1>5 DEF Whole, Lines, Read
  <1>7. l.at = "queued" /\ Whole(l) => Read(l, 0)
    BY DEF BInv, Bodies, l
  <1> QED
    BY <1>1, <1>5, <1>6, <1>7, BClient DEF l

LEMMA BClientClose ==
  ASSUME BInv, NEW c \in Clients, ClientClose(c)
  PROVE  Bodies'
  <1> DEFINE l == link[c]
             m == [l EXCEPT !.ended = TRUE]
  <1>1. /\ l.at \in {"queued", "served"} /\ UNCHANGED <<server, script, stdin>>
        /\ link' = [link EXCEPT ![c] = m]
    BY DEF ClientClose, BInv, OInv, Types
  <1>2. /\ m.at = l.at /\ m.request = l.request /\ m.ended
        /\ m.input = l.input /\ m.unsent = l.unsent
    BY LinkAt DEF BInv, OInv, LinkRecords
  <1> HIDE DEF m
  <1>3. ~ Whole(m) /\ Lines(m) = Lines(l) /\ \A p : Read(m, p) <=> Read(l, p)
    BY <1>2 DEF Whole, Lines, Read
  <1> QED
    BY <1>1, <1>2, <1>3, BClient

LEMMA BInit == BrowserInit => BInv
  <1> SUFFICES ASSUME BrowserInit PROVE BInv
    OBVIOUS
  <1>1. /\ link = [c \in Clients |->
                     [at |-> "new", request |-> NoRequest, unsent |-> <<>>, input |-> <<>>,
                      ended |-> FALSE, answer |-> <<>>, reset |-> FALSE]]
        /\ server = Idle /\ script = NoScript /\ stdin = <<>>
    BY DEF BrowserInit, Init
  <1>2. \A c \in Clients : link[c].at = "new" /\ link[c].input = <<>> /\ link[c].unsent = <<>>
    BY <1>1
  <1>3. server.at = "accept" /\ server.held = <<>> /\ script.took = <<>>
    BY <1>1 DEF Idle, NoScript
  <1>4. Bodies
    BY <1>1, <1>2, <1>3 DEF Bodies
  <1> QED
    BY <1>4, OInit DEF BInv

LEMMA BStep == BInv /\ [BrowserNext]_allvars => BInv'
  <1> SUFFICES ASSUME BInv, [BrowserNext]_allvars PROVE BInv'
    OBVIOUS
  <1>1. OInv'
    BY OStep DEF BInv
  <1>2. CASE Process
    BY <1>1, <1>2, BProcess DEF BInv
  <1>3. CASE Script
    BY <1>1, <1>3, BScript DEF BInv
  <1>4. CASE Others
    <2>1. PICK c \in Clients : Surroundings(c)
      BY <1>4 DEF Others
    <2> QED
      BY <1>1, <2>1, BConnect, BClientSend, BClientClose DEF BInv, Surroundings
  <1>5. CASE \E c \in Clients, r \in Buttons : Press(c, r)
    BY <1>1, <1>5, BConnect, BrowserAssumption DEF BInv
  <1>6. CASE UNCHANGED vars
    <2>1. Bodies'
      BY <1>6 DEF vars, BInv, Bodies, Passed
    <2> QED
      BY <1>1, <2>1 DEF BInv
  <1> QED
    BY <1>2, <1>3, <1>4, <1>5, <1>6 DEF BrowserNext, BrowserStep, Receive, allvars

LEMMA BInvGives == BInv => ScriptGetsBody
  <1> SUFFICES ASSUME BInv, script.at = "run", ~ link[me].ended,
                      "full" \notin {request.headers[i] : i \in DOMAIN request.headers}
      PROVE  Passed = BodyUnits(Len(Passed))
    BY DEF ScriptGetsBody, Passed
  <1>1. server.at \in {"feed", "relay", "dead"}
    BY DEF BInv, OInv, Child
  <1>2. Whole(link[server.client])
    BY DEF Whole, request, me
  <1>3. Units(Passed)
    BY <1>1, <1>2 DEF BInv, Bodies, ReadSoFar
  <1>4. Passed \in Seq(Tokens) /\ Len(Passed) \in Nat
    BY PassedType DEF BInv
  <1> DEFINE s == Passed
             n == Len(s)
  <1>5. s \in [1 .. n -> Tokens]
    BY <1>4, LenProperties
  <1>6. \A i \in 1 .. n : s[i] = Token("body", i)
    BY <1>3, <1>5 DEF Units
  <1> HIDE DEF s, n
  <1>7. s = [i \in 1 .. n |-> Token("body", i)]
    BY <1>5, <1>6
  <1> QED
    BY <1>7 DEF BodyUnits, s, n

\* The script reads from its standard input the bytes of the body, in order, each
\* once, however the client's sends are cut into segments, get_line, the recv loop
\* of execute_cgi and the pipe interleave, and whenever the parent or it stops.
THEOREM ScriptGetsBodyAlways == BrowserSpec => []ScriptGetsBody
  BY BInit, BStep, BInvGives, PTL DEF BrowserSpec

(***************************************************************************)
(* The descriptors.                                                        *)
(***************************************************************************)
\* As much of the types as the proof needs.
LinkShape(l) ==
  /\ DOMAIN l = Clients
  /\ \A c \in Clients : "at" \in DOMAIN l[c] /\ "answer" \in DOMAIN l[c]

ServerShape(s) == "at" \in DOMAIN s /\ "client" \in DOMAIN s

Shape ==
  /\ LinkShape(link)
  /\ ServerShape(server)
  /\ "at" \in DOMAIN script
  /\ open \in Int /\ faults \in Nat

Served == {c \in Clients : link[c].at = "served"}

\* The connections that accept_request has come back from without closing.
Left == Served \ (IF server.at = "accept" THEN {} ELSE {server.client})

\* The listening socket; with it a connection; with them the two ends of the
\* pipes.
InUse == IF server.at = "accept" THEN 1
         ELSE IF server.at \in {"feed", "relay"} THEN 4 ELSE 2

Engaged ==
  server.at # "accept" =>
    server.client \in Clients /\ link[server.client].at = "served"

\* Nothing is sent before the request is routed, and 501 is sent first.
Unanswered ==
  /\ \A c \in Clients : link[c].at \in {"new", "queued"} => link[c].answer = <<>>
  /\ server.at \in {"request", "unimplemented"} => link[server.client].answer = <<>>

\* The child that has yet to send its status line has a parent that waits.
ParentWaits == script.at = "start" => server.at \in {"feed", "relay", "dead"}

Counted ==
  server.at # "dead" =>
    /\ \A c \in Left : link[c].answer[1] = Status(501)
    /\ open - InUse - Cardinality(Left) \in 0 .. 4 * faults

DInv ==
  /\ Shape /\ IsFiniteSet(Served)
  /\ Engaged /\ Unanswered /\ ParentWaits /\ Counted

LEMMA CountMore ==
  ASSUME NEW a \in Int, NEW n \in Nat, NEW f \in Nat, NEW g \in Nat, NEW more \in Nat,
         a - n \in 0 .. 4 * f, more <= 4 * g - 4 * f,
         NEW b, b = a + more
  PROVE  b - n \in 0 .. 4 * g
  OBVIOUS

\* A step neither opens nor closes a connection, nor sends to another client
\* than the one being served.
OthersKept ==
  \A c \in Clients : /\ link'[c].at = link[c].at
                     /\ c # server.client => link'[c].answer = link[c].answer

AnswersKept ==
  \A c \in Clients : link'[c].at = link[c].at /\ link'[c].answer = link[c].answer

\* A step of a request that is being served: it sends to nobody else, and
\* what it opens is counted.
LEMMA ServingCounts ==
  ASSUME DInv, Shape',
         server.at \notin {"accept", "dead"},
         server'.at # "accept",
         server'.client = server.client,
         OthersKept,
         server'.at \in {"request", "unimplemented"} =>
            /\ server.at = "request"
            /\ link'[server.client].answer = link[server.client].answer,
         script'.at = "start" => server'.at \in {"feed", "relay", "dead"},
         NEW more \in Nat, faults' \in Nat, more <= 4 * faults' - 4 * faults,
         server'.at # "dead" => open' - InUse' = open - InUse + more
  PROVE  DInv'
  <1>1. Served' = Served
    BY DEF Served, OthersKept
  <1>2. IsFiniteSet(Served)'
    BY <1>1 DEF DInv
  <1>3. Engaged'
    BY DEF DInv, Engaged, OthersKept
  <1>4. Unanswered'
    BY DEF DInv, Unanswered, Engaged, OthersKept
  <1>5. ParentWaits'
    BY DEF ParentWaits
  <1>6. Counted'
    <2> SUFFICES ASSUME server'.at # "dead" PROVE Counted'
      BY DEF Counted
    <2>1. Left' = Left /\ server.client \notin Left
      BY <1>1 DEF Left
    <2>2. \A c \in Left' : link'[c].answer[1] = Status(501)
      BY <2>1 DEF DInv, Counted, Left, Served, OthersKept
    <2> DEFINE a == open - InUse
               n == Cardinality(Left)
               b == open' - InUse'
    <2>3. n \in Nat
      BY FS_Subset, FS_CardinalityType DEF DInv, Left
    <2>4. a \in Int
      BY DEF DInv, Shape, InUse
    <2>5. b = a + more
      OBVIOUS
    <2>6. a - n \in 0 .. 4 * faults
      <3>1. server.at # "dead" /\ Counted
        BY DEF DInv
      <3>2. open - InUse - Cardinality(Left) \in 0 .. 4 * faults
        BY <3>1, Zenon DEF Counted
      <3> QED
        BY <3>2, Zenon
    <2>7. Cardinality(Left') = n
      BY <2>1
    <2> HIDE DEF a, b, n
    <2>8. b - n \in 0 .. 4 * faults'
      <3>1. faults \in Nat
        BY DEF DInv, Shape
      <3> QED
        BY <2>3, <2>4, <2>5, <2>6, <3>1, CountMore
    <2> QED
      BY <2>2, <2>7, <2>8 DEF Counted, b
  <1> QED
    BY <1>2, <1>3, <1>4, <1>5, <1>6 DEF DInv

(***************************************************************************)
(* The steps of accept_request and what it calls.                          *)
(***************************************************************************)
\* A change of server's place keeps the rest of it.
LEMMA ServerMoves ==
  ASSUME Shape, NEW place
  PROVE  /\ ServerShape([server EXCEPT !.at = place])
         /\ [server EXCEPT !.at = place].at = place
         /\ [server EXCEPT !.at = place].client = server.client
  BY DEF Shape, ServerShape

LEMMA SendKeeps ==
  ASSUME Shape, NEW tokens, NEW next, ServerShape(next),
         Send(tokens, next)
  PROVE  /\ LinkShape(link') /\ OthersKept
         /\ ServerShape(server')
         /\ server' = next \/ (server'.at = "dead" /\ server'.client = server.client)
  <1>1. /\ link' = [link EXCEPT ![server.client].answer = @ \o tokens]
        /\ server' = next \/ server' = [server EXCEPT !.at = "dead"]
    BY DEF Send, me
  <1>2. LinkShape(link') /\ OthersKept
    BY <1>1 DEF Shape, LinkShape, OthersKept
  <1>3. /\ ServerShape(server')
        /\ server' = next \/ (server'.at = "dead" /\ server'.client = server.client)
    BY <1>1 DEF Shape, ServerShape
  <1> QED
    BY <1>2, <1>3

LEMMA TakeKeeps ==
  ASSUME Shape, TakeLine
  PROVE  LinkShape(link') /\ AnswersKept
  <1> DEFINE x == LineRest
  <1>1. link' = [link EXCEPT ![server.client].input = x]
    BY DEF TakeLine, me
  <1> HIDE DEF x
  <1> QED
    BY <1>1 DEF Shape, LinkShape, AnswersKept

\* Where a request is before anything is forked for it.
Busy == {"unimplemented", "missing", "serve", "cgi", "404", "close", "fopen",
         "post", "400", "pipes"}

LEMMA BusyCounts ==
  ASSUME DInv, Shape',
         server.at \in Busy \cup {"request"},
         server'.at \in Busy \cup {"dead"},
         server'.client = server.client,
         OthersKept,
         server'.at = "unimplemented" =>
            /\ server.at = "request"
            /\ link'[server.client].answer = link[server.client].answer,
         script' = script,
         NEW more \in Nat, more <= 4 * faults' - 4 * faults,
         open' = open + more
  PROVE  DInv'
  <1>1. faults' \in Nat /\ server.at \notin {"accept", "dead"} /\ server'.at # "accept"
    BY DEF Shape, Busy
  <1>2. script'.at = "start" => server'.at \in {"feed", "relay", "dead"}
    BY DEF DInv, ParentWaits, Busy
  <1>3. server'.at # "dead" => open' - InUse' = open - InUse + more
    BY DEF InUse, Busy, DInv, Shape
  <1>4. server'.at \in {"request", "unimplemented"} =>
            /\ server.at = "request"
            /\ link'[server.client].answer = link[server.client].answer
    BY DEF Busy
  <1> QED
    BY <1>1, <1>2, <1>3, <1>4, ServingCounts

\* The steps that read a line and move on.
LEMMA LineCounts ==
  ASSUME DInv, Route \/ DiscardLine \/ PostLine
  PROVE  DInv'
  <1>1. /\ TakeLine
        /\ UNCHANGED <<script, open, faults>>
        /\ server.at \in {"request", "missing", "serve", "cgi", "post"}
    BY DEF Route, DiscardLine, PostLine
  <1>2. LinkShape(link') /\ AnswersKept
    BY <1>1, TakeKeeps DEF DInv
  <1>3. /\ ServerShape(server')
        /\ server'.at \in Busy /\ server'.client = server.client
        /\ server'.at = "unimplemented" => server.at = "request"
    <2>1. CASE Route
      <3>1. \E place \in {"unimplemented", "close", "missing", "serve", "cgi", "post", "pipes"} :
              server' = [server EXCEPT !.at = place] /\ server.at = "request"
        BY <2>1 DEF Route
      <3> QED
        BY <3>1, ServerMoves DEF DInv, Busy
    <2>2. CASE DiscardLine
      <3>1. \/ server' = server
            \/ \E place \in {"404", "fopen", "pipes"} : server' = [server EXCEPT !.at = place]
        BY <2>2 DEF DiscardLine
      <3> QED
        BY <1>1, <2>2, <3>1, ServerMoves DEF DiscardLine, DInv, Shape, Busy
    <2>3. CASE PostLine
      <3>1. \/ server' = server
            \/ server' = [server EXCEPT !.length = request.length]
            \/ \E place \in {"400", "pipes"} : server' = [server EXCEPT !.at = place]
        BY <2>3 DEF PostLine
      <3>2. server.at = "post"
        BY <2>3 DEF PostLine
      <3>3. CASE server' = [server EXCEPT !.length = request.length]
        BY <3>2, <3>3 DEF DInv, Shape, ServerShape, Busy
      <3>4. CASE server' = server
        BY <3>2, <3>4 DEF DInv, Shape, Busy
      <3> QED
        BY <3>1, <3>2, <3>3, <3>4, ServerMoves DEF DInv, Busy
    <2> QED
      BY <2>1, <2>2, <2>3
  <1>4. Shape'
    BY <1>1, <1>2, <1>3 DEF DInv, Shape
  <1> DEFINE more == 0
  <1>5. more \in Nat /\ more <= 4 * faults' - 4 * faults /\ open' = open + more
    BY <1>1 DEF DInv, Shape
  <1>6. /\ server.at \in Busy \cup {"request"} /\ script' = script
        /\ server'.at \in Busy \cup {"dead"}
    BY <1>1, <1>3 DEF Busy
  <1> HIDE DEF more
  <1>7. /\ OthersKept
        /\ server'.at = "unimplemented" =>
             /\ server.at = "request"
             /\ link'[server.client].answer = link[server.client].answer
    BY <1>1, <1>2, <1>3 DEF OthersKept, AnswersKept, DInv, Engaged
  <1> QED
    BY <1>3, <1>4, <1>5, <1>6, <1>7, BusyCounts

\* The steps that answer and close.
LEMMA AnswerCounts ==
  ASSUME DInv, NotFound \/ ServeFile \/ BadRequest \/ CannotExecute
  PROVE  DInv'
  <1>1. /\ server.at \in {"404", "fopen", "400", "pipes"}
        /\ UNCHANGED script
    BY DEF NotFound, ServeFile, BadRequest, CannotExecute
  <1>2. PICK place \in {"close", "dead"} :
           \E tokens : Send(tokens, [server EXCEPT !.at = place])
    BY DEF NotFound, ServeFile, BadRequest, CannotExecute
  <1> DEFINE next == [server EXCEPT !.at = place]
  <1>3. /\ ServerShape(next)
        /\ next.at = place /\ next.client = server.client
    BY ServerMoves DEF DInv
  <1>4. PICK tokens : Send(tokens, next)
    BY <1>2
  <1> HIDE DEF next
  <1>5. /\ LinkShape(link') /\ OthersKept
        /\ ServerShape(server')
        /\ server' = next \/ (server'.at = "dead" /\ server'.client = server.client)
    BY <1>3, <1>4, SendKeeps DEF DInv
  <1>6. PICK more \in {0, 2, 4} : /\ open' = open + more /\ faults' \in Nat
                                 /\ more <= 4 * faults' - 4 * faults
    <2>1. open \in Int /\ faults \in Nat
      BY DEF DInv, Shape
    <2>2. CASE UNCHANGED <<open, faults>>
      BY <2>1, <2>2
    <2>3. CASE CannotExecute
      <3>1. faults' = faults + 1 /\ \E left \in {0, 2, 4} : open' = open + left
        BY <2>3 DEF CannotExecute
      <3> QED
        BY <2>1, <3>1
    <2> QED
      BY <2>2, <2>3 DEF NotFound, ServeFile, BadRequest
  <1>7. more \in Nat /\ open' \in Int
    BY <1>6 DEF DInv, Shape
  <1>8. Shape'
    BY <1>1, <1>5, <1>6, <1>7 DEF DInv, Shape
  <1>9. /\ server.at \in Busy \cup {"request"}
        /\ server'.at \in {"close", "dead"}
        /\ server'.at \in Busy \cup {"dead"} /\ server'.at # "unimplemented"
        /\ server'.client = server.client
    BY <1>1, <1>3, <1>5 DEF Busy
  <1> QED
    BY <1>1, <1>5, <1>6, <1>7, <1>8, <1>9, BusyCounts

\* The child and the pipes are there from Fork to RelayEnd.
LEMMA ForkCounts ==
  ASSUME DInv, Fork
  PROVE  DInv'
  <1>1. PICK place \in {"feed", "relay"} :
           \E tokens : Send(tokens, [server EXCEPT !.at = place])
    BY DEF Fork
  <1> DEFINE next == [server EXCEPT !.at = place]
  <1>2. /\ ServerShape(next)
        /\ next.at = place /\ next.client = server.client
    BY ServerMoves DEF DInv
  <1>3. PICK tokens : Send(tokens, next)
    BY <1>1
  <1> HIDE DEF next
  <1>4. /\ LinkShape(link') /\ OthersKept
        /\ ServerShape(server')
        /\ server' = next \/ (server'.at = "dead" /\ server'.client = server.client)
    BY <1>2, <1>3, SendKeeps DEF DInv
  <1>5. /\ server.at = "pipes" /\ open' = open + 2 /\ faults' = faults
        /\ "at" \in DOMAIN script' /\ open \in Int /\ faults \in Nat
    BY DEF Fork, NoScript, DInv, Shape
  <1>6. Shape'
    BY <1>4, <1>5 DEF Shape
  <1>7. server'.at \in {"feed", "relay", "dead"} /\ server'.client = server.client
    BY <1>2, <1>4
  <1> DEFINE more == 0
  <1>8. /\ more \in Nat /\ faults' \in Nat /\ more <= 4 * faults' - 4 * faults
        /\ server'.at # "dead" => open' - InUse' = open - InUse + more
    BY <1>5, <1>7 DEF InUse
  <1> HIDE DEF more
  <1> QED
    BY <1>2, <1>4, <1>5, <1>6, <1>7, <1>8, ServingCounts

LEMMA FeedCounts ==
  ASSUME DInv, FeedTake \/ FeedWrite \/ FeedEnd
  PROVE  DInv'
  <1>1. server.at = "feed" /\ UNCHANGED <<script, open, faults>>
    BY DEF FeedTake, FeedWrite, FeedEnd
  <1>2. LinkShape(link') /\ OthersKept
    <2>1. CASE FeedTake
      <3>1. \E x : link' = [link EXCEPT ![server.client].input = x]
        BY <2>1 DEF FeedTake, me
      <3> QED
        BY <3>1 DEF DInv, Shape, LinkShape, OthersKept
    <2>2. CASE link' = link
      BY <2>2 DEF DInv, Shape, OthersKept
    <2> QED
      BY <2>1, <2>2 DEF FeedWrite, FeedEnd
  <1>3. /\ ServerShape(server')
        /\ server'.at \in {"feed", "relay", "dead"} /\ server'.client = server.client
    <2>1. CASE FeedTake
      <3>1. \E x, y : server' = [server EXCEPT !.held = x, !.last = y]
        BY <2>1 DEF FeedTake
      <3> QED
        BY <1>1, <3>1 DEF DInv, Shape, ServerShape
    <2>2. CASE \E x, y : server' = [server EXCEPT !.held = x, !.fed = y]
      BY <1>1, <2>2 DEF DInv, Shape, ServerShape
    <2>3. CASE \E place \in {"relay", "dead"} : server' = [server EXCEPT !.at = place]
      BY <2>3, ServerMoves DEF DInv
    <2>4. CASE FeedWrite
      <3>1. \/ server' = [server EXCEPT !.at = "dead"]
            \/ server' = [server EXCEPT !.held = <<>>, !.fed = server.fed + 1]
        BY <2>4 DEF FeedWrite
      <3> QED
        BY <2>2, <2>3, <3>1
    <2> QED
      BY <2>1, <2>3, <2>4 DEF FeedEnd
  <1>4. Shape'
    BY <1>1, <1>2, <1>3 DEF DInv, Shape
  <1> DEFINE more == 0
  <1>5. /\ more \in Nat /\ faults' \in Nat /\ more <= 4 * faults' - 4 * faults
        /\ server'.at # "dead" => open' - InUse' = open - InUse + more
    BY <1>1, <1>3 DEF InUse, DInv, Shape
  <1> HIDE DEF more
  <1> QED
    BY <1>1, <1>2, <1>3, <1>4, <1>5, ServingCounts

LEMMA RelayCounts ==
  ASSUME DInv, Relay \/ RelayEnd
  PROVE  DInv'
  <1>1. server.at = "relay" /\ UNCHANGED <<script, faults>>
    BY DEF Relay, RelayEnd
  <1>2. CASE Relay
    <2>1. open' = open /\ \E tokens : Send(tokens, server)
      BY <1>2 DEF Relay
    <2>2. PICK tokens : Send(tokens, server)
      BY <2>1
    <2>3. /\ LinkShape(link') /\ OthersKept /\ ServerShape(server')
          /\ server' = server \/ (server'.at = "dead" /\ server'.client = server.client)
      BY <2>2, SendKeeps DEF DInv, Shape
    <2>4. Shape'
      BY <1>1, <2>1, <2>3 DEF DInv, Shape
    <2> DEFINE more == 0
    <2>5. /\ more \in Nat /\ faults' \in Nat /\ more <= 4 * faults' - 4 * faults
          /\ server'.at # "dead" => open' - InUse' = open - InUse + more
      BY <1>1, <2>1, <2>3 DEF InUse, DInv, Shape
    <2>6. server'.at \in {"relay", "dead"}
      BY <1>1, <2>3
    <2> HIDE DEF more
    <2> QED
      BY <1>1, <2>3, <2>4, <2>5, <2>6, ServingCounts
  <1>3. CASE RelayEnd
    <2>1. /\ script.at = "ended" /\ server' = [server EXCEPT !.at = "close"]
          /\ open' = open - 2 /\ link' = link
      BY <1>3 DEF RelayEnd
    <2>2. /\ ServerShape(server') /\ server'.at = "close"
          /\ server'.client = server.client
      BY <2>1, ServerMoves DEF DInv
    <2>3. LinkShape(link') /\ OthersKept
      BY <2>1 DEF DInv, Shape, OthersKept
    <2>4. Shape'
      BY <1>1, <2>1, <2>2, <2>3 DEF DInv, Shape
    <2> DEFINE more == 0
    <2>5. /\ more \in Nat /\ faults' \in Nat /\ more <= 4 * faults' - 4 * faults
          /\ server'.at # "dead" => open' - InUse' = open - InUse + more
      BY <1>1, <2>1, <2>2 DEF InUse, DInv, Shape
    <2> HIDE DEF more
    <2> QED
      BY <1>1, <2>1, <2>2, <2>3, <2>4, <2>5, ServingCounts
  <1> QED
    BY <1>2, <1>3

(***************************************************************************)
(* Between two requests.                                                   *)
(***************************************************************************)
LEMMA AcceptCounts ==
  ASSUME DInv, NEW c \in Clients, Accept(c)
  PROVE  DInv'
  <1>1. /\ server.at = "accept" /\ link[c].at = "queued"
        /\ server' = [server EXCEPT !.at = "request", !.client = c]
        /\ link' = [link EXCEPT ![c].at = "served"]
        /\ open' = open + 1
        /\ UNCHANGED <<script, faults>>
    BY DEF Accept
  <1>2. /\ ServerShape(server') /\ server'.at = "request" /\ server'.client = c
    BY <1>1 DEF DInv, Shape, ServerShape
  <1>3. /\ LinkShape(link') /\ link'[c].at = "served"
        /\ \A d \in Clients : /\ d # c => link'[d].at = link[d].at
                             /\ link'[d].answer = link[d].answer
    BY <1>1 DEF DInv, Shape, LinkShape
  <1>4. Shape'
    BY <1>1, <1>2, <1>3 DEF DInv, Shape
  <1>5. Served' = Served \cup {c} /\ c \notin Served
    BY <1>1, <1>3 DEF Served
  <1>6. IsFiniteSet(Served)'
    BY <1>5, FS_AddElement DEF DInv
  <1>7. Left' = Served /\ Left = Served
    BY <1>1, <1>2, <1>5 DEF Left
  <1>8. Counted'
    <2>1. \A d \in Left' : link'[d].answer[1] = Status(501)
      BY <1>1, <1>3, <1>7 DEF DInv, Counted, Served
    <2>2. InUse = 1 /\ InUse' = 2
      BY <1>1, <1>2 DEF InUse
    <2>3. open \in Int /\ open - InUse = open' - InUse'
      BY <1>1, <2>2 DEF DInv, Shape
    <2>4. open - InUse - Cardinality(Left) \in 0 .. 4 * faults
      BY <1>1 DEF DInv, Counted
    <2>5. open' - InUse' - Cardinality(Left') \in 0 .. 4 * faults'
      BY <1>1, <1>7, <2>3, <2>4
    <2> QED
      BY <2>1, <2>5 DEF Counted
  <1>9. Engaged' /\ Unanswered'
    BY <1>1, <1>2, <1>3 DEF Engaged, Unanswered, DInv
  <1>10. ParentWaits'
    BY <1>1, <1>2 DEF ParentWaits, DInv
  <1> QED
    BY <1>4, <1>6, <1>8, <1>9, <1>10 DEF DInv

LEMMA UnimplementedCounts ==
  ASSUME DInv, Unimplemented
  PROVE  DInv'
  <1> DEFINE c == server.client
             tokens == <<Status(501), EndOfHeader, Token("body", 0)>>
  <1>1. /\ server.at = "unimplemented" /\ UNCHANGED <<script, open, faults>>
        /\ Send(tokens, Idle)
    BY DEF Unimplemented
  <1>2. ServerShape(Idle) /\ Idle.at = "accept"
    BY DEF Idle, ServerShape
  <1>3. link[c].answer = <<>> /\ c \in Clients /\ link[c].at = "served"
    BY <1>1 DEF DInv, Unanswered, Engaged
  <1>4. /\ LinkShape(link') /\ OthersKept /\ ServerShape(server')
        /\ server' = Idle \/ (server'.at = "dead" /\ server'.client = server.client)
    <2> HIDE DEF tokens
    <2> QED
      BY <1>1, <1>2, SendKeeps DEF DInv
  <1>5. link'[c].answer[1] = Status(501)
    <2>1. link'[c].answer = link[c].answer \o tokens
      <3> HIDE DEF tokens
      <3> QED
        BY <1>1, <1>3 DEF Send, me, DInv, Shape, LinkShape
    <2>2. <<>> \o tokens = tokens
      BY DEF Status, EndOfHeader, Token
    <2> QED
      BY <1>3, <2>1, <2>2
  <1>6. Shape'
    BY <1>1, <1>4 DEF DInv, Shape
  <1>7. Served' = Served /\ c \in Served
    BY <1>3, <1>4 DEF Served, OthersKept
  <1>8. IsFiniteSet(Served)'
    BY <1>7 DEF DInv
  <1>9. server'.at \in {"accept", "dead"}
    BY <1>2, <1>4
  <1>10. Engaged' /\ ParentWaits'
    BY <1>1, <1>2, <1>3, <1>4, <1>9 DEF Engaged, ParentWaits, OthersKept, DInv
  <1>11. Unanswered'
    BY <1>3, <1>4, <1>9 DEF Unanswered, OthersKept, DInv
  <1>12. Counted'
    <2> SUFFICES ASSUME server'.at # "dead" PROVE Counted'
      BY DEF Counted
    <2>1. server'.at = "accept"
      BY <1>9
    <2>2. Left' = Left \cup {c} /\ c \notin Left /\ Left \subseteq Served
      BY <1>1, <1>7, <2>1 DEF Left
    <2>3. \A d \in Left' : link'[d].answer[1] = Status(501)
      BY <1>1, <1>4, <1>5, <2>2 DEF DInv, Counted, Served, OthersKept
    <2>4. IsFiniteSet(Left)
      BY <2>2, FS_Subset DEF DInv
    <2> DEFINE n == Cardinality(Left)
    <2>5. n \in Nat /\ Cardinality(Left') = n + 1
      BY <2>2, <2>4, FS_AddElement, FS_CardinalityType
    <2>6. open - InUse - n \in 0 .. 4 * faults
      BY <1>1 DEF DInv, Counted
    <2>7. InUse = 2 /\ InUse' = 1 /\ open \in Int
      BY <1>1, <2>1 DEF InUse, DInv, Shape
    <2> HIDE DEF n
    <2>8. open' - InUse' - Cardinality(Left') = open - InUse - n
      BY <1>1, <2>5, <2>7
    <2> QED
      BY <1>1, <2>3, <2>6, <2>8 DEF Counted
  <1> QED
    BY <1>6, <1>8, <1>10, <1>11, <1>12 DEF DInv

LEMMA CloseCounts ==
  ASSUME DInv, Close
  PROVE  DInv'
  <1> DEFINE c == server.client
  <1>1. /\ server.at = "close" /\ server' = Idle /\ script' = NoScript
        /\ open' = open - 1 /\ faults' = faults
        /\ \E x : link' = [link EXCEPT ![c].at = "closed", ![c].reset = x]
    BY DEF Close, me
  <1>2. /\ ServerShape(server') /\ server'.at = "accept"
        /\ "at" \in DOMAIN script' /\ script'.at = "none"
    BY <1>1 DEF Idle, NoScript, ServerShape
  <1>3. c \in Clients /\ link[c].at = "served"
    BY <1>1 DEF DInv, Engaged
  <1>4. /\ LinkShape(link') /\ link'[c].at = "closed"
        /\ \A d \in Clients : /\ d # c => link'[d].at = link[d].at
                             /\ link'[d].answer = link[d].answer
    BY <1>1, <1>3 DEF DInv, Shape, LinkShape
  <1>5. Shape'
    BY <1>1, <1>2, <1>4 DEF DInv, Shape
  <1>6. Served' = Served \ {c}
    BY <1>4 DEF Served
  <1>7. IsFiniteSet(Served)'
    BY <1>6, FS_RemoveElement DEF DInv
  <1>8. Left' = Left /\ Left \subseteq Served
    BY <1>1, <1>2, <1>6 DEF Left
  <1>9. Counted'
    <2>1. \A d \in Left' : link'[d].answer[1] = Status(501)
      <3>1. \A d \in Left : link[d].answer[1] = Status(501)
        BY <1>1 DEF DInv, Counted
      <3>2. \A d \in Left : d \in Clients
        BY <1>8 DEF Served
      <3> QED
        BY <1>4, <1>8, <3>1, <3>2
    <2>2. InUse = 2 /\ InUse' = 1 /\ open \in Int
      BY <1>1, <1>2 DEF InUse, DInv, Shape
    <2>3. open - InUse = open' - InUse'
      BY <1>1, <2>2
    <2>4. open - InUse - Cardinality(Left) \in 0 .. 4 * faults
      BY <1>1 DEF DInv, Counted
    <2> QED
      BY <1>1, <1>8, <2>1, <2>3, <2>4 DEF Counted
  <1>10. Engaged' /\ ParentWaits'
    BY <1>2 DEF Engaged, ParentWaits
  <1>11. Unanswered'
    BY <1>2, <1>4 DEF Unanswered, DInv
  <1> QED
    BY <1>5, <1>7, <1>9, <1>10, <1>11 DEF DInv

(***************************************************************************)
(* The child, the clients and the browser.                                 *)
(***************************************************************************)
\* Steps that leave the server alone, and of the connections their places
\* and the answers of those that are served no more.
LEMMA OutsideCounts ==
  ASSUME DInv, UNCHANGED <<server, open, faults>>,
         LinkShape(link'), "at" \in DOMAIN script',
         script'.at = "start" => script.at = "start",
         Served' = Served,
         \A c \in Clients :
           /\ server.at \notin {"feed", "relay", "dead"} \/ c # server.client =>
                link'[c].answer = link[c].answer
           /\ link'[c].at \in {"new", "queued"} =>
                link[c].at \in {"new", "queued"} /\ link'[c].answer = link[c].answer
  PROVE  DInv'
  <1>1. Shape'
    BY DEF DInv, Shape
  <1>2. Left' = Left /\ InUse' = InUse
    BY DEF Left, InUse
  <1>3. IsFiniteSet(Served)'
    BY DEF DInv
  <1>4. Engaged'
    BY DEF DInv, Engaged, Served
  <1>5. Unanswered'
    BY DEF DInv, Unanswered, Engaged
  <1>6. ParentWaits'
    BY DEF DInv, ParentWaits
  <1>7. Counted'
    <2> SUFFICES ASSUME server.at # "dead" PROVE Counted'
      BY DEF Counted
    <2>1. /\ \A c \in Left : link[c].answer[1] = Status(501)
          /\ open - InUse - Cardinality(Left) \in 0 .. 4 * faults
      BY DEF DInv, Counted
    <2>2. \A c \in Left : link'[c].answer = link[c].answer
      BY DEF Left, Served, Engaged, DInv
    <2>3. \A c \in Left' : link'[c].answer[1] = Status(501)
      BY <1>2, <2>1, <2>2
    <2> QED
      BY <1>2, <2>1, <2>3 DEF Counted
  <1> QED
    BY <1>1, <1>3, <1>4, <1>5, <1>6, <1>7 DEF DInv

LEMMA ScriptCounts ==
  ASSUME DInv, Script
  PROVE  DInv'
  <1>1. UNCHANGED <<server, open, faults>>
    BY DEF Script, ScriptStart, ScriptRead, ScriptWrite, ScriptEnd
  <1>2. "at" \in DOMAIN script' /\ script'.at # "start"
    <2>1. ASSUME ScriptStart PROVE "at" \in DOMAIN script' /\ script'.at # "start"
      <3>1. \/ script' = [script EXCEPT !.at = "ended"]
            \/ \E x : script' = [script EXCEPT !.at = "run", !.does = x]
        BY <2>1 DEF ScriptStart
      <3> QED
        BY <3>1 DEF DInv, Shape
    <2>2. ASSUME ScriptRead PROVE "at" \in DOMAIN script' /\ script'.at # "start"
      <3>1. script.at = "run" /\ \E x : script' = [script EXCEPT !.took = x]
        BY <2>2 DEF ScriptRead
      <3> QED
        BY <3>1 DEF DInv, Shape
    <2>3. ASSUME ScriptWrite PROVE "at" \in DOMAIN script' /\ script'.at # "start"
      <3>1. script.at = "run" /\ \E x : script' = [script EXCEPT !.wrote = x]
        BY <2>3 DEF ScriptWrite
      <3> QED
        BY <3>1 DEF DInv, Shape
    <2>4. ASSUME ScriptEnd PROVE "at" \in DOMAIN script' /\ script'.at # "start"
      BY <2>4 DEF ScriptEnd, DInv, Shape
    <2> QED
      BY <2>1, <2>2, <2>3, <2>4 DEF Script
  <1>3. CASE link' = link
    BY <1>1, <1>2, <1>3, OutsideCounts DEF DInv, Shape, Served
  <1>4. CASE ScriptStart
    <2>1. /\ script.at = "start"
          /\ \E x : link' = [link EXCEPT ![server.client].answer = x]
      BY <1>4, ZenonT(40) DEF ScriptStart, me
    <2>2. server.at \in {"feed", "relay", "dead"}
      BY <2>1 DEF DInv, ParentWaits
    <2>3. LinkShape(link') /\ OthersKept
      BY <2>1 DEF DInv, Shape, LinkShape, OthersKept
    <2>4. Served' = Served
      BY <2>3 DEF Served, OthersKept
    <2>5. \A c \in Clients : link[c].at \in {"new", "queued"} => c # server.client
      BY <2>2 DEF DInv, Engaged
    <2> QED
      BY <1>1, <1>2, <2>2, <2>3, <2>4, <2>5, OutsideCounts DEF OthersKept
  <1> QED
    BY <1>3, <1>4 DEF Script, ScriptRead, ScriptWrite, ScriptEnd

LEMMA ClientCounts ==
  ASSUME DInv, NEW c \in Clients,
         Surroundings(c) \/ \E r \in Buttons : Press(c, r)
  PROVE  DInv'
  <1>1. UNCHANGED <<server, script, open, faults>>
    BY DEF Surroundings, Connect, ClientSend, ClientClose, Press
  <1> DEFINE Moved ==
        /\ link'[c].at = link[c].at \/ (link[c].at = "new" /\ link'[c].at = "queued")
        /\ link'[c].answer = link[c].answer
        /\ \A d \in Clients : d # c => link'[d] = link[d]
        /\ LinkShape(link')
  <1>2. Moved
    <2> USE DEF DInv, Shape, LinkShape
    <2>1. ASSUME NEW r, Connect(c, r) \/ Press(c, r) PROVE Moved
      <3>1. \/ \E x : link' = [link EXCEPT ![c].at = "queued", ![c].request = r, ![c].unsent = x]
            \/ \E x : link' = [link EXCEPT ![c].at = "queued", ![c].request = r, ![c].input = x]
        BY <2>1 DEF Connect, Press
      <3>2. link[c].at = "new"
        BY <2>1 DEF Connect, Press
      <3> QED
        BY <3>1, <3>2
    <2>2. ASSUME NEW n, ClientSend(c, n) PROVE Moved
      <3>1. \E x, y : link' = [link EXCEPT ![c].input = x, ![c].unsent = y]
        BY <2>2 DEF ClientSend
      <3> QED
        BY <3>1
    <2>3. ASSUME ClientClose(c) PROVE Moved
      BY <2>3 DEF ClientClose
    <2> QED
      BY <2>1, <2>2, <2>3 DEF Surroundings
  <1>3. Served' = Served
    BY <1>2 DEF Served
  <1> QED
    BY <1>1, <1>2, <1>3, OutsideCounts DEF DInv, Shape

LEMMA DStep == DInv /\ [BrowserNext]_allvars => DInv'
  <1> SUFFICES ASSUME DInv, [BrowserNext]_allvars PROVE DInv'
    OBVIOUS
  <1>1. ASSUME UNCHANGED vars PROVE DInv'
    <2>1. UNCHANGED <<server, open, faults, link, script>>
      BY <1>1 DEF vars
    <2>2. Served' = Served
      BY <2>1 DEF Served
    <2> QED
      BY <2>1, <2>2, OutsideCounts DEF DInv, Shape
  <1>2. CASE Process /\ UNCHANGED view
    <2>1. CASE \E c \in Clients : Accept(c)
      BY <2>1, AcceptCounts
    <2>2. CASE Route \/ DiscardLine \/ PostLine
      BY <2>2, LineCounts
    <2>3. CASE NotFound \/ ServeFile \/ BadRequest \/ CannotExecute
      BY <2>3, AnswerCounts
    <2>4. CASE FeedTake \/ FeedWrite \/ FeedEnd
      BY <2>4, FeedCounts
    <2>5. CASE Relay \/ RelayEnd
      BY <2>5, RelayCounts
    <2> QED
      BY <1>2, <2>1, <2>2, <2>3, <2>4, <2>5, UnimplementedCounts, CloseCounts, ForkCounts
      DEF Process
  <1>3. CASE Script
    BY <1>3, ScriptCounts
  <1>4. CASE \E c \in Clients, r \in Buttons : Press(c, r)
    BY <1>4, ClientCounts
  <1>5. CASE Others
    BY <1>5, ClientCounts DEF Others
  <1>6. CASE Receive
    BY <1>1, <1>6 DEF Receive
  <1>7. CASE UNCHANGED allvars
    BY <1>1, <1>7 DEF allvars
  <1> QED
    BY <1>2, <1>3, <1>4, <1>5, <1>6, <1>7 DEF BrowserNext, BrowserStep

LEMMA DInit == BrowserInit => DInv
  <1> SUFFICES ASSUME BrowserInit PROVE DInv
    OBVIOUS
  <1>1. /\ link = [c \in Clients |->
                  [at |-> "new", request |-> NoRequest, unsent |-> <<>>, input |-> <<>>,
                   ended |-> FALSE, answer |-> <<>>, reset |-> FALSE]]
        /\ server = Idle /\ script = NoScript /\ open = 1 /\ faults = 0
    BY DEF BrowserInit, Init
  <1>2. /\ LinkShape(link)
        /\ \A c \in Clients : link[c].at = "new" /\ link[c].answer = <<>>
    BY <1>1 DEF LinkShape
  <1>3. ServerShape(server) /\ server.at = "accept" /\ "at" \in DOMAIN script /\ script.at = "none"
    BY <1>1 DEF Idle, NoScript, ServerShape
  <1>4. Served = {} /\ Left = {}
    BY <1>2 DEF Served, Left
  <1>5. IsFiniteSet(Served) /\ Cardinality(Left) = 0
    BY <1>4, FS_EmptySet
  <1>6. Shape
    BY <1>1, <1>2, <1>3 DEF Shape
  <1>7. Engaged /\ Unanswered /\ ParentWaits
    BY <1>2, <1>3 DEF Engaged, Unanswered, ParentWaits
  <1>8. Counted
    BY <1>1, <1>3, <1>4, <1>5 DEF Counted, InUse
  <1> QED
    BY <1>5, <1>6, <1>7, <1>8 DEF DInv

LEMMA DInvGives == DInv => DescriptorsAccounted
  <1> SUFFICES ASSUME DInv, server.at = "accept" PROVE DescriptorsAccounted
    BY DEF DescriptorsAccounted
  <1>1. Left = {c \in Clients : link[c].at = "served"} /\ InUse = 1
    BY DEF Left, Served, InUse
  <1> QED
    BY <1>1 DEF DInv, Counted, DescriptorsAccounted

\* accept_request, serve_file and execute_cgi give back every descriptor they
\* take, on all ways but two: a 501, and a pipe or a fork that fails.  So it is
\* for any clients, requests, files, scripts and pipe sizes, and however often
\* clients close early.
THEOREM DescriptorsAccountedAlways == BrowserSpec => []DescriptorsAccounted
  BY DInit, DStep, DInvGives, PTL DEF BrowserSpec
================================================================================
