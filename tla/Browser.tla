------------------------------- MODULE Browser --------------------------------
(***************************************************************************)
(* The browser (Browser/WebBrowser.cpp) on connections of Httpd, next to   *)
(* other clients.  A button sends one request; GET and HEAD then receive   *)
(* into data_buf until the connection ends, look for the end of the header *)
(* and write what follows to data.html.  data_buf is never cleared.        *)
(***************************************************************************)
EXTENDS Httpd

CONSTANTS
  Buttons,    \* the requests that the three buttons send
  BufUnits    \* HTTP_BUF_SIZE

ASSUME BrowserAssumption ==
  /\ \A r \in Buttons : r.method \in {"GET", "HEAD", "DELETE"} /\ r.body = 0
  /\ Buttons \subseteq Requests
  /\ BufUnits \in Nat

VARIABLES
  browser,   \* where it is, on which connection, and all it used
  buffer,    \* data_buf
  page,      \* for each connection, what was written to data.html
  overrun    \* data was written behind data_buf

view == <<browser, buffer, page, overrun>>
allvars == <<vars, view>>

NoPage == <<Token("none", 0)>>

BrowserInit ==
  /\ Init
  /\ browser = [at |-> "ready", on |-> Nobody, uses |-> {}]
  /\ buffer = <<>>
  /\ page = [c \in Clients |-> NoPage]
  /\ overrun = FALSE

\* send_request sends everything at once; after DELETE it does not wait.
Press(c, r) ==
  /\ browser.at = "ready"
  /\ link[c].at = "new"
  /\ link' = [link EXCEPT ![c].at = "queued", ![c].request = r, ![c].input = Stream(r)]
  /\ browser' = [at |-> IF r.method = "DELETE" THEN "ready" ELSE "waiting",
                 on |-> c, uses |-> browser.uses \cup {c}]
  /\ UNCHANGED <<server, script, stdin, stdout, files, open, faults, closes, buffer, page, overrun>>

\* The connection has ended for the browser; a script that outlives the server
\* holds it open.
Ended(c) ==
  \/ link[c].at = "closed"
  \/ server.at = "dead" /\ script.at \notin {"start", "run"}

Reset(c) == link[c].reset \/ (link[c].at # "closed" /\ link[c].input # <<>>)

Ends(data) == {i \in DOMAIN data : data[i] = EndOfHeader}
FirstEnd(data) == CHOOSE i \in Ends(data) : \A j \in Ends(data) : i <= j

\* Mutant: what the first recv gives is taken for the answer.
BugOneRecv ==
  /\ browser.at = "waiting"
  /\ LET c == browser.on
         answer == link[c].answer
     IN  /\ Ends(answer) # {}
         /\ \E n \in FirstEnd(answer) .. Len(answer) :
              LET data == SubSeq(answer, 1, n) \o SubSeq(buffer, n + 1, Len(buffer))
              IN  /\ buffer' = data
                  /\ page' = [page EXCEPT ![c] = SubSeq(data, FirstEnd(data) + 1, n)]
                  /\ browser' = [browser EXCEPT !.at = "ready"]
  /\ UNCHANGED <<vars, overrun>>

\* After a reset recv gives -1, which is added to the length.
Receive ==
  /\ browser.at = "waiting"
  /\ LET c == browser.on
         answer == link[c].answer
     IN  /\ Ended(c)
         /\ \E n \in IF Reset(c) THEN 0 .. Len(answer) ELSE {Len(answer)} :
              LET data == SubSeq(answer, 1, n) \o SubSeq(buffer, n + 1, Len(buffer))
                  size == IF Reset(c) THEN n - 1 ELSE n
              IN  /\ buffer' = data
                  /\ overrun' = (overrun \/ n > BufUnits)
                  /\ IF Ends(data) # {} /\ FirstEnd(data) <= size
                       THEN /\ page' = [page EXCEPT ![c] = SubSeq(data, FirstEnd(data) + 1, size)]
                            /\ browser' = [browser EXCEPT !.at = "ready"]
                       ELSE /\ browser' = [browser EXCEPT !.at = "crashed"]
                            /\ UNCHANGED page
  /\ UNCHANGED vars

BrowserStep == \/ \E c \in Clients, r \in Buttons : Press(c, r)
               \/ Receive

Others == \E c \in Clients \ browser.uses : Surroundings(c)

BrowserNext == BrowserStep \/ ((Process \/ Script \/ Others) /\ UNCHANGED view)

BrowserSpec ==
  /\ BrowserInit /\ [][BrowserNext]_allvars
  /\ WF_allvars(Process /\ UNCHANGED view)
  /\ WF_allvars(Script /\ UNCHANGED view)

------------------------------------------------------------------------------
TypeOK ==
  /\ ServerTypeOK
  /\ browser.at \in {"ready", "waiting", "crashed"}
  /\ browser.on \in Clients \cup {Nobody}

\* Of answers that fit into data_buf: what data.html gets is what the server
\* sent behind the header, and nothing of an earlier answer; and an answer that
\* has the end of a header and is not cut off by a reset never crashes the
\* browser.
PageIsAnswer ==
  overrun \/
  /\ \A c \in Clients :
       (page[c] # NoPage /\ ~ Reset(c)) =>
         page[c] = SubSeq(link[c].answer, FirstEnd(link[c].answer) + 1, Len(link[c].answer))
  /\ browser.at = "crashed" =>
       Ends(link[browser.on].answer) = {} \/ Reset(browser.on)
==============================================================================
