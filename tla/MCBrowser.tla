------------------------------ MODULE MCBrowser -------------------------------
(***************************************************************************)
(* Values for Browser: htdocs with a page, a page whose last line has no   *)
(* newline, a page that cannot be read, a script and a directory, and the  *)
(* requests that take each way through the server.                         *)
(***************************************************************************)
EXTENDS Browser

Entry(directory, executable, readable, lines, terminated) ==
  [directory |-> directory, executable |-> executable, readable |-> readable,
   lines |-> lines, terminated |-> terminated]

MCTargets ==
  [name \in {"index.html", "wth.html", "secret.html", "adder", "dir"} |->
     CASE name = "index.html"  -> Entry(FALSE, FALSE, TRUE, 2, TRUE)
       [] name = "wth.html"    -> Entry(FALSE, FALSE, TRUE, 2, FALSE)
       [] name = "secret.html" -> Entry(FALSE, FALSE, FALSE, 1, TRUE)
       [] name = "adder"       -> Entry(FALSE, TRUE, TRUE, 1, TRUE)
       [] name = "dir"         -> Entry(TRUE, FALSE, TRUE, 1, TRUE)]

Ask(method, target, headers, length, body, query) ==
  [method |-> method, target |-> target, headers |-> headers, length |-> length,
   body |-> body, query |-> query]

MCButtons ==
  {Ask("GET", "wth.html", <<"line">>, NoLength, 0, FALSE),
   Ask("GET", "adder", <<"line">>, NoLength, 0, TRUE),
   Ask("GET", "dir", <<"line">>, NoLength, 0, FALSE),
   Ask("HEAD", "index.html", <<"line">>, NoLength, 0, FALSE),
   Ask("HEAD", "adder", <<"line">>, NoLength, 0, FALSE),
   Ask("DELETE", "wth.html", <<"line">>, NoLength, 0, FALSE)}

MCRequests == MCButtons \cup
  {Ask("POST", "adder", <<"length">>, 2, 2, FALSE),
   Ask("POST", "adder", <<"full", "length">>, 1, 1, FALSE),
   Ask("POST", "adder", <<>>, NoLength, 1, FALSE),
   Ask("POST", "index.html", <<"length">>, 1, 1, FALSE),
   Ask("GET", "secret.html", <<>>, NoLength, 0, FALSE),
   Ask("GET", "missing.html", <<>>, NoLength, 0, FALSE),
   Ask("OTHER", "index.html", <<>>, NoLength, 0, FALSE)}
===============================================================================
