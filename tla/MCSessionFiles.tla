--------------------------- MODULE MCSessionFiles ---------------------------
(* Instances of SessionFiles: one job with two calls of a wave, or two jobs  *)
(* with a command or a call each.                                          *)
EXTENDS SessionFiles, TLC

CONSTANTS JobA, JobB, A1, A2, B1

MCJobOf == (A1 :> JobA) @@ (A2 :> JobA) @@ (B1 :> JobB)
MCFields == {"path", "file", "file_path", "urls", "url", "command", "cmd"}

Alias(from, to) == [from |-> from, to |-> to]
MCTools ==
  [read |-> [fields |-> {"path"}, required |-> {"path"}, lists |-> {}, wrapped |-> {},
             aliases |-> <<Alias("file", "path"), Alias("file_path", "path")>>,
             process |-> FALSE],
   write |-> [fields |-> {"path"}, required |-> {"path"}, lists |-> {}, wrapped |-> {},
              aliases |-> <<Alias("file_path", "path")>>, process |-> FALSE],
   check |-> [fields |-> {"urls"}, required |-> {"urls"}, lists |-> {"urls"},
              wrapped |-> {"urls"}, aliases |-> <<Alias("url", "urls")>>, process |-> FALSE],
   command |-> [fields |-> {"command"}, required |-> {"command"}, lists |-> {},
                wrapped |-> {}, aliases |-> <<Alias("cmd", "command")>>, process |-> TRUE]]

File(cat, name, type) == [cat |-> cat, name |-> name, type |-> type]
Ask(tool, args) == [tool |-> tool, args |-> args, writes |-> {}]
Aliased == Ask("write", [file_path |-> "text"])
Ill == Ask("read", [path |-> "list"])
TwiceGiven == Ask("read", [file |-> "text", file_path |-> "text"])
Checked == Ask("check", [url |-> "text", path |-> "text"])
Wrapped == Ask("check", [url |-> "text"])
Unknown == Ask("guess", [path |-> "text"])
Command == Ask("command", [cmd |-> "text"])
Data == [Aliased EXCEPT !.writes = {File("output", "data", "json")}]
Page == [Command EXCEPT !.writes = {File("product", "final_output", "md")}]

\* Two calls of one wave that are both rejected; a command of one job beside a
\* call of another; a call alone.
MCWaves == {(A1 :> Ill) @@ (A2 :> Checked), (A1 :> Page) @@ (B1 :> Unknown)}
           \cup {(B1 :> b) : b \in {Wrapped, TwiceGiven, Data}}

\* A command and a file tool of two jobs.
ApartWaves == {(A1 :> Page) @@ (B1 :> Aliased)}

MCFound == {<<Earlier>>, Torn}
MCFinals == {"none", "md"}
=============================================================================
