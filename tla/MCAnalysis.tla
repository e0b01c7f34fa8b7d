----------------------------- MODULE MCAnalysis -----------------------------
(***************************************************************************)
(* Analysis on diffs of two kinds: a few with tools, whose messages meet   *)
(* at one line of one file, and all short diffs over five patch sizes      *)
(* without tools, for the batches of the language model.                   *)
(***************************************************************************)
EXTENDS Analysis

\* Two spellings of one issue, and another issue.
MCFolded == [Leak |-> "leak", leak |-> "leak", loop |-> "loop"]

\* "x.py" is no path of a diff but the end of the paths 1 and 2.
MCEndingWith == [p \in {9} |-> {1, 2}]

Change(path, ext, status, bytes) == [path |-> path, ext |-> ext, status |-> status, bytes |-> bytes]

\* A python file and a document; a python and a script file; a deleted one too.
ToolRequests ==
  {[changes |-> <<Change(1, ".py", "M", 3), Change(2, ".md", "A", 2)>>,
    enabled |-> {"pylint", "flake8", "mypy", "bandit"}],
   [changes |-> <<Change(1, ".py", "M", 4), Change(2, ".ts", "X", 1), Change(3, ".py", "D", 2)>>,
    enabled |-> {"pylint", "eslint", "bandit", "semgrep"}]}

\* 9 is larger than MaxPatchBytes, 0 is no patch.
Sizes == {0, 1, 4, 6, 9}
BatchRequests ==
  {[changes |-> [n \in DOMAIN s |-> Change(n, IF n = 3 THEN ".go" ELSE ".py", "M", s[n])],
    enabled |-> {}] : s \in UNION {[1..k -> Sizes] : k \in 1..4}}

MCRequests == ToolRequests \cup BatchRequests

Message(rule, level, path, line, text) ==
  [rule |-> rule, level |-> level, path |-> path, line |-> line, text |-> text]

MCOutputs ==
  [pylint  |-> {<<Message("W0702", "warning", 1, 3, "leak"), Message("C0301", "convention", 1, 3, "loop")>>,
                <<Message("E1101", "error", 1, 0, "loop"), Message("", "fatal", 1, 3, "leak")>>},
   flake8  |-> {<<Message("F841", "F8", 1, 3, "Leak"), Message("E501", "E5", 1, 3, "loop")>>},
   mypy    |-> {<<Message("index", "error", 1, 3, "Leak"), Message("", "note", 1, 3, "loop")>>,
                <<Message("misc", "error", 1, -1, "loop")>>},
   eslint  |-> {<<Message("no-eval", "1", 2, 3, "leak"), Message("eqeqeq", "2", 2, 4, "loop")>>},
   bandit  |-> {<<Message("B105", "error", 1, 3, "leak"), Message("B101", "none", 1, 4, "loop")>>},
   semgrep |-> {<<Message("leak-rule", "error", 1, 3, "leak"), Message("leak-rule", "", 2, 3, "Leak")>>}]

Item(shape, path, line, severity, confidence, text) ==
  [shape |-> shape, path |-> path, line |-> line, severity |-> severity,
   confidence |-> confidence, tag |-> NoTag, text |-> text]

Reply(kind, items) == [kind |-> kind, items |-> items]

MCReplies ==
  {Reply("error", <<>>), Reply("garbled", <<>>),
   Reply("items", <<Item("dict", 1, 3, "CRITICAL", "HIGH", "leak"), Item("other", 1, 3, "LOW", "LOW", "loop")>>),
   Reply("items", <<Item("dict", 9, 3, "", "", "Leak"), Item("dict", 0, 3, "LOW", "LOW", "loop")>>),
   Reply("items", <<Item("dict", 1, 3, "LOW", "LOW", "leak"), Item("broken", 1, 3, "LOW", "LOW", "loop")>>)}
=============================================================================
