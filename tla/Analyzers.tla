------------------------------ MODULE Analyzers ------------------------------
(***************************************************************************)
(* StaticAnalysisAgent and SecurityAnalysisAgent (agents/static_analysis,  *)
(* agents/security): which tools run on a diff, what each makes of its     *)
(* messages, and how the agent joins what the tools return.                *)
(*                                                                         *)
(* A changed file is [path, ext, change, size], size being the length of   *)
(* its patch (0: no patch).  A message of a tool is                        *)
(*    [rule, level, path, line, text]                                      *)
(* where level is the type of a pylint message, the first two characters   *)
(* of a flake8 code, the severity of a mypy or eslint message and the      *)
(* level of a SARIF result, and path is relative to the clone already.     *)
(***************************************************************************)
EXTENDS Merger

StaticTools == <<"pylint", "flake8", "mypy", "eslint">>
SecurityTools == <<"bandit", "semgrep">>
Tools == {"pylint", "flake8", "mypy", "eslint", "bandit", "semgrep"}

PythonExtensions == {".py", ".pyi"}
JsTsExtensions == {".js", ".jsx", ".mjs", ".cjs", ".ts", ".tsx"}

FilterFiles(files, extensions) ==
  Filter(files, LAMBDA f : f.ext \in extensions /\ f.change # "deleted")

\* The files a tool is given.  Semgrep takes every file that still exists.
FilesFor(tool, files) ==
  IF tool = "semgrep" THEN Filter(files, LAMBDA f : f.change # "deleted")
  ELSE FilterFiles(files, IF tool = "eslint" THEN JsTsExtensions ELSE PythonExtensions)

\* The tools an agent starts: enabled, with a file to look at.
Started(tools, enabled, files) ==
  Filter(tools, LAMBDA t : t \in enabled /\ FilesFor(t, files) # <<>>)

-----------------------------------------------------------------------------
(* From a message to a finding *)

Lookup(map, key, default) == IF key \in DOMAIN map THEN map[key] ELSE default

\* Left to other tools, or cosmetic: never a finding.
StyleOnlyRules == {"C0103", "C0114", "C0115", "C0116", "C0301", "C0303", "C0304",
                   "C0305", "C0321", "W0611"}
SkipCodes == {"E1", "E2", "E3", "E4", "E5", "W1", "W2", "W3", "W5"}
Skipped(tool, m) ==
  \/ tool = "pylint" /\ m.rule \in StyleOnlyRules
  \/ tool = "flake8" /\ m.level \in SkipCodes
  \/ tool = "mypy" /\ m.level = "note"

PylintSeverity(m) ==
  Lookup([error |-> "HIGH", fatal |-> "CRITICAL", warning |-> "MEDIUM",
          convention |-> "LOW", refactor |-> "INFO", info |-> "INFO"], m.level, "LOW")

Flake8Severity(m) ==
  Lookup([E9 |-> "CRITICAL", F8 |-> "HIGH", F4 |-> "MEDIUM", C9 |-> "MEDIUM",
          W6 |-> "MEDIUM"], m.level, "LOW")

MypyHighCodes == {"assignment", "arg-type", "return-value", "return", "attr-defined",
                  "call-arg", "call-overload", "no-untyped-call", "type-arg",
                  "valid-type", "name-defined", "index", "operator"}
MypySeverity(m) ==
  IF m.level = "error"
  THEN IF m.rule \in MypyHighCodes THEN "HIGH" ELSE "MEDIUM"
  ELSE IF m.level = "warning" THEN "LOW" ELSE "INFO"

EslintBugRules == {"no-undef", "no-unused-vars", "no-unreachable",
                   "no-constant-condition", "no-dupe-keys", "no-duplicate-case",
                   "no-empty", "no-ex-assign", "no-func-assign", "no-sparse-arrays",
                   "use-before-define", "no-prototype-builtins", "no-eval",
                   "no-implied-eval"}
EslintSeverity(m) ==
  IF m.level = "1" /\ m.rule \in EslintBugRules THEN "MEDIUM"
  ELSE IF m.level = "2" THEN "HIGH" ELSE "LOW"

\* Both scanners go through _parse_sarif: the confidence is fixed, whatever
\* bandit says of its own.
SarifSeverity(m) ==
  Lookup([error |-> "HIGH", warning |-> "MEDIUM", note |-> "LOW", none |-> "INFO"],
         m.level, "MEDIUM")

SeverityOf(tool, m) ==
  CASE tool = "pylint" -> PylintSeverity(m)
    [] tool = "flake8" -> Flake8Severity(m)
    [] tool = "mypy"   -> MypySeverity(m)
    [] tool = "eslint" -> EslintSeverity(m)
    [] OTHER           -> SarifSeverity(m)

ConfidenceOf(tool, m) ==
  IF tool = "eslint" /\ m.rule \notin EslintBugRules THEN 65
  ELSE [pylint |-> 85, flake8 |-> 90, mypy |-> 88, eslint |-> 85,
        bandit |-> 85, semgrep |-> 85][tool]

\* What stands in brackets before the words of the issue.
TagOf(tool, m) ==
  IF m.rule # "" THEN m.rule
  ELSE IF tool = "mypy" THEN "mypy:" ELSE IF tool = "eslint" THEN "unknown" ELSE EmptyTag

FindingOf(tool, m) ==
  [source |-> tool, path |-> m.path, line |-> m.line,
   severity |-> SeverityOf(tool, m), confidence |-> ConfidenceOf(tool, m),
   issue |-> [tag |-> TagOf(tool, m), text |-> m.text]]

ToolFindings(tool, messages) ==
  LET kept == Filter(messages, LAMBDA m : ~Skipped(tool, m))
  IN  [n \in DOMAIN kept |-> FindingOf(tool, kept[n])]

-----------------------------------------------------------------------------
(* How a tool ends, and what the agent joins.  A tool that times out, is not
   installed or prints nothing (or nothing that parses) returns an empty list
   like one that found nothing; only an exception of the parser is told apart
   (flake8's parser has none to raise). *)

Silent == [ending |-> "silent", findings |-> <<>>]
Raised == [ending |-> "raised", findings |-> <<>>]
Reported(tool, messages) ==
  [ending |-> "reported", findings |-> ToolFindings(tool, messages)]

(* Mutant: the exceptions are dropped before names and results are zipped.  *)
JoinToolsMisaligned(names, result) ==
  LET returned == Filter(names, LAMBDA t : result[t].ending # "raised")
  IN  [findings |-> FlattenSeq([n \in DOMAIN returned |-> result[returned[n]].findings]),
       analyzersRun |-> SubSeq(names, 1, Len(returned)),
       errors |-> <<>>]

\* gather() keeps the results in the order of the names they are zipped with.
JoinTools(names, result) ==
  LET returned == Filter(names, LAMBDA t : result[t].ending # "raised")
  IN  [findings |-> FlattenSeq([n \in DOMAIN returned |-> result[returned[n]].findings]),
       analyzersRun |-> returned,
       errors |-> Filter(names, LAMBDA t : result[t].ending = "raised")]
=============================================================================
