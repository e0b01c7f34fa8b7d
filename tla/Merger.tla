------------------------------- MODULE Merger -------------------------------
(***************************************************************************)
(* MergerAgent (agents/merger): findings of the tools and of the language  *)
(* model become one ranked list without duplicates, its counts and the     *)
(* report that is posted.  Pure operators.                                 *)
(*                                                                         *)
(* A finding is a record                                                   *)
(*    [source, path, line, severity, confidence, issue]                    *)
(* A path is its number in alphabetical order, confidence is in hundredths *)
(* (0.85 is 85), and the issue text is what _normalize_issue distinguishes *)
(* of it: the bracketed tag in front and the words behind it.              *)
(***************************************************************************)
EXTENDS Lists, SequencesExt

CONSTANT Folded   \* the words of an issue, in lower case with single blanks

\* A finding without a line number (None); 0 is a line number.
NoLine == -1

\* The tag of an issue that starts with "[]", and of one without a bracket.
EmptyTag == "[]"
NoTag == ""

SeverityScore == [CRITICAL |-> 5, HIGH |-> 4, MEDIUM |-> 3, LOW |-> 2, INFO |-> 1]

SourcePriority == [llm_review |-> 3, bandit |-> 2, semgrep |-> 2, mypy |-> 2,
                   pylint |-> 1, flake8 |-> 1, eslint |-> 1]

Severities == DOMAIN SeverityScore
Sources == DOMAIN SourcePriority

-----------------------------------------------------------------------------
(* Deduplication *)

\* A tag is dropped, except the empty one: the pattern wants a character.
NormalizeIssue(issue) ==
  [tag  |-> IF issue.tag = EmptyTag THEN EmptyTag ELSE NoTag,
   text |-> Folded[issue.text]]

LineOr0(f) == IF f.line = NoLine THEN 0 ELSE f.line

DedupKey(f) == <<f.path, LineOr0(f), NormalizeIssue(f.issue)>>

\* The order max() uses: confidence, then the priority of the source.
Outranks(f, g) ==
  \/ f.confidence > g.confidence
  \/ /\ f.confidence = g.confidence
     /\ SourcePriority[f.source] > SourcePriority[g.source]

SameKey(fs, i) == {j \in DOMAIN fs : DedupKey(fs[j]) = DedupKey(fs[i])}

(* Mutant: the first finding of a group stays, not the best.               *)
KeptFirst(fs) == {i \in DOMAIN fs : \A j \in SameKey(fs, i) : i <= j}

\* The positions that survive: max() returns the first of the best of a group.
Kept(fs) ==
  {i \in DOMAIN fs : \A j \in SameKey(fs, i) :
                        Outranks(fs[i], fs[j]) \/ (~Outranks(fs[j], fs[i]) /\ i <= j)}

-----------------------------------------------------------------------------
(* Ranking: the groups are in the order of their first member, and sorted()
   is stable, so that position is the last component of the sort key. *)

FirstOfGroup(fs, i) == CHOOSE j \in SameKey(fs, i) : \A k \in SameKey(fs, i) : j <= k

(* Mutant: confidence before severity.                                      *)
RankKeyByConfidence(fs, i) ==
  <<-fs[i].confidence, -SeverityScore[fs[i].severity], fs[i].path,
    LineOr0(fs[i]), FirstOfGroup(fs, i)>>

RankKey(fs, i) ==
  <<-SeverityScore[fs[i].severity], -fs[i].confidence, fs[i].path,
    LineOr0(fs[i]), FirstOfGroup(fs, i)>>

Precedes(a, b) ==
  \E n \in DOMAIN a : a[n] < b[n] /\ \A m \in 1..(n - 1) : a[m] = b[m]

\* _deduplicate followed by _rank.
Ranked(fs) ==
  LET order == Arrange(Kept(fs), {e \in Kept(fs) \X Kept(fs) :
                                    Precedes(RankKey(fs, e[1]), RankKey(fs, e[2]))})
  IN  [n \in DOMAIN order |-> fs[order[n]]]

-----------------------------------------------------------------------------
(* Counting and the report *)

CountBySeverity(fs) ==
  [s \in Severities |-> Cardinality({i \in DOMAIN fs : fs[i].severity = s})]

CountFrom(fs, source) == Cardinality({i \in DOMAIN fs : fs[i].source = source})

\* The rows of the table: the tools that returned, and the language model if
\* it reviewed a file.
TableTools(static, security, llm) ==
  static.analyzersRun \o security.analyzersRun
     \o (IF llm.filesReviewed = <<>> THEN <<>> ELSE <<"llm_review">>)

MarkdownReport(fs, tools) ==
  [clean |-> \A s \in Severities : CountBySeverity(fs)[s] = 0,
   table |-> [n \in DOMAIN tools |-> [tool |-> tools[n], count |-> CountFrom(fs, tools[n])]]]

Merge(static, security, llm) ==
  LET all == static.findings \o security.findings \o llm.findings
      ranked == Ranked(all)
  IN  [findings |-> ranked,
       totalBeforeDedup |-> Len(all),
       deduplicatedCount |-> Len(all) - Len(ranked),
       counts |-> CountBySeverity(ranked),
       report |-> MarkdownReport(ranked, TableTools(static, security, llm))]

-----------------------------------------------------------------------------
(* The line comments of the posted review (GitHubClient._post_review_sync):
   findings that have a line, the first max of them. *)
Comments(fs, max) ==
  LET withLines == Filter(fs, LAMBDA f : f.line # NoLine)
  IN  SubSeq(withLines, 1, IF Len(withLines) < max THEN Len(withLines) ELSE max)
=============================================================================
