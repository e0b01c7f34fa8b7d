------------------------------ MODULE Analysis ------------------------------
(***************************************************************************)
(* The analysis of one diff: node_concurrent_analysis runs the static      *)
(* tools, the security tools and the language model at once, and           *)
(* node_merge_results merges what they return (agents/orchestrator).       *)
(*                                                                         *)
(* Each tool is a subprocess that ends when it likes; the language model   *)
(* is called for one batch of files after the other.  All of them          *)
(* interleave; the two gather() calls wait for the last of them.           *)
(***************************************************************************)
EXTENDS Analyzers, LLMReview

CONSTANTS Requests,        \* [changes, enabled]: what git reports, the tools switched on
          Outputs,         \* [tool -> the lists of messages it may print]
          Replies,         \* the replies of the language model
          MaxPatchBytes,   \* MAX_PATCH_SIZE_BYTES
          TruncatedChars,  \* the length of the note in place of a larger patch
          MaxComments      \* max_comments_per_review

\* What git reports of a file, and the file of the PRDiffSchema.
GitChange == [path : Nat, ext : STRING, status : STRING, bytes : Nat]
ChangeTypes == {"added", "modified", "deleted", "renamed", "copied", "type_changed", "unmerged"}
File == [path : Nat, ext : STRING, change : ChangeTypes, size : Nat]

\* What a tool prints, and an entry of a reply.
ToolMessage == [rule : STRING, level : STRING, path : Nat, line : Int, text : STRING]
ReplyItem == [shape : STRING, path : Nat, line : Int, severity : STRING,
              confidence : STRING, tag : STRING, text : STRING]

ASSUME InputAssumption ==
  /\ \A r \in Requests : r.changes \in Seq(GitChange) /\ r.enabled \subseteq Tools
  /\ \A t \in Tools : Outputs[t] \subseteq Seq(ToolMessage)
  /\ \A reply \in Replies : reply.items \in Seq(ReplyItem)
  /\ MaxPatchBytes \in Nat /\ TruncatedChars \in Nat /\ MaxComments \in Nat

VARIABLES diff,          \* the changed files of the PRDiffSchema
          enabled,       \* the tools the settings switch on
          result,        \* what each tool returned; Running before
          nextBatch,     \* the batch the review loop is at
          llmFindings, filesReviewed, promptTokens, failedBatches, \* LLMReviewResult
          merged         \* the MergedReviewResult, NotMerged before

llm == <<nextBatch, llmFindings, filesReviewed, promptTokens, failedBatches>>
vars == <<diff, enabled, result, llm, merged>>

Running == [ending |-> "running", findings |-> <<>>]
NotMerged == [findings |-> <<>>, totalBeforeDedup |-> -1]

-----------------------------------------------------------------------------
(* DiffExtractor: a change is [path, ext, status, bytes]. *)

ChangeType(status) ==
  Lookup([A |-> "added", M |-> "modified", D |-> "deleted", R |-> "renamed",
          C |-> "copied", T |-> "type_changed", U |-> "unmerged"], status, "modified")

\* A patch that is too large is replaced by a note, which is a patch as well.
ExtractFile(c) ==
  [path |-> c.path, ext |-> c.ext, change |-> ChangeType(c.status),
   size |-> IF c.bytes > MaxPatchBytes THEN TruncatedChars ELSE c.bytes]

ExtractDiff(changes) == [n \in DOMAIN changes |-> ExtractFile(changes[n])]

-----------------------------------------------------------------------------
StartedStatic == Started(StaticTools, enabled, diff)
StartedSecurity == Started(SecurityTools, enabled, diff)
StartedTools == ToSet(StartedStatic) \cup ToSet(StartedSecurity)

Batches == CreateBatches(Reviewable(diff))

Init ==
  /\ \E r \in Requests : diff = ExtractDiff(r.changes) /\ enabled = r.enabled
  /\ result = [t \in Tools |-> Running]
  /\ nextBatch = 1
  /\ llmFindings = <<>> /\ filesReviewed = <<>>
  /\ promptTokens = 0 /\ failedBatches = {}
  /\ merged = NotMerged

-----------------------------------------------------------------------------
(* The tools *)

ToolEnds(t, ending) ==
  /\ t \in StartedTools /\ result[t] = Running
  /\ result' = [result EXCEPT ![t] = ending]
  /\ UNCHANGED <<diff, enabled, llm, merged>>

\* Timeout, missing tool, failed start, nothing printed, or nothing that parses.
ToolIsSilent(t) == ToolEnds(t, Silent)

ToolRaises(t) == t # "flake8" /\ ToolEnds(t, Raised)

ToolReports(t) == \E messages \in Outputs[t] : ToolEnds(t, Reported(t, messages))

-----------------------------------------------------------------------------
(* The language model: one turn of the loop of review().  The service
   counts a token for a character of the prompt. *)

ReviewSucceeds(reply) ==
  /\ nextBatch <= Len(Batches) /\ ~Raises(reply)
  /\ \E findings \in ParseResponse(reply, Batches[nextBatch]) :
        llmFindings' = llmFindings \o findings
  /\ promptTokens' = promptTokens + BuildPrompt(Batches[nextBatch]).total
  /\ filesReviewed' = filesReviewed \o PathsOf(Batches[nextBatch])
  /\ nextBatch' = nextBatch + 1
  /\ UNCHANGED <<diff, enabled, result, failedBatches, merged>>

(* Mutant: the error names the next batch.                                  *)
ReviewFailsOffByOne(reply) ==
  /\ nextBatch <= Len(Batches) /\ Raises(reply)
  /\ failedBatches' = failedBatches \cup {nextBatch + 1}
  /\ nextBatch' = nextBatch + 1
  /\ UNCHANGED <<diff, enabled, result, llmFindings, filesReviewed, promptTokens, merged>>

(* Mutant: the files are counted before the call.                           *)
ReviewFailsCounted(reply) ==
  /\ nextBatch <= Len(Batches) /\ Raises(reply)
  /\ failedBatches' = failedBatches \cup {nextBatch}
  /\ filesReviewed' = filesReviewed \o PathsOf(Batches[nextBatch])
  /\ nextBatch' = nextBatch + 1
  /\ UNCHANGED <<diff, enabled, result, llmFindings, promptTokens, merged>>

\* The except clause: what the call cost is lost with its findings.
ReviewFails(reply) ==
  /\ nextBatch <= Len(Batches) /\ Raises(reply)
  /\ failedBatches' = failedBatches \cup {nextBatch}
  /\ nextBatch' = nextBatch + 1
  /\ UNCHANGED <<diff, enabled, result, llmFindings, filesReviewed, promptTokens, merged>>

-----------------------------------------------------------------------------
(* The merge *)

LLMResult == [findings |-> llmFindings, filesReviewed |-> filesReviewed]

AllReturned ==
  /\ \A t \in StartedTools : result[t] # Running
  /\ nextBatch > Len(Batches)

MergeResults ==
  /\ AllReturned /\ merged = NotMerged
  /\ merged' = Merge(JoinTools(StartedStatic, result),
                     JoinTools(StartedSecurity, result), LLMResult)
  /\ UNCHANGED <<diff, enabled, result, llm>>

Next ==
  \/ \E t \in Tools : ToolIsSilent(t) \/ ToolRaises(t) \/ ToolReports(t)
  \/ \E reply \in Replies : ReviewSucceeds(reply) \/ ReviewFails(reply)
  \/ MergeResults

Spec == Init /\ [][Next]_vars

-----------------------------------------------------------------------------
(* Properties *)

\* A rule of a tool, or what TagOf puts in the place of one.
Tags == STRING \cup {EmptyTag, "mypy:", "unknown"}
Finding == [source : Sources, path : Nat, line : Int, severity : Severities,
            confidence : 0..100, issue : [tag : Tags, text : STRING]]

\* Type invariant: results, counters and lists are of the shapes of the schemas.
TypeOK ==
  /\ diff \in Seq(File) /\ enabled \subseteq Tools
  /\ result \in [Tools -> [ending : {"running", "silent", "raised", "reported"},
                           findings : Seq(Finding)]]
  /\ nextBatch \in 1..(Len(Batches) + 1)
  /\ failedBatches \subseteq 1..Len(Batches)
  /\ llmFindings \in Seq(Finding)
  /\ filesReviewed \in Seq(Nat)
  /\ promptTokens \in Nat
  /\ merged.findings \in Seq(Finding)

\* What the tools and the language model reported.
AllReported == (UNION {ToSet(result[t].findings) : t \in Tools}) \cup ToSet(llmFindings)

\* Every reported finding has exactly one finding with its key in the merged
\* list, none that it outranks, and the list has nothing that was not reported:
\* deduplication (MergerAgent._deduplicate, _rank) loses no problem, whatever
\* the tools overlap in and in whatever order they end.
EveryReportIsRepresented ==
  merged # NotMerged =>
    /\ \A f \in AllReported :
         /\ Quantify(DOMAIN merged.findings,
                     LAMBDA n : DedupKey(merged.findings[n]) = DedupKey(f)) = 1
         /\ \A g \in ToSet(merged.findings) :
              DedupKey(g) = DedupKey(f) => ~Outranks(f, g)
    /\ ToSet(merged.findings) \subseteq AllReported

\* The cap on line comments (GitHubClient._post_review_sync) leaves out no
\* finding that is more severe than one it keeps, and leaves out none while
\* there is room: it relies on the order the merger left the list in.
CapKeepsWorst ==
  merged # NotMerged =>
    LET posted == Comments(merged.findings, MaxComments)
        left == {f \in ToSet(merged.findings) : f.line # NoLine} \ ToSet(posted)
    IN  left # {} =>
          /\ Len(posted) = MaxComments
          /\ \A f \in left, g \in ToSet(posted) :
               SeverityScore[f.severity] <= SeverityScore[g.severity]

\* The table of the report accounts for every finding of the list, once: no
\* finding is attributed to a tool the table says did not run, although tools
\* raise and the survivor of a group comes from any of its sources.
TableAddsUp ==
  merged # NotMerged =>
    LET table == merged.report.table
    IN  /\ SumSeq([n \in DOMAIN table |-> table[n].count]) = Len(merged.findings)
        /\ \A m, n \in DOMAIN table : table[m].tool = table[n].tool => m = n

\* Every reviewable file is in one batch, in the order of the diff, and a batch
\* is within both limits unless it is one file that is larger than the limit by
\* itself (LLMReviewAgent._create_batches); no two neighbours would fit in one.
BatchesCoverDiff ==
  /\ FlattenSeq(Batches) = Reviewable(diff)
  /\ \A n \in DOMAIN Batches :
       /\ Len(Batches[n]) \in 1..MaxFilesPerBatch
       /\ Len(Batches[n]) > 1 => Characters(Batches[n]) <= MaxDiffChars
       /\ n > 1 => \/ Len(Batches[n - 1]) = MaxFilesPerBatch
                   \/ Characters(Batches[n - 1]) + Batches[n][1].size > MaxDiffChars

\* A prompt shows a beginning of its batch, the first file always; a file is left
\* out, or cut, only when the limit is reached, and what a prompt exceeds the
\* limit by is at most the heading, fence and note of its last file.
PromptFits ==
  \A n \in DOMAIN Batches :
    LET prompt == BuildPrompt(Batches[n])
        shown == [k \in DOMAIN prompt.shown |-> prompt.shown[k].path]
    IN  /\ shown # <<>>
        /\ IsPrefix(shown, PathsOf(Batches[n]))
        /\ Len(shown) < Len(Batches[n]) => prompt.total >= MaxDiffChars
        /\ \A k \in DOMAIN shown :
             prompt.shown[k].chars < Batches[n][k].size => k = Len(shown) /\ prompt.total > MaxDiffChars
        /\ prompt.total <= MaxDiffChars + HeaderChars + FenceChars + CutNoteChars

\* A failed batch costs its own files and nothing else: the files counted as
\* reviewed and the tokens are those of the other batches the loop has passed,
\* and no finding of the model exists without one (LLMReviewAgent.review).
FailedBatchCostsItsFiles ==
  LET passed == Filter([n \in 1..(nextBatch - 1) |-> n], LAMBDA n : n \notin failedBatches)
  IN  /\ filesReviewed = FlattenSeq([k \in DOMAIN passed |-> PathsOf(Batches[passed[k]])])
      /\ promptTokens = SumSeq([k \in DOMAIN passed |-> BuildPrompt(Batches[passed[k]]).total])
      /\ llmFindings # <<>> => passed # <<>>
=============================================================================
