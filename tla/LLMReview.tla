------------------------------ MODULE LLMReview ------------------------------
(***************************************************************************)
(* LLMReviewAgent (agents/review): which files go to the model, in which   *)
(* calls, how much of them a prompt shows, and what becomes of a reply.    *)
(* Lengths are in characters; the code's limits are 30000 characters and   *)
(* five files.                                                             *)
(***************************************************************************)
EXTENDS Merger

CONSTANTS MaxDiffChars,    \* MAX_DIFF_CHARS_PER_CALL
          MaxFilesPerBatch,\* MAX_FILES_PER_BATCH
          HeaderChars,     \* the heading of a file in the prompt
          FenceChars,      \* the code fence around its diff
          CutNoteChars,    \* the note behind a diff that was cut
          EndingWith       \* [short path -> the paths that end with it]

ASSUME LimitsAssumption ==
  /\ MaxDiffChars \in Nat \ {0} /\ MaxFilesPerBatch \in Nat \ {0}
  /\ HeaderChars \in Nat \ {0} /\ FenceChars \in Nat /\ CutNoteChars \in Nat

ReviewableExtensions == {".py", ".pyi", ".js", ".jsx", ".ts", ".tsx", ".go", ".java",
                         ".rb", ".rs", ".cpp", ".c", ".h", ".cs", ".php", ".swift",
                         ".kt", ".scala", ".md"}

Reviewable(files) ==
  Filter(files, LAMBDA f : /\ f.ext \in ReviewableExtensions
                              /\ f.change # "deleted"
                              /\ f.size > 0)

PathsOf(files) == [n \in DOMAIN files |-> files[n].path]

SumSeq(s) == FoldLeft(LAMBDA x, y : x + y, 0, s)
Characters(files) == SumSeq([n \in DOMAIN files |-> files[n].size])

-----------------------------------------------------------------------------
(* Batches *)

\* One turn of the loop of _create_batches.
AddToBatches(acc, f) ==
  LET full == /\ acc.batch # <<>>
              /\ \/ Len(acc.batch) >= MaxFilesPerBatch
                 \/ acc.size + f.size > MaxDiffChars
  IN  [done  |-> IF full THEN Append(acc.done, acc.batch) ELSE acc.done,
       batch |-> IF full THEN <<f>> ELSE Append(acc.batch, f),
       size  |-> IF full THEN f.size ELSE acc.size + f.size]

(* Mutant: the last batch is not appended.                                  *)
CreateBatchesWithoutLast(files) ==
  FoldLeft(AddToBatches, [done |-> <<>>, batch |-> <<>>, size |-> 0], files).done

CreateBatches(files) ==
  LET end == FoldLeft(AddToBatches, [done |-> <<>>, batch |-> <<>>, size |-> 0], files)
  IN  IF end.batch = <<>> THEN end.done ELSE Append(end.done, end.batch)

-----------------------------------------------------------------------------
(* The prompt *)

(* Mutant: every diff may use the whole budget.                             *)
AddToPromptUnreduced(prompt, f) ==
  LET diff == IF f.size > MaxDiffChars THEN MaxDiffChars + CutNoteChars ELSE f.size
  IN  IF prompt.total >= MaxDiffChars THEN prompt
      ELSE [total |-> prompt.total + HeaderChars + FenceChars + diff,
            shown |-> Append(prompt.shown, [path |-> f.path, chars |-> f.size])]

\* One turn of the loop of _build_prompt; once the limit is reached it breaks.
AddToPrompt(prompt, f) ==
  LET room == MaxDiffChars - prompt.total
      diff == IF f.size > room THEN room + CutNoteChars ELSE f.size
  IN  IF prompt.total >= MaxDiffChars THEN prompt
      ELSE [total |-> prompt.total + HeaderChars + FenceChars + diff,
            shown |-> Append(prompt.shown,
                             [path |-> f.path, chars |-> IF f.size > room THEN room ELSE f.size])]

BuildPrompt(batch) == FoldLeft(AddToPrompt, [total |-> 0, shown |-> <<>>], batch)

-----------------------------------------------------------------------------
(* Replies.  A reply is [kind, items]: "error" (the call raises), "garbled"
   (no JSON, or neither an object nor a list) or "items".  An item is
   [shape, path, line, severity, confidence, tag, text], of shape "dict", "other"
   (not an object) or "broken" (a field whose type makes the parser raise);
   NoPath and NoText stand for fields that are missing or blank. *)

NoPath == 0
NoText == ""

Confidences == [HIGH |-> 90, MEDIUM |-> 65, LOW |-> 40]

Raises(reply) ==
  \/ reply.kind = "error"
  \/ reply.kind = "items" /\ \E n \in DOMAIN reply.items : reply.items[n].shape = "broken"

\* A path outside the batch becomes one that ends with it, if there is any (the
\* order of the set the code takes the first of is arbitrary), else it stays.
Resolutions(path, batch) ==
  LET valid == {batch[n].path : n \in DOMAIN batch}
      matching == IF path \in DOMAIN EndingWith THEN EndingWith[path] \cap valid ELSE {}
  IN  IF path = NoPath \/ path \in valid \/ matching = {} THEN {path} ELSE matching

Complete(item) == item.shape = "dict" /\ item.path # NoPath /\ item.text # NoText

LLMFinding(item, path) ==
  [source |-> "llm_review", path |-> path, line |-> item.line,
   severity |-> IF item.severity \in Severities THEN item.severity ELSE "MEDIUM",
   confidence |-> IF item.confidence \in DOMAIN Confidences
                  THEN Confidences[item.confidence] ELSE 65,
   issue |-> [tag |-> item.tag, text |-> item.text]]

\* _parse_response: the lists of findings a reply can become.
ParseResponse(reply, batch) ==
  LET items == IF reply.kind = "items" THEN Filter(reply.items, Complete) ELSE <<>>
      paths == UNION {Resolutions(items[n].path, batch) : n \in DOMAIN items}
  IN  {[n \in DOMAIN items |-> LLMFinding(items[n], resolved[n])] :
         resolved \in {r \in [DOMAIN items -> paths] :
                         \A n \in DOMAIN items : r[n] \in Resolutions(items[n].path, batch)}}
=============================================================================
