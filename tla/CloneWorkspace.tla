--------------------------- MODULE CloneWorkspace ---------------------------
(***************************************************************************)
(* The clones on disk (github_int/clone_repo.py): one directory for every  *)
(* commit, used by every run that reviews this commit, in any process.     *)
(*                                                                         *)
(* Of a working tree only one file matters here, the one a finding is in:  *)
(* it has the commit's text, the text of the default branch (between the   *)
(* clone and the checkout), or the fix of a run that is being validated.   *)
(* Reading a file as text and writing it back loses its line ends, when    *)
(* they are not "\n".  git clone and git checkout are one step each.       *)
(***************************************************************************)
CONSTANTS Commits,     \* head commits: the directories
          CrLf         \* those whose file has other line ends than "\n"

VARIABLES dir,       \* "absent", "empty" (mkdir was called) or "repo"
          text       \* what the file in a repository contains

cloneVars == <<dir, text>>

\* What somebody reads where there is no file.
NoFile == "no file"

\* The file as the commit has it; "commit" is its text with "\n".
Committed(c) == IF c \in CrLf THEN "crlf" ELSE "commit"

\* read_text(): whatever ends a line becomes "\n".
Universal(content) == IF content = "crlf" THEN "commit" ELSE content

CloneInit == dir = [c \in Commits |-> "absent"] /\ text = [c \in Commits |-> "default"]

\* What somebody reads who opens the file now.
View(c) == IF dir[c] = "repo" THEN text[c] ELSE NoFile

\* clone_path.mkdir(parents=True, exist_ok=True)
MakeDir(c) ==
  /\ dir' = IF dir[c] = "absent" THEN [dir EXCEPT ![c] = "empty"] ELSE dir
  /\ UNCHANGED text

\* git clone succeeds in a directory that is empty or gone, and nowhere else.
CanClone(c) == dir[c] # "repo"
GitClone(c) ==
  /\ CanClone(c)
  /\ dir' = [dir EXCEPT ![c] = "repo"]
  /\ text' = [text EXCEPT ![c] = "default"]

(* Mutant: the clone of the default branch is not checked out.              *)
GitCheckoutForgotten(c) ==
  /\ dir[c] = "repo"
  /\ UNCHANGED cloneVars

GitCheckout(c) ==
  /\ dir[c] = "repo"
  /\ text' = [text EXCEPT ![c] = Committed(c)]
  /\ UNCHANGED dir

\* shutil.rmtree of a partial clone, or of what is there by then.
RemoveTree(c) ==
  /\ dir' = [dir EXCEPT ![c] = "absent"]
  /\ UNCHANGED text

\* abs_path.write_text(content)
CanWrite(c) == dir[c] = "repo"
Write(c, content) ==
  /\ CanWrite(c)
  /\ text' = [text EXCEPT ![c] = content]
  /\ UNCHANGED dir
=============================================================================
