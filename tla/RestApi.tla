------------------------------ MODULE RestApi ------------------------------
(***************************************************************************)
(* The REST handlers of the gateway, request to Redis by request: uploads  *)
(* (createSubmission), runs (createRun), and reads (listRuns, getRun),     *)
(* which all run concurrently; and what the orchestrator and the ingester  *)
(* do to the same keys and files: open the bundle, write the result, then  *)
(* the status.                                                             *)
(*                                                                         *)
(*   upload[u], request[r]  where the handler of an upload or a run is;    *)
(*   file[u]        the bundle on the shared volume;                       *)
(*   submission     the submission hashes that exist;                      *)
(*   status[r]      run:<r>, "none" when there is no such hash;            *)
(*   scored         the runs whose result has a score;                     *)
(*   index[l]       submissions.index and runs.index, newest first, and    *)
(*   pushed[l]      all that was ever pushed on it;                        *)
(*   build[r]       what the orchestrator found of the bundle;             *)
(*   reader         a runView() in progress: how many of its reads are     *)
(*                  done, and what they returned.                          *)
(***************************************************************************)
EXTENDS Integers, Sequences, SequencesExt

CONSTANTS Submissions, Runs,
          SubmissionOf,   \* SubmissionOf[r]: the submission run r asks for
          Cap             \* what LTRIM leaves (200 submissions, 100 runs)

ASSUME RestApiAssumption == SubmissionOf \in [Runs -> Submissions] /\ Cap \in Nat

VARIABLES upload, request, file, submission, status, scored, index, pushed, build, reader

handlers == <<upload, request>>
vars == <<upload, request, file, submission, status, scored, index, pushed, build, reader>>

NoView == [done |-> 0, run |-> "none", status |-> "none", scored |-> FALSE, named |-> FALSE]

Init ==
    /\ upload = [u \in Submissions |-> "none"]
    /\ request = [r \in Runs |-> "none"]
    /\ file = [u \in Submissions |-> "none"]
    /\ submission = {} /\ scored = {}
    /\ status = [r \in Runs |-> "none"]
    /\ index = [l \in {"submissions", "runs"} |-> <<>>]
    /\ pushed = index
    /\ build = [r \in Runs |-> "none"]
    /\ reader = NoView

(* LPUSH and LTRIM 0 Cap-1 *)
Push(l, x) ==
    /\ index' = [index EXCEPT ![l] = <<x>> \o @]
    /\ pushed' = [pushed EXCEPT ![l] = <<x>> \o @]

(* Mutant of Trim: the oldest entries are the ones that stay. *)
TrimNewest(l) ==
    index' = [index EXCEPT ![l] = IF Len(@) <= Cap THEN @ ELSE SubSeq(@, Len(@) - Cap + 1, Len(@))]

Trim(l) == index' = [index EXCEPT ![l] = IF Len(@) <= Cap THEN @ ELSE SubSeq(@, 1, Cap)]

-----------------------------------------------------------------------------
Upload(u, from, to) ==
    /\ upload[u] = from
    /\ upload' = [upload EXCEPT ![u] = to]
    /\ UNCHANGED <<request, status, scored, build, reader>>

(* A field is missing or malformed: 400. *)
BadForm(u) == Upload(u, "none", "refused") /\ UNCHANGED <<file, submission, index, pushed>>

CreateFile(u) ==
    /\ Upload(u, "none", "created")
    /\ file' = [file EXCEPT ![u] = "partial"]
    /\ UNCHANGED <<submission, index, pushed>>

CopyBundle(u) ==
    /\ Upload(u, "created", "copied")
    /\ file' = [file EXCEPT ![u] = "whole"]
    /\ UNCHANGED <<submission, index, pushed>>

(* io.Copy fails: 500, and the file stays as it is. *)
CopyFails(u) == Upload(u, "created", "refused") /\ UNCHANGED <<file, submission, index, pushed>>

(* Mutant of Register: the hash is there before the file is. *)
RegisterFirst(u) ==
    /\ upload[u] \in {"created", "copied"}
    /\ upload' = [upload EXCEPT ![u] = IF @ = "copied" THEN "registered" ELSE @]
    /\ submission' = submission \cup {u}
    /\ UNCHANGED <<request, file, status, scored, index, pushed, build, reader>>

(* HSET submission:<u> *)
Register(u) ==
    /\ Upload(u, "copied", "registered")
    /\ submission' = submission \cup {u}
    /\ UNCHANGED <<file, index, pushed>>

PushSubmission(u) ==
    /\ Upload(u, "registered", "pushed")
    /\ Push("submissions", u)
    /\ UNCHANGED <<file, submission>>

(* ... and 201 *)
TrimSubmissions(u) ==
    /\ Upload(u, "pushed", "accepted")
    /\ Trim("submissions")
    /\ UNCHANGED <<file, submission, pushed>>

-----------------------------------------------------------------------------
Request(r, from, to) ==
    /\ request[r] = from
    /\ request' = [request EXCEPT ![r] = to]
    /\ UNCHANGED <<upload, file, submission, scored, build, reader>>

(* EXISTS submission:<id> says no: 404. *)
UnknownSubmission(r) ==
    /\ SubmissionOf[r] \notin submission
    /\ Request(r, "none", "refused")
    /\ UNCHANGED <<status, index, pushed>>

(* EXISTS says yes. *)
CheckSubmission(r) ==
    /\ SubmissionOf[r] \in submission
    /\ Request(r, "none", "checked")
    /\ UNCHANGED <<status, index, pushed>>

(* Mutant of StoreRun: the index first. *)
StoreRunIndexed(r) ==
    /\ Request(r, "checked", "pushed")
    /\ Push("runs", r)
    /\ UNCHANGED status

(* HSET run:<r> *)
StoreRun(r) ==
    /\ Request(r, "checked", "stored")
    /\ status' = [status EXCEPT ![r] = "queued"]
    /\ UNCHANGED <<index, pushed>>

PushRun(r) == Request(r, "stored", "pushed") /\ Push("runs", r) /\ UNCHANGED status

TrimRuns(r) == Request(r, "pushed", "trimmed") /\ Trim("runs") /\ UNCHANGED <<status, pushed>>

(* XADD runs.jobs and 201, or an error and 500. *)
Enqueue(r) ==
    Request(r, "trimmed", "accepted") /\ UNCHANGED <<status, index, pushed>>
EnqueueFails(r) ==
    Request(r, "trimmed", "refused") /\ UNCHANGED <<status, index, pushed>>

-----------------------------------------------------------------------------
(* handle() of the orchestrator opens the bundle of an enqueued run. *)
OpenBundle(r) ==
    /\ request[r] = "accepted"
    /\ status[r] = "queued"
    /\ status' = [status EXCEPT ![r] = "building"]
    /\ build' = [build EXCEPT ![r] = file[SubmissionOf[r]]]
    /\ UNCHANGED <<handlers, file, submission, scored, index, pushed, reader>>

(* finalize() of the ingester: the result with its score, then the status. *)
WriteResult(r) ==
    /\ status[r] = "building" /\ r \notin scored
    /\ scored' = scored \cup {r}
    /\ UNCHANGED <<handlers, file, submission, status, index, pushed, build, reader>>

WriteDone(r) ==
    /\ status[r] = "building" /\ r \in scored
    /\ status' = [status EXCEPT ![r] = "done"]
    /\ UNCHANGED <<handlers, file, submission, scored, index, pushed, build, reader>>

-----------------------------------------------------------------------------
(* Mutant of ViewReads: the result before the status. *)
ViewReadsResultFirst == <<"result", "run", "submission">>

(* The reads of runView(), in order. *)
ViewReads == <<"run", "result", "submission">>

(* One HGETALL of a view of run r; a run without a hash ends it. *)
ReadView(r) ==
    /\ reader.done = 0 \/ (reader.run = r /\ reader.done < Len(ViewReads))
    /\ LET what == ViewReads[reader.done + 1]
           next == [reader EXCEPT !.done = @ + 1, !.run = r]
       IN  reader' =
             CASE what = "run" ->
                    IF status[r] = "none" THEN NoView ELSE [next EXCEPT !.status = status[r]]
               [] what = "result"     -> [next EXCEPT !.scored = r \in scored]
               [] what = "submission" -> [next EXCEPT !.named = SubmissionOf[r] \in submission]
    /\ UNCHANGED <<handlers, file, submission, status, scored, index, pushed, build>>

AnswerView ==
    /\ reader.done = Len(ViewReads)
    /\ reader' = NoView
    /\ UNCHANGED <<handlers, file, submission, status, scored, index, pushed, build>>

Next ==
    \/ \E u \in Submissions :
          \/ BadForm(u) \/ CreateFile(u) \/ CopyBundle(u) \/ CopyFails(u)
          \/ Register(u) \/ PushSubmission(u) \/ TrimSubmissions(u)
    \/ \E r \in Runs :
          \/ UnknownSubmission(r) \/ CheckSubmission(r) \/ StoreRun(r) \/ PushRun(r)
          \/ TrimRuns(r) \/ Enqueue(r) \/ EnqueueFails(r)
          \/ OpenBundle(r) \/ WriteResult(r) \/ WriteDone(r)
          \/ ReadView(r)
    \/ AnswerView

Spec == Init /\ [][Next]_vars

-----------------------------------------------------------------------------
(* A build never reads a bundle that is still being uploaded, or whose     *)
(* upload failed, although nothing but the hash tells them apart.          *)
BuildSeesWholeBundle == \A r \in Runs : build[r] \in {"none", "whole"}

(* Whoever follows the index finds the run: listRuns drops ids without a   *)
(* hash, and it never has to.                                              *)
ListedRunsExist == \A i \in DOMAIN index["runs"] : status[index["runs"][i]] # "none"

(* Handlers push and trim in any order, yet what stays is always the       *)
(* newest, and once the handlers are through no more than the cap.         *)
IndexKeepsNewest ==
    /\ \A l \in DOMAIN index : IsPrefix(index[l], pushed[l])
    /\ \A l \in DOMAIN index : Len(index[l]) >= Min({Cap, Len(pushed[l])})
    /\ (\A r \in Runs : request[r] # "pushed") => Len(index["runs"]) <= Cap
    /\ (\A u \in Submissions : upload[u] # "pushed") => Len(index["submissions"]) <= Cap

(* The three reads of a view are not atomic, but what is shown as done is  *)
(* shown with its score, and every run with its team.                      *)
ViewsConsistent ==
    reader.done = Len(ViewReads) =>
        /\ reader.status = "done" => reader.scored
        /\ reader.named
=============================================================================
