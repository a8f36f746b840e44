---------------------------- MODULE RestApiProofs ----------------------------
(***************************************************************************)
(* Theorems about RestApi, for any submissions, runs and caps: builds read *)
(* whole bundles, listed runs exist, the indexes keep the newest, and the  *)
(* views of a run are consistent.                                          *)
(*                                                                         *)
(* ApiInv is the inductive invariant.  It says how far the handlers of the *)
(* other requests must have come for what this one sees: a registered      *)
(* bundle is whole (Bundles), a stored run has a registered bundle and a   *)
(* done run a score (Stored), whoever is listed is stored (Listed), an     *)
(* index is a prefix of what was pushed and only a handler between LPUSH   *)
(* and LTRIM may leave it too long (Indexed), and what a reader has read   *)
(* so far still holds, as nothing of it is ever taken back (Viewed).       *)
(***************************************************************************)
EXTENDS RestApi, TLAPS

Lists == {"submissions", "runs"}
UploadStates == {"none", "refused", "created", "copied", "registered", "pushed", "accepted"}
RequestStates == {"none", "refused", "checked", "stored", "pushed", "trimmed", "accepted"}
RunStatus == {"none", "queued", "building", "done"}

ApiTypes ==
    /\ upload \in [Submissions -> UploadStates]
    /\ request \in [Runs -> RequestStates]
    /\ file \in [Submissions -> {"none", "partial", "whole"}]
    /\ submission \subseteq Submissions
    /\ scored \subseteq Runs
    /\ status \in [Runs -> RunStatus]
    /\ build \in [Runs -> {"none", "partial", "whole"}]

IndexTypes ==
    /\ index \in [Lists -> Seq(Submissions \cup Runs)]
    /\ pushed \in [Lists -> Seq(Submissions \cup Runs)]

Bundles ==
    \A u \in Submissions :
        /\ u \in submission => upload[u] \in {"registered", "pushed", "accepted"}
        /\ upload[u] \in {"copied", "registered", "pushed", "accepted"} => file[u] = "whole"

Stored ==
    \A r \in Runs :
        /\ request[r] \in {"checked", "stored", "pushed", "trimmed", "accepted"} \/ status[r] # "none"
              => SubmissionOf[r] \in submission
        /\ request[r] \in {"stored", "pushed", "trimmed", "accepted"} => status[r] # "none"
        /\ status[r] = "done" => r \in scored

Listed ==
    \A i \in 1 .. Len(index["runs"]) :
        index["runs"][i] \in Runs /\ status[index["runs"][i]] # "none"

(* What stays of b on the list a. *)
Newest(a, b) ==
    /\ Len(a) <= Len(b)
    /\ Len(a) = Len(b) \/ Len(a) >= Cap
    /\ \A i \in 1 .. Len(a) : a[i] = b[i]

Indexed ==
    /\ \A l \in Lists : Newest(index[l], pushed[l])
    /\ (\A r \in Runs : request[r] # "pushed") => Len(index["runs"]) <= Cap
    /\ (\A u \in Submissions : upload[u] # "pushed") => Len(index["submissions"]) <= Cap

Viewed ==
    /\ reader.done \in 0 .. 3
    /\ reader.done >= 1 =>
          /\ reader.run \in Runs /\ status[reader.run] # "none"
          /\ reader.status = "done" => reader.run \in scored
    /\ reader.done >= 2 => (reader.status = "done" => reader.scored)
    /\ reader.done >= 3 => reader.named

Views ==
    [done : 0 .. 3, run : Runs \cup {"none"}, status : RunStatus, scored : BOOLEAN, named : BOOLEAN]

ApiInv ==
    /\ ApiTypes /\ IndexTypes /\ reader \in Views
    /\ Bundles /\ Stored /\ Listed /\ Indexed /\ Viewed
    /\ BuildSeesWholeBundle

-----------------------------------------------------------------------------
(* LPUSH puts an entry in front of both; LTRIM shortens one. *)
LEMMA PushedIs ==
    ASSUME NEW T, NEW a \in Seq(T), NEW x \in T
    PROVE  /\ <<x>> \o a \in Seq(T) /\ Len(<<x>> \o a) = Len(a) + 1
           /\ (<<x>> \o a)[1] = x
           /\ \A i \in 2 .. Len(a) + 1 : (<<x>> \o a)[i] = a[i - 1]
  OBVIOUS

LEMMA PushedNewest ==
    ASSUME NEW T, NEW a \in Seq(T), NEW b \in Seq(T), NEW x \in T, Newest(a, b)
    PROVE  Newest(<<x>> \o a, <<x>> \o b)
<1> DEFINE c == <<x>> \o a
           d == <<x>> \o b
<1>1. /\ c \in Seq(T) /\ Len(c) = Len(a) + 1 /\ c[1] = x
      /\ \A i \in 2 .. Len(a) + 1 : c[i] = a[i - 1]
  BY PushedIs
<1>2. /\ d \in Seq(T) /\ Len(d) = Len(b) + 1 /\ d[1] = x
      /\ \A i \in 2 .. Len(b) + 1 : d[i] = b[i - 1]
  BY PushedIs
<1> HIDE DEF c, d
<1>3. ASSUME NEW i \in 1 .. Len(c) PROVE c[i] = d[i]
  <2>1. CASE i = 1
    BY <1>1, <1>2, <2>1
  <2>2. CASE i # 1
    <3>1. i \in 2 .. Len(a) + 1 /\ i \in 2 .. Len(b) + 1 /\ i - 1 \in 1 .. Len(a)
      BY <1>1, <2>2 DEF Newest
    <3> QED BY <1>1, <1>2, <3>1 DEF Newest
  <2> QED BY <2>1, <2>2
<1>4. Len(c) <= Len(d) /\ (Len(c) = Len(d) \/ Len(c) >= Cap)
  BY <1>1, <1>2, RestApiAssumption DEF Newest
<1>5. Newest(c, d)
  BY <1>3, <1>4 DEF Newest
<1> QED BY <1>5 DEF c, d

(* What LTRIM leaves of a list. *)
Trimmed(a) == IF Len(a) <= Cap THEN a ELSE SubSeq(a, 1, Cap)

LEMMA TrimmedNewest ==
    ASSUME NEW T, NEW a \in Seq(T), NEW b \in Seq(T), Newest(a, b)
    PROVE  /\ Trimmed(a) \in Seq(T) /\ Len(Trimmed(a)) <= Cap /\ Len(Trimmed(a)) <= Len(a)
           /\ \A i \in 1 .. Len(Trimmed(a)) : Trimmed(a)[i] = a[i]
           /\ Newest(Trimmed(a), b)
<1> DEFINE t == Trimmed(a)
<1>0. t = IF Len(a) <= Cap THEN a ELSE SubSeq(a, 1, Cap)
  BY DEF Trimmed
<1> SUFFICES /\ t \in Seq(T) /\ Len(t) <= Cap /\ Len(t) <= Len(a)
             /\ \A i \in 1 .. Len(t) : t[i] = a[i]
             /\ Newest(t, b)
  OBVIOUS
<1> HIDE DEF t
<1>1. CASE Len(a) <= Cap
  BY <1>0, <1>1 DEF Newest
<1>2. CASE Len(a) > Cap
  <2>1. t = SubSeq(a, 1, Cap)
    BY <1>0, <1>2, RestApiAssumption
  <2>2. t \in Seq(T) /\ Len(t) = Cap /\ \A i \in 1 .. Cap : t[i] = a[i]
    BY <1>2, <2>1, RestApiAssumption
  <2>3. Len(a) \in Nat /\ Len(b) \in Nat /\ Cap \in Nat /\ Len(a) <= Len(b)
    BY RestApiAssumption DEF Newest
  <2>4. \A i \in 1 .. Cap : i \in 1 .. Len(a)
    BY <1>2, <2>3
  <2>5. \A i \in 1 .. Cap : t[i] = b[i]
    BY <2>2, <2>4 DEF Newest
  <2>6. Newest(t, b)
    BY <1>2, <2>2, <2>3, <2>5 DEF Newest
  <2> QED BY <1>2, <2>2, <2>3, <2>6
<1> QED BY <1>1, <1>2, RestApiAssumption

-----------------------------------------------------------------------------
LEMMA ApiStarts == Init => ApiInv
<1> SUFFICES ASSUME Init PROVE ApiInv
  OBVIOUS
<1>1. ApiTypes /\ Bundles /\ Stored /\ BuildSeesWholeBundle
  BY DEF Init, ApiTypes, Bundles, Stored, BuildSeesWholeBundle, UploadStates, RequestStates, RunStatus
<1>2. <<>> \in Seq(Submissions \cup Runs) /\ Len(<<>>) = 0 /\ Newest(<<>>, <<>>)
  BY DEF Newest
<1>3. IndexTypes /\ Listed /\ Indexed
  BY <1>2, RestApiAssumption DEF Init, IndexTypes, Listed, Indexed, Lists
<1>4. reader \in Views /\ Viewed
  BY DEF Init, NoView, Views, RunStatus, Viewed
<1> QED BY <1>1, <1>3, <1>4 DEF ApiInv

(* What a reader has seen stays true: no hash and no score is taken back. *)
LEMMA ViewKept ==
    ASSUME ApiInv, reader' = reader, scored \subseteq scored',
           \A r \in Runs : status[r] # "none" => status'[r] # "none"
    PROVE  (reader \in Views)' /\ Viewed'
<1>1. reader \in Views /\ Viewed
  BY DEF ApiInv
<1>2. (reader \in Views)'
  BY <1>1 DEF Views
<1>3. Viewed'
  BY <1>1 DEF Viewed
<1> QED BY <1>2, <1>3

LEMMA PushStep ==
    ASSUME ApiInv, NEW l \in Lists, NEW x \in Submissions \cup Runs, Push(l, x)
    PROVE  /\ IndexTypes'
           /\ \A k \in Lists : Newest(index[k], pushed[k])'
           /\ index'[l] = <<x>> \o index[l]
           /\ \A k \in Lists \ {l} : index'[k] = index[k]
<1> DEFINE T == Submissions \cup Runs
<1>1. index \in [Lists -> Seq(T)] /\ pushed \in [Lists -> Seq(T)]
  BY DEF ApiInv, IndexTypes
<1>2. \A k \in Lists : Newest(index[k], pushed[k])
  BY DEF ApiInv, Indexed
<1>3. /\ index' = [index EXCEPT ![l] = <<x>> \o index[l]]
      /\ pushed' = [pushed EXCEPT ![l] = <<x>> \o pushed[l]]
  BY DEF Push
<1>4. /\ <<x>> \o index[l] \in Seq(T) /\ <<x>> \o pushed[l] \in Seq(T)
      /\ Newest(<<x>> \o index[l], <<x>> \o pushed[l])
  <2> DEFINE a == index[l]
             b == pushed[l]
  <2>1. a \in Seq(T) /\ b \in Seq(T) /\ Newest(a, b) /\ x \in T
    BY <1>1, <1>2
  <2> HIDE DEF T, a, b
  <2>2. /\ <<x>> \o a \in Seq(T) /\ <<x>> \o b \in Seq(T) /\ Newest(<<x>> \o a, <<x>> \o b)
    BY <2>1, PushedIs, PushedNewest
  <2> QED BY <2>2 DEF a, b
<1> HIDE DEF T
<1>5. index' \in [Lists -> Seq(T)] /\ pushed' \in [Lists -> Seq(T)]
  BY <1>1, <1>3, <1>4
<1>6. ASSUME NEW k \in Lists PROVE Newest(index'[k], pushed'[k])
  BY <1>1, <1>2, <1>3, <1>4
<1>7. index'[l] = <<x>> \o index[l] /\ \A k \in Lists \ {l} : index'[k] = index[k]
  BY <1>1, <1>3
<1> QED BY <1>5, <1>6, <1>7 DEF T, IndexTypes

LEMMA TrimStep ==
    ASSUME ApiInv, NEW l \in Lists, Trim(l), pushed' = pushed
    PROVE  /\ IndexTypes'
           /\ \A k \in Lists : Newest(index[k], pushed[k])'
           /\ Len(index'[l]) <= Cap /\ Len(index'[l]) <= Len(index[l])
           /\ \A i \in 1 .. Len(index'[l]) : index'[l][i] = index[l][i]
           /\ \A k \in Lists \ {l} : index'[k] = index[k]
<1> DEFINE T == Submissions \cup Runs
           a == index[l]
           t == Trimmed(a)
<1>1. index \in [Lists -> Seq(T)] /\ pushed \in [Lists -> Seq(T)]
  BY DEF ApiInv, IndexTypes
<1>2. \A k \in Lists : Newest(index[k], pushed[k])
  BY DEF ApiInv, Indexed
<1>3. index' = [index EXCEPT ![l] = t]
  BY DEF Trim, Trimmed
<1>4. /\ t \in Seq(T) /\ Len(t) <= Cap /\ Len(t) <= Len(a)
      /\ \A i \in 1 .. Len(t) : t[i] = a[i]
      /\ Newest(t, pushed[l])
  <2> DEFINE b == pushed[l]
  <2>1. a \in Seq(T) /\ b \in Seq(T) /\ Newest(a, b)
    BY <1>1, <1>2
  <2> HIDE DEF T, a, b
  <2>2. /\ t \in Seq(T) /\ Len(t) <= Cap /\ Len(t) <= Len(a)
        /\ \A i \in 1 .. Len(t) : t[i] = a[i]
        /\ Newest(t, b)
    BY <2>1, TrimmedNewest
  <2> QED BY <2>2 DEF b
<1> HIDE DEF T, t
<1>5. index' \in [Lists -> Seq(T)] /\ pushed' \in [Lists -> Seq(T)]
  BY <1>1, <1>3, <1>4
<1>6. ASSUME NEW k \in Lists PROVE Newest(index'[k], pushed'[k])
  BY <1>1, <1>2, <1>3, <1>4
<1>7. index'[l] = t /\ \A k \in Lists \ {l} : index'[k] = index[k]
  BY <1>1, <1>3
<1> QED BY <1>4, <1>5, <1>6, <1>7 DEF T, IndexTypes

-----------------------------------------------------------------------------
(* Uploads: a bundle is registered once it is whole, and whole for good. *)
LEMMA ApiUploadStep ==
    ASSUME ApiInv, NEW u \in Submissions,
           \/ BadForm(u) \/ CreateFile(u) \/ CopyBundle(u) \/ CopyFails(u)
           \/ Register(u) \/ PushSubmission(u) \/ TrimSubmissions(u)
    PROVE  ApiInv'
<1> USE DEF BadForm, CreateFile, CopyBundle, CopyFails, Register, PushSubmission, TrimSubmissions, Upload
<1>0. ApiTypes /\ IndexTypes /\ Bundles /\ Stored /\ Listed /\ Indexed /\ BuildSeesWholeBundle
  BY DEF ApiInv
<1>1. UNCHANGED <<request, status, scored, build, reader>> /\ submission \subseteq submission'
  OBVIOUS
<1>2. ApiTypes'
  BY <1>0 DEF ApiTypes, UploadStates
<1>3. Bundles'
  BY <1>0 DEF Bundles, ApiTypes
<1>4. Stored' /\ BuildSeesWholeBundle'
  BY <1>0, <1>1 DEF Stored, BuildSeesWholeBundle
<1>5. (reader \in Views)' /\ Viewed'
  BY <1>1, ViewKept
<1>6. IndexTypes' /\ Listed' /\ Indexed'
  <2>1. CASE BadForm(u) \/ CreateFile(u) \/ CopyBundle(u) \/ CopyFails(u) \/ Register(u)
    <3>1. UNCHANGED <<index, pushed>>
      BY <2>1
    <3>2. (\A v \in Submissions : upload'[v] # "pushed") => \A v \in Submissions : upload[v] # "pushed"
      BY <1>0, <2>1 DEF ApiTypes
    <3> QED BY <1>0, <1>1, <3>1, <3>2 DEF IndexTypes, Listed, Indexed
  <2>2. CASE PushSubmission(u)
    <3>1. Push("submissions", u) /\ "submissions" \in Lists /\ u \in Submissions \cup Runs
      BY <2>2 DEF Lists
    <3>2. /\ IndexTypes'
          /\ \A k \in Lists : Newest(index[k], pushed[k])'
          /\ \A k \in Lists \ {"submissions"} : index'[k] = index[k]
      BY <3>1, PushStep
    <3>3. index'["runs"] = index["runs"]
      BY <3>2 DEF Lists
    <3>4. upload'[u] = "pushed"
      BY <1>0, <2>2 DEF ApiTypes
    <3> QED BY <1>0, <1>1, <3>2, <3>3, <3>4 DEF Listed, Indexed
  <2>3. CASE TrimSubmissions(u)
    <3>1. Trim("submissions") /\ "submissions" \in Lists /\ pushed' = pushed
      BY <2>3 DEF Lists
    <3>2. /\ IndexTypes'
          /\ \A k \in Lists : Newest(index[k], pushed[k])'
          /\ Len(index'["submissions"]) <= Cap
          /\ \A k \in Lists \ {"submissions"} : index'[k] = index[k]
      BY <3>1, TrimStep
    <3>3. index'["runs"] = index["runs"]
      BY <3>2 DEF Lists
    <3> QED BY <1>0, <1>1, <3>2, <3>3 DEF Listed, Indexed
  <2> QED BY <2>1, <2>2, <2>3
<1> QED BY <1>2, <1>3, <1>4, <1>5, <1>6 DEF ApiInv

(* Runs: the hash is there before the index names it. *)
LEMMA ApiRequestStep ==
    ASSUME ApiInv, NEW r \in Runs,
           \/ UnknownSubmission(r) \/ CheckSubmission(r) \/ StoreRun(r) \/ PushRun(r)
           \/ TrimRuns(r) \/ Enqueue(r) \/ EnqueueFails(r)
    PROVE  ApiInv'
<1> USE DEF UnknownSubmission, CheckSubmission, StoreRun, PushRun, TrimRuns, Enqueue, EnqueueFails, Request
<1>0. ApiTypes /\ IndexTypes /\ Bundles /\ Stored /\ Listed /\ Indexed /\ BuildSeesWholeBundle
  BY DEF ApiInv
<1>1. UNCHANGED <<upload, file, submission, scored, build, reader>>
  OBVIOUS
<1>2. ApiTypes'
  BY <1>0 DEF ApiTypes, RequestStates, RunStatus
<1>3. Bundles' /\ BuildSeesWholeBundle'
  BY <1>0, <1>1 DEF Bundles, BuildSeesWholeBundle
<1>4. Stored'
  BY <1>0 DEF Stored, ApiTypes
<1>5. \A q \in Runs : status[q] # "none" => status'[q] # "none"
  BY <1>0 DEF ApiTypes
<1>6. (reader \in Views)' /\ Viewed'
  BY <1>1, <1>5, ViewKept
<1>7. IndexTypes' /\ Listed' /\ Indexed'
  <2>1. CASE UnknownSubmission(r) \/ CheckSubmission(r) \/ StoreRun(r) \/ Enqueue(r) \/ EnqueueFails(r)
    <3>1. UNCHANGED <<index, pushed>>
      BY <2>1
    <3>2. (\A q \in Runs : request'[q] # "pushed") => \A q \in Runs : request[q] # "pushed"
      BY <1>0, <2>1 DEF ApiTypes
    <3>3. Listed'
      BY <1>0, <1>5, <3>1 DEF Listed
    <3> QED BY <1>0, <1>1, <3>1, <3>2, <3>3 DEF IndexTypes, Indexed
  <2>2. CASE PushRun(r)
    <3>1. Push("runs", r) /\ "runs" \in Lists /\ r \in Submissions \cup Runs
      BY <2>2 DEF Lists
    <3>2. /\ IndexTypes'
          /\ \A k \in Lists : Newest(index[k], pushed[k])'
          /\ index'["runs"] = <<r>> \o index["runs"]
          /\ \A k \in Lists \ {"runs"} : index'[k] = index[k]
      BY <3>1, PushStep
    <3>3. index'["submissions"] = index["submissions"]
      BY <3>2 DEF Lists
    <3>4. request'[r] = "pushed" /\ status[r] # "none" /\ status' = status
      BY <1>0, <2>2 DEF ApiTypes, Stored
    <3>5. Listed'
      <4> DEFINE T == Submissions \cup Runs
                 a == index["runs"]
                 c == <<r>> \o a
      <4>1. a \in Seq(T) /\ r \in T
        BY <1>0 DEF IndexTypes, Lists
      <4> HIDE DEF a, T
      <4>2. Len(c) = Len(a) + 1 /\ c[1] = r /\ \A i \in 2 .. Len(a) + 1 : c[i] = a[i - 1]
        BY <4>1, PushedIs
      <4>3. \A i \in 1 .. Len(a) : a[i] \in Runs /\ status[a[i]] # "none"
        BY <1>0 DEF Listed, a
      <4>4. index'["runs"] = c /\ Len(a) \in Nat
        BY <3>2, <4>1 DEF a
      <4> HIDE DEF c
      <4>5. ASSUME NEW i \in 1 .. Len(c) PROVE c[i] \in Runs /\ status[c[i]] # "none"
        <5>1. i = 1 \/ (i \in 2 .. Len(a) + 1 /\ i - 1 \in 1 .. Len(a))
          BY <4>2, <4>4
        <5> QED BY <3>4, <4>2, <4>3, <5>1
      <4> QED BY <3>4, <4>4, <4>5 DEF Listed
    <3> QED BY <1>0, <1>1, <3>2, <3>3, <3>4, <3>5 DEF Indexed
  <2>3. CASE TrimRuns(r)
    <3>1. Trim("runs") /\ "runs" \in Lists /\ pushed' = pushed /\ status' = status
      BY <2>3 DEF Lists
    <3>2. /\ IndexTypes'
          /\ \A k \in Lists : Newest(index[k], pushed[k])'
          /\ Len(index'["runs"]) <= Cap /\ Len(index'["runs"]) <= Len(index["runs"])
          /\ \A i \in 1 .. Len(index'["runs"]) : index'["runs"][i] = index["runs"][i]
          /\ \A k \in Lists \ {"runs"} : index'[k] = index[k]
      BY <3>1, TrimStep
    <3>3. index'["submissions"] = index["submissions"]
      BY <3>2 DEF Lists
    <3>4. index["runs"] \in Seq(Submissions \cup Runs) /\ index'["runs"] \in Seq(Submissions \cup Runs)
      BY <1>0, <3>2 DEF IndexTypes, Lists
    <3>5. Listed'
      BY <1>0, <3>1, <3>2, <3>4 DEF Listed
    <3> QED BY <1>0, <1>1, <3>2, <3>3, <3>5 DEF Indexed
  <2> QED BY <2>1, <2>2, <2>3
<1> QED BY <1>2, <1>3, <1>4, <1>6, <1>7 DEF ApiInv

(* The orchestrator builds what is registered; the ingester writes the     *)
(* score before the status.                                                *)
LEMMA ApiPipelineStep ==
    ASSUME ApiInv, NEW r \in Runs, OpenBundle(r) \/ WriteResult(r) \/ WriteDone(r)
    PROVE  ApiInv'
<1> USE DEF OpenBundle, WriteResult, WriteDone, handlers
<1>0. ApiTypes /\ IndexTypes /\ Bundles /\ Stored /\ Listed /\ Indexed /\ BuildSeesWholeBundle
  BY DEF ApiInv
<1>1. /\ UNCHANGED <<upload, request, file, submission, index, pushed, reader>>
      /\ scored \subseteq scored'
  OBVIOUS
<1>2. OpenBundle(r) => file[SubmissionOf[r]] = "whole"
  BY <1>0, RestApiAssumption DEF Stored, Bundles, ApiTypes
<1>3. ApiTypes'
  BY <1>0, <1>2 DEF ApiTypes, RunStatus
<1>4. Bundles'
  BY <1>0, <1>1 DEF Bundles
<1>5. Stored'
  BY <1>0 DEF Stored, ApiTypes
<1>6. \A q \in Runs : status[q] # "none" => status'[q] # "none"
  BY <1>0 DEF ApiTypes
<1>7. (reader \in Views)' /\ Viewed'
  BY <1>1, <1>6, ViewKept
<1>8. BuildSeesWholeBundle'
  BY <1>0, <1>2 DEF BuildSeesWholeBundle, ApiTypes
<1>9. IndexTypes' /\ Indexed'
  BY <1>0, <1>1 DEF IndexTypes, Indexed
<1>10. Listed'
  BY <1>0, <1>1, <1>6 DEF Listed
<1> QED BY <1>3, <1>4, <1>5, <1>7, <1>8, <1>9, <1>10 DEF ApiInv

(* A reader moves on by one read, or starts again. *)
LEMMA ApiReadStep ==
    ASSUME ApiInv, (\E r \in Runs : ReadView(r)) \/ AnswerView
    PROVE  ApiInv'
<1>0. /\ ApiTypes /\ IndexTypes /\ Bundles /\ Stored /\ Listed /\ Indexed /\ BuildSeesWholeBundle
      /\ reader \in Views /\ Viewed
  BY DEF ApiInv
<1>1. UNCHANGED <<upload, request, file, submission, status, scored, index, pushed, build>>
  BY DEF ReadView, AnswerView, handlers
<1>2. ApiTypes' /\ IndexTypes' /\ Bundles' /\ Stored' /\ Listed' /\ Indexed' /\ BuildSeesWholeBundle'
  BY <1>0, <1>1 DEF ApiTypes, IndexTypes, Bundles, Stored, Listed, Indexed, BuildSeesWholeBundle
<1>3. NoView \in Views /\ NoView.done = 0
  BY DEF NoView, Views, RunStatus
<1>4. reader' = NoView => (reader \in Views)' /\ Viewed'
  BY <1>3 DEF Viewed
<1>5. ASSUME NEW r \in Runs, ReadView(r) PROVE (reader \in Views)' /\ Viewed'
  <2> DEFINE next == [reader EXCEPT !.done = @ + 1, !.run = r]
  <2>1. Len(ViewReads) = 3 /\ ViewReads[1] = "run" /\ ViewReads[2] = "result" /\ ViewReads[3] = "submission"
    BY DEF ViewReads
  <2>a. /\ reader.done = 0 \/ (reader.run = r /\ reader.done < Len(ViewReads))
        /\ reader' =
             CASE ViewReads[reader.done + 1] = "run" ->
                    IF status[r] = "none" THEN NoView ELSE [next EXCEPT !.status = status[r]]
               [] ViewReads[reader.done + 1] = "result"     -> [next EXCEPT !.scored = r \in scored]
               [] ViewReads[reader.done + 1] = "submission" -> [next EXCEPT !.named = SubmissionOf[r] \in submission]
    BY <1>5, Zenon DEF ReadView
  <2>b. reader.done \in 0 .. 3
    BY <1>0 DEF Viewed
  <2>2. reader.done \in 0 .. 2 /\ (reader.done = 0 \/ reader.run = r)
    BY <2>a, <2>b, <2>1
  <2>3. /\ next \in [done : 1 .. 3, run : Runs \cup {"none"}, status : RunStatus, scored : BOOLEAN, named : BOOLEAN]
        /\ next.done = reader.done + 1 /\ next.run = r
        /\ next.status = reader.status /\ next.scored = reader.scored /\ next.named = reader.named
    <3> DEFINE n == reader.done + 1
    <3>1. n \in 1 .. 3
      BY <2>2
    <3>2. next = [[reader EXCEPT !.done = n] EXCEPT !.run = r]
      OBVIOUS
    <3> HIDE DEF n, next
    <3>3. next \in [done : 1 .. 3, run : Runs \cup {"none"}, status : RunStatus, scored : BOOLEAN, named : BOOLEAN]
      BY <1>0, <3>1, <3>2 DEF Views
    <3>4. /\ next.done = n /\ next.run = r
          /\ next.status = reader.status /\ next.scored = reader.scored /\ next.named = reader.named
      BY <1>0, <3>2 DEF Views
    <3> QED BY <3>3, <3>4 DEF n
  <2>4. CASE reader.done = 0
    <3>1. reader' = IF status[r] = "none" THEN NoView ELSE [next EXCEPT !.status = status[r]]
      BY <2>a, <2>1, <2>4
    <3>2. CASE status[r] # "none"
      <4> HIDE DEF next
      <4>1. status[r] \in RunStatus
        BY <1>0 DEF ApiTypes
      <4>2. reader' \in Views /\ reader'.done = 1 /\ reader'.run = r /\ reader'.status = status[r]
        BY <2>3, <2>4, <3>1, <3>2, <4>1 DEF Views
      <4>3. status[r] = "done" => r \in scored
        BY <1>0 DEF Stored
      <4> QED BY <1>1, <3>2, <4>2, <4>3 DEF Viewed
    <3> QED BY <1>4, <3>1, <3>2
  <2>5. CASE reader.done = 1
    <3> DEFINE b == r \in scored
    <3>0. b \in BOOLEAN
      OBVIOUS
    <3>1. reader' = [next EXCEPT !.scored = b]
      BY <2>a, <2>1, <2>5
    <3>2. status[r] # "none" /\ (reader.status = "done" => b = TRUE)
      BY <1>0, <2>2, <2>5 DEF Viewed
    <3>3. reader.status = "done" => r \in scored
      BY <1>0, <2>2, <2>5 DEF Viewed
    <3> HIDE DEF next, b
    <3>4. reader' \in Views
      BY <2>3, <3>0, <3>1 DEF Views
    <3>5. /\ reader'.done = 2 /\ reader'.run = r /\ reader'.status = reader.status
          /\ reader'.scored = b
      BY <2>3, <2>5, <3>1
    <3> QED BY <1>1, <3>2, <3>3, <3>4, <3>5 DEF Viewed
  <2>6. CASE reader.done = 2
    <3> DEFINE b == SubmissionOf[r] \in submission
    <3>0. b \in BOOLEAN
      OBVIOUS
    <3>1. reader' = [next EXCEPT !.named = b]
      BY <2>a, <2>1, <2>6
    <3>2. /\ status[r] # "none" /\ (reader.status = "done" => r \in scored)
          /\ (reader.status = "done" => reader.scored)
      BY <1>0, <2>2, <2>6 DEF Viewed
    <3>3. b = TRUE
      BY <1>0, <3>2 DEF Stored
    <3> HIDE DEF next, b
    <3>4. reader' \in Views
      BY <2>3, <3>0, <3>1 DEF Views
    <3>5. /\ reader'.done = 3 /\ reader'.run = r /\ reader'.status = reader.status
          /\ reader'.scored = reader.scored /\ reader'.named = b
      BY <2>3, <2>6, <3>1
    <3> QED BY <1>1, <3>2, <3>3, <3>4, <3>5 DEF Viewed
  <2> QED BY <2>2, <2>4, <2>5, <2>6
<1>6. (reader \in Views)' /\ Viewed'
  BY <1>4, <1>5 DEF AnswerView
<1> QED BY <1>2, <1>6 DEF ApiInv

LEMMA ApiKept == ApiInv /\ [Next]_vars => ApiInv'
<1> SUFFICES ASSUME ApiInv, [Next]_vars PROVE ApiInv'
  OBVIOUS
<1>1. CASE UNCHANGED vars
  <2>1. UNCHANGED <<upload, request, file, submission, status, scored, index, pushed, build>> /\ reader' = reader
    BY <1>1 DEF vars
  <2>2. (reader \in Views)' /\ Viewed'
    BY <2>1, ViewKept
  <2>3. ApiTypes' /\ IndexTypes' /\ Bundles' /\ Stored' /\ Listed' /\ Indexed' /\ BuildSeesWholeBundle'
    BY <2>1 DEF ApiInv, ApiTypes, IndexTypes, Bundles, Stored, Listed, Indexed, BuildSeesWholeBundle
  <2> QED BY <2>2, <2>3 DEF ApiInv
<1>2. CASE Next
  BY <1>2, ApiUploadStep, ApiRequestStep, ApiPipelineStep, ApiReadStep DEF Next
<1> QED BY <1>1, <1>2

LEMMA ApiAlways == Spec => []ApiInv
  BY ApiStarts, ApiKept, PTL DEF Spec

-----------------------------------------------------------------------------
(* The prefix of SequencesExt and the Min of FiniteSetsExt are the ones    *)
(* Newest compares with.                                                   *)
LEMMA NewestIsPrefix ==
    ASSUME NEW T, NEW a \in Seq(T), NEW b \in Seq(T), Newest(a, b)
    PROVE  IsPrefix(a, b)
<1>1. Len(a) <= Len(b) /\ \A i \in 1 .. Len(a) : a[i] = b[i]
  BY DEF Newest
<1>2. /\ SubSeq(a, 1, Len(a)) \in Seq(T) /\ Len(SubSeq(a, 1, Len(a))) = Len(a)
      /\ \A i \in 1 .. Len(a) : SubSeq(a, 1, Len(a))[i] = a[i]
  OBVIOUS
<1>3. /\ SubSeq(b, 1, Len(a)) \in Seq(T) /\ Len(SubSeq(b, 1, Len(a))) = Len(a)
      /\ \A i \in 1 .. Len(a) : SubSeq(b, 1, Len(a))[i] = b[i]
  BY <1>1
<1>4. SubSeq(a, 1, Len(a)) = SubSeq(b, 1, Len(a))
  <2> DEFINE c == SubSeq(a, 1, Len(a))
             d == SubSeq(b, 1, Len(a))
  <2>1. c \in Seq(T) /\ d \in Seq(T) /\ Len(c) = Len(d) /\ \A i \in 1 .. Len(c) : c[i] = d[i]
    BY <1>1, <1>2, <1>3
  <2> HIDE DEF c, d
  <2>2. c = d
    BY <2>1
  <2> QED BY <2>2 DEF c, d
<1> QED BY <1>1, <1>4 DEF IsPrefix

LEMMA MinOfTwo ==
    ASSUME NEW m \in Nat, NEW n \in Nat
    PROVE  Min({m, n}) = IF m <= n THEN m ELSE n
<1> DEFINE P(x) == x \in {m, n} /\ \A y \in {m, n} : x =< y
<1>1. \A x : P(x) <=> x = IF m <= n THEN m ELSE n
  OBVIOUS
<1>2. Min({m, n}) = CHOOSE x : P(x)
  BY DEF Min
<1> HIDE DEF P
<1> QED BY <1>1, <1>2

(* createSubmission() registers a bundle after io.Copy is through, so no   *)
(* build reads a partial one, for any number of uploads and runs.          *)
THEOREM BuildsReadWholeBundles == Spec => []BuildSeesWholeBundle
<1>1. ApiInv => BuildSeesWholeBundle
  BY DEF ApiInv
<1> QED BY <1>1, ApiAlways, PTL

(* createRun() stores the hash before it pushes the id, and no run is      *)
(* deleted: listRuns() finds every run it is led to.                       *)
THEOREM ListedRunsAreStored == Spec => []ListedRunsExist
<1>1. ApiInv => ListedRunsExist
  <2> SUFFICES ASSUME ApiInv PROVE ListedRunsExist
    OBVIOUS
  <2>1. DOMAIN index["runs"] = 1 .. Len(index["runs"])
    BY DEF ApiInv, IndexTypes, Lists
  <2> QED BY <2>1 DEF ApiInv, Listed, ListedRunsExist
<1> QED BY <1>1, ApiAlways, PTL

(* LPUSH and LTRIM of any number of handlers, for any cap: an index is     *)
(* what was pushed last, as much of it as the cap allows, and no longer    *)
(* once nobody is between the two.                                         *)
THEOREM IndexesKeepNewest == Spec => []IndexKeepsNewest
<1>1. ApiInv => IndexKeepsNewest
  <2> SUFFICES ASSUME ApiInv PROVE IndexKeepsNewest
    OBVIOUS
  <2>1. DOMAIN index = Lists
    BY DEF ApiInv, IndexTypes
  <2>2. ASSUME NEW l \in Lists
        PROVE  IsPrefix(index[l], pushed[l]) /\ Len(index[l]) >= Min({Cap, Len(pushed[l])})
    <3> DEFINE T == Submissions \cup Runs
               a == index[l]
               b == pushed[l]
    <3>1. a \in Seq(T) /\ b \in Seq(T) /\ Newest(a, b)
      BY DEF ApiInv, IndexTypes, Indexed
    <3> HIDE DEF T, a, b
    <3>2. IsPrefix(a, b)
      BY <3>1, NewestIsPrefix
    <3>3. Min({Cap, Len(b)}) = IF Cap <= Len(b) THEN Cap ELSE Len(b)
      BY <3>1, MinOfTwo, RestApiAssumption
    <3>4. Len(a) >= Min({Cap, Len(b)})
      BY <3>1, <3>3, RestApiAssumption DEF Newest
    <3> QED BY <3>2, <3>4 DEF a, b
  <2> QED BY <2>1, <2>2 DEF ApiInv, Indexed, IndexKeepsNewest
<1> QED BY <1>1, ApiAlways, PTL

(* runView() reads the status before the result and the submission, which  *)
(* are written before it: the view of a done run has its score, and every  *)
(* view its team, whatever is written between the reads.                   *)
THEOREM ViewsAreConsistent == Spec => []ViewsConsistent
<1>1. ApiInv => ViewsConsistent
  BY DEF ApiInv, Viewed, ViewsConsistent, ViewReads
<1> QED BY <1>1, ApiAlways, PTL
=============================================================================
