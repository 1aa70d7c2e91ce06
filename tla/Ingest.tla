------------------------------- MODULE Ingest -------------------------------
(***************************************************************************)
(* Media intelligence: versions of one file are committed, ingest jobs     *)
(* extract text from a version, and the text becomes segment entities, a   *)
(* transcript in the object store and an event.  A run is one statement or *)
(* extractor call at a time; a drainer may die after any of them, and the  *)
(* queue then runs the job again from its beginning, perhaps while the     *)
(* first run is still going.                                               *)
(*                                                                         *)
(* The text of a version is a sequence of numbered pieces.  What the       *)
(* embedder is told is left out: it is best effort and nothing reads it    *)
(* back.                                                                   *)
(***************************************************************************)
EXTENDS Naturals, Sequences, FiniteSets

CONSTANTS
  NoBlob,
  Media,       \* the media kinds of this instance; the file is of one
  Versions,    \* contents the file may have
  IngestJobs, Drainers,
  Pieces,      \* the text of a content, as piece numbers
  MaxIngests,  \* bound: attempts of a job
  MaxCommits,  \* bound: commits
  MaxDeaths   \* bound: drainers that die

VARIABLES
  media,
  file,        \* the file entity: blob_ref, attrs.transcript_ref, attrs.ingest_blocked_by
  kept,        \* what the object store holds: contents and texts
  commits,     \* how many commits there were
  commit,      \* a commit in progress: the handler of routes/files.rs
  segments,    \* the pieces of contents that are segment entities
  reports,     \* ingest.completed and ingest.unsupported events
  queue,       \* the ingest jobs
  ingest,      \* what each drainer does
  deaths

ingestVars == <<media, file, kept, commits, commit, segments, reports, queue, ingest, deaths>>

Routes == {"text", "audio", "image", "pdf", "docx", "video"}

ASSUME IngestAssumption ==
  /\ Media \subseteq Routes
  /\ IsFiniteSet(Pieces) /\ Pieces = 1..Cardinality(Pieces) /\ Cardinality(Pieces) >= 2
  /\ {MaxIngests, MaxCommits, MaxDeaths} \subseteq Nat

\* A run that has read nothing yet.
RunOf(j, pc) == [job |-> j, pc |-> pc, blob |-> NoBlob, todo |-> << >>, found |-> << >>]
NoRun == RunOf(NoBlob, "idle")

IngestInit ==
  /\ media \in Media
  /\ file = [blob |-> NoBlob, transcript |-> NoBlob, blocked |-> FALSE]
  /\ kept = {} /\ commits = 0
  /\ commit = [pc |-> "idle", blob |-> NoBlob]
  /\ segments = {}
  /\ reports = {}
  /\ queue = [j \in IngestJobs |-> [status |-> "new", blob |-> NoBlob, by |-> NoBlob, attempts |-> 0]]
  /\ ingest = [d \in Drainers |-> NoRun]
  /\ deaths = 0

JobRows == [status : {"new", "queued", "running", "done", "failed"},
            blob : Versions \cup {NoBlob}, by : Drainers \cup {NoBlob}, attempts : 0..MaxIngests]

IngestTypeOK ==
  /\ media \in Routes
  /\ file \in [blob : Versions \cup {NoBlob}, transcript : Versions \cup {NoBlob}, blocked : BOOLEAN]
  /\ kept \subseteq {"content", "text"} \X Versions
  /\ commits \in 0..MaxCommits
  /\ segments \subseteq Versions \X Pieces
  /\ queue \in [IngestJobs -> JobRows]
  /\ \A d \in Drainers : ingest[d].job \in IngestJobs \cup {NoBlob}
  /\ deaths \in 0..MaxDeaths

Enqueue(b) ==
  \E j \in IngestJobs :
    /\ queue[j].status = "new"
    /\ queue' = [queue EXCEPT ![j] = [queue[j] EXCEPT !.status = "queued", !.blob = b]]

\* The version commit of the vcs routes: the content is stored, no job is queued.
CommitStored(b) ==
  /\ b # file.blob /\ commits < MaxCommits
  /\ kept' = kept \cup {<<"content", b>>}
  /\ file' = [file EXCEPT !.blob = b]
  /\ commits' = commits + 1
  /\ UNCHANGED <<media, commit, segments, reports, queue, ingest, deaths>>

\* The commit of the files module: the content is hashed and not stored.
BeginFileCommit(b) ==
  /\ commit.pc = "idle" /\ b # file.blob /\ commits < MaxCommits
  /\ commit' = [pc |-> "row", blob |-> b]
  /\ commits' = commits + 1
  /\ UNCHANGED <<media, file, kept, segments, reports, queue, ingest, deaths>>

\* attrs are replaced as a whole, an earlier transcript_ref among them.
UpsertFile ==
  /\ commit.pc = "row"
  /\ file' = [blob |-> commit.blob, transcript |-> NoBlob, blocked |-> FALSE]
  /\ commit' = [commit EXCEPT !.pc = "event"]
  /\ UNCHANGED <<media, kept, commits, segments, reports, queue, ingest, deaths>>

EmitCommit ==
  /\ commit.pc = "event"
  /\ commit' = [commit EXCEPT !.pc = "job"]
  /\ UNCHANGED <<media, file, kept, commits, segments, reports, queue, ingest, deaths>>

\* A job that cannot be queued fails nothing.
AutoIngest ==
  /\ commit.pc = "job"
  /\ Enqueue(commit.blob) \/ UNCHANGED queue
  /\ commit' = [commit EXCEPT !.pc = "idle"]
  /\ UNCHANGED <<media, file, kept, commits, segments, reports, ingest, deaths>>

\* POST /api/ingest, by hand: a version that is named, or whatever the entity
\* refers to when the job runs.
AskIngest ==
  /\ \E b \in Versions \cup {NoBlob} : Enqueue(b)
  /\ UNCHANGED <<media, file, kept, commits, commit, segments, reports, ingest, deaths>>
-----------------------------------------------------------------------------
At_(d, pc) == ingest[d].pc = pc
Now(d, run) == ingest' = [ingest EXCEPT ![d] = run]
To(d, pc) == Now(d, [ingest[d] EXCEPT !.pc = pc])
Same == UNCHANGED <<media, commits, commit, deaths>>

ClaimIngest(d, j) ==
  /\ At_(d, "idle") /\ queue[j].status = "queued" /\ queue[j].attempts < MaxIngests
  /\ queue' = [queue EXCEPT ![j] = [queue[j] EXCEPT !.status = "running", !.by = d,
                                              !.attempts = queue[j].attempts + 1]]
  /\ Now(d, RunOf(j, "fetch"))
  /\ UNCHANGED <<file, kept, segments, reports>> /\ Same

\* The entity is read; the payload's blob_ref wins over the row's.
FetchEntity(d) ==
  /\ At_(d, "fetch")
  /\ LET asked == queue[ingest[d].job].blob
         b == IF asked = NoBlob THEN file.blob ELSE asked
     IN Now(d, [ingest[d] EXCEPT !.blob = b,
                                 !.pc = IF b = NoBlob THEN "fail"
                                        ELSE IF media = "video" THEN "blocked" ELSE "read"])
  /\ UNCHANGED <<file, kept, segments, reports, queue>> /\ Same

\* What each extractor may find in a content.
Whole == [n \in 1..Cardinality(Pieces) |-> n]
TextPieces == {Whole}
AudioPieces == {Whole, << >>}
ImagePieces == {Whole, <<1>>}            \* a caption; the OCR text when there is any
PdfPieces == {Whole, <<2>>}              \* blank pages are skipped
DocxPieces == {Whole}

MayFind ==
  CASE media = "text"  -> TextPieces
    [] media = "audio" -> AudioPieces
    [] media = "image" -> ImagePieces
    [] media = "pdf"   -> PdfPieces
    [] media = "docx"  -> DocxPieces

\* The extractor finds text, finds bytes that are no text, or fails the job.
Extract(d) ==
  /\ At_(d, "read")
  /\ \/ /\ <<"content", ingest[d].blob>> \in kept
        /\ \E t \in MayFind :
             Now(d, [ingest[d] EXCEPT !.pc = "insert", !.todo = t, !.found = t])
     \/ <<"content", ingest[d].blob>> \in kept /\ media = "text" /\ To(d, "blocked")
     \/ (<<"content", ingest[d].blob>> \notin kept \/ media # "text") /\ To(d, "fail")
  /\ UNCHANGED <<file, kept, segments, reports, queue>> /\ Same

\* Every run inserts segments of its own; a failed INSERT fails the job.
InsertSegment(d) ==
  /\ At_(d, "insert") /\ ingest[d].todo # << >>
  /\ segments' = segments \cup {<<ingest[d].blob, Head(ingest[d].todo)>>}
  /\ Now(d, [ingest[d] EXCEPT !.todo = Tail(ingest[d].todo)])
  /\ UNCHANGED <<file, kept, reports, queue>> /\ Same

\* mutant: the transcript comes first.
StoreTranscriptEarly(d) ==
  /\ At_(d, "insert")
  /\ kept' = kept \cup {<<"text", ingest[d].blob>>}
  /\ To(d, "ref")
  /\ UNCHANGED <<file, segments, reports, queue>> /\ Same

StoreTranscript(d) ==
  /\ At_(d, "insert") /\ ingest[d].todo = << >>
  /\ kept' = kept \cup {<<"text", ingest[d].blob>>}
  /\ To(d, "ref")
  /\ UNCHANGED <<file, segments, reports, queue>> /\ Same

SetTranscriptRef(d) ==
  /\ At_(d, "ref")
  /\ file' = [file EXCEPT !.transcript = ingest[d].blob]
  /\ To(d, "report")
  /\ UNCHANGED <<kept, segments, reports, queue>> /\ Same

\* The event of a run, which ends well.
Report(d) ==
  /\ At_(d, "report")
  /\ reports' = reports \cup {[type |-> "completed", job |-> ingest[d].job,
                               blob |-> ingest[d].blob, found |-> ingest[d].found]}
  /\ To(d, "complete")
  /\ UNCHANGED <<file, kept, segments, queue>> /\ Same

FinishUnsupported(d) ==
  /\ At_(d, "blocked")
  /\ file' = [file EXCEPT !.blocked = TRUE]
  /\ To(d, "reportBlocked")
  /\ UNCHANGED <<kept, segments, reports, queue>> /\ Same

ReportUnsupported(d) ==
  /\ At_(d, "reportBlocked")
  /\ reports' = reports \cup {[type |-> "unsupported", job |-> ingest[d].job,
                               blob |-> ingest[d].blob, found |-> << >>]}
  /\ To(d, "complete")
  /\ UNCHANGED <<file, kept, segments, queue>> /\ Same

\* A statement of the run fails: the job fails and is not tried again.
FailStatement(d) ==
  /\ deaths < MaxDeaths
  /\ ingest[d].pc \in {"fetch", "insert", "ref", "report", "blocked", "reportBlocked"}
  /\ To(d, "fail")
  /\ deaths' = deaths + 1
  /\ UNCHANGED <<media, file, kept, commits, commit, segments, reports, queue>>

\* complete_job and fail_job, by the holder of the lease only.
EndJob(d) ==
  /\ ingest[d].pc \in {"complete", "fail"}
  /\ LET j == ingest[d].job IN
       queue' = IF queue[j].status = "running" /\ queue[j].by = d
                THEN [queue EXCEPT ![j] = [queue[j] EXCEPT !.status =
                        IF At_(d, "complete") THEN "done" ELSE "failed"]]
                ELSE queue
  /\ Now(d, NoRun)
  /\ UNCHANGED <<file, kept, segments, reports>> /\ Same

DrainerDies(d) ==
  /\ ~At_(d, "idle") /\ deaths < MaxDeaths
  /\ Now(d, NoRun)
  /\ deaths' = deaths + 1
  /\ UNCHANGED <<media, file, kept, commits, commit, segments, reports, queue>>

\* The lease runs out, of a dead drainer or of a slow one.
ReapIngest(j) ==
  /\ queue[j].status = "running"
  /\ queue' = [queue EXCEPT ![j] = [queue[j] EXCEPT !.by = NoBlob,
                 !.status = IF queue[j].attempts >= MaxIngests THEN "failed" ELSE "queued"]]
  /\ UNCHANGED <<file, kept, segments, reports, ingest>> /\ Same

IngestNext ==
  \/ \E b \in Versions : CommitStored(b) \/ BeginFileCommit(b)
  \/ UpsertFile \/ EmitCommit \/ AutoIngest \/ AskIngest
  \/ \E d \in Drainers :
       \/ \E j \in IngestJobs : ClaimIngest(d, j)
       \/ FetchEntity(d) \/ Extract(d) \/ InsertSegment(d)
       \/ StoreTranscript(d) \/ SetTranscriptRef(d) \/ Report(d)
       \/ FinishUnsupported(d) \/ ReportUnsupported(d) \/ FailStatement(d)
       \/ EndJob(d) \/ DrainerDies(d)
  \/ \E j \in IngestJobs : ReapIngest(j)

\* What ingest announces can be found, whatever runs of a job were cut short or
\* overlapped: every piece it reports is a segment, the text it refers to is in
\* the store, and a job that is done has reported (lib.rs:454-490, main.rs:488).
DoneIsSearchable ==
  /\ \A r \in reports : r.type = "completed" =>
       /\ <<"text", r.blob>> \in kept
       /\ \A n \in DOMAIN r.found : <<r.blob, r.found[n]>> \in segments
  /\ file.transcript # NoBlob => <<"text", file.transcript>> \in kept
  /\ \A j \in IngestJobs : queue[j].status = "done" => \E r \in reports : r.job = j

\* What a file refers to is in the object store.  It does not hold: the files
\* module only hashes what it commits, so its own ingest job fails (files.rs:48).
CommittedIsStored == file.blob # NoBlob => <<"content", file.blob>> \in kept
=============================================================================
