---------------------------- MODULE PackageDownload ----------------------------
(***************************************************************************)
(* The download of one version's installation package to the control plane *)
(* (internal/apps/installer/service.go): the downloads map, the worker of  *)
(* each task, the temporary and the final file.                            *)
(* All tasks of a version share the temporary path and the final path.  A  *)
(* worker that creates the temporary file while another is writing it gets *)
(* the same file, truncated; both write the same bytes, so a file is whole *)
(* once the worker that truncated it last has written everything.          *)
(***************************************************************************)
EXTENDS Integers

CONSTANT MaxTasks  \* bound: downloads started

ASSUME TasksAssumption == MaxTasks \in Nat \ {0}

Tasks  == 1 .. MaxTasks
NoTask == 0
NoFile == 0

VARIABLES
    latest,   \* downloads[version]: the task started last
    task,     \* DownloadTask and its worker, by task
    temp,     \* the file at the temporary path, named after its creator
    final,    \* the file at the final path
    file,     \* last truncated by which worker, and is it whole
    together  \* history variable: two workers have been active at a time

downloadVars == <<latest, task, temp, final, file, together>>

Ended == {"completed", "failed", "cancelled"}

DownloadTypeOK ==
    /\ latest \in Tasks \cup {NoTask}
    /\ task \in [Tasks -> [status : {"none", "pending", "downloading", "cancelling"} \cup Ended,
                           pc : {"none", "begin", "request", "write", "check", "rename",
                                 "source", "publish", "done"},
                           handle : Tasks \cup {NoFile}]]
    /\ temp \in Tasks \cup {NoFile}
    /\ final \in Tasks \cup {NoFile}
    /\ file \in [Tasks -> [writer : Tasks \cup {NoTask}, whole : BOOLEAN]]
    /\ together \in BOOLEAN

DownloadInit ==
    /\ latest = NoTask
    /\ task = [d \in Tasks |-> [status |-> "none", pc |-> "none", handle |-> NoFile]]
    /\ temp = NoFile
    /\ final = NoFile
    /\ file = [f \in Tasks |-> [writer |-> NoTask, whole |-> FALSE]]
    /\ together = FALSE

Active(d) == task[d].pc \notin {"none", "done"}

\* The status the callers see.
DownloadStatus == IF latest = NoTask THEN "none" ELSE task[latest].status

-----------------------------------------------------------------------------
(* Requests.                                                               *)

\* StartDownload: refused while the version's task is pending or downloading.
StartDownload ==
    /\ latest < MaxTasks
    /\ DownloadStatus \notin {"pending", "downloading"}
    /\ latest' = latest + 1
    /\ task' = [task EXCEPT ![latest + 1].status = "pending", ![latest + 1].pc = "begin"]
    /\ together' = (together \/ \E d \in Tasks : Active(d))
    /\ UNCHANGED <<temp, final, file>>

\* Mutant: the cancellation is published before the worker has stopped.
CancelDownload_Publishes ==
    /\ DownloadStatus \in {"pending", "downloading", "cancelling"}
    /\ task' = [task EXCEPT ![latest].status = "cancelled"]
    /\ UNCHANGED <<latest, temp, final, file, together>>

CancelDownload ==
    /\ DownloadStatus \in {"pending", "downloading", "cancelling"}
    /\ task' = [task EXCEPT ![latest].status = "cancelling"]
    /\ UNCHANGED <<latest, temp, final, file, together>>

-----------------------------------------------------------------------------
(* The worker: runDownload.                                                *)

Ends(d, status) == task' = [task EXCEPT ![d].status = status, ![d].pc = "done"]

Goes(d, pc) == task' = [task EXCEPT ![d].pc = pc]

Cancelling(d) == task[d].status = "cancelling"

BeginDownload(d) ==
    /\ task[d].pc = "begin"
    /\ IF Cancelling(d) THEN Ends(d, "cancelled")
       ELSE task' = [task EXCEPT ![d].status = "downloading", ![d].pc = "request"]
    /\ UNCHANGED <<latest, temp, final, file, together>>

\* The response is there: os.Create truncates the temporary file or makes one.
CreateTemp(d) ==
    /\ task[d].pc = "request"
    /\ LET f == IF temp = NoFile THEN d ELSE temp IN
        /\ temp' = f
        /\ task' = [task EXCEPT ![d].pc = "write", ![d].handle = f]
        /\ file' = [file EXCEPT ![f] = [writer |-> d, whole |-> FALSE]]
    /\ UNCHANGED <<latest, final, together>>

\* No response, an HTTP error or a file that cannot be created: failed, even if
\* the task is being cancelled; some of these leave the temporary file alone.
RequestFails(d) ==
    /\ task[d].pc = "request"
    /\ Ends(d, "failed")
    /\ temp' \in {temp, NoFile}
    /\ UNCHANGED <<latest, final, file, together>>

\* A read or a write fails: markDownloadFailed removes whatever is at the path.
WriteFails(d) ==
    /\ task[d].pc = "write"
    /\ Ends(d, "failed")
    /\ temp' = NoFile
    /\ UNCHANGED <<latest, final, file, together>>

\* Everything is written.
WriteEnds(d) ==
    /\ task[d].pc = "write"
    /\ Goes(d, "check")
    /\ file' = [f \in Tasks |-> IF file[f].writer = d THEN [file[f] EXCEPT !.whole = TRUE]
                                ELSE file[f]]
    /\ UNCHANGED <<latest, temp, final, together>>

\* markDownloadCancelled: the worker has stopped; it removes the temporary file.
StopCancelled(d) ==
    /\ task[d].pc \in {"request", "write", "check"}
    /\ Cancelling(d)
    /\ Ends(d, "cancelled")
    /\ temp' = NoFile
    /\ UNCHANGED <<latest, final, file, together>>

CheckCancelled(d) ==
    /\ task[d].pc = "check"
    /\ ~Cancelling(d)
    /\ Goes(d, "rename")
    /\ UNCHANGED <<latest, temp, final, file, together>>

\* Mutant: a file that cannot be moved is ignored.
Rename_Ignored(d) ==
    /\ task[d].pc = "rename"
    /\ Goes(d, "source")
    /\ IF temp # NoFile
       THEN final' \in {final, temp} /\ temp' = NoFile
       ELSE UNCHANGED <<temp, final>>
    /\ UNCHANGED <<latest, file, together>>

\* The move may fail, and fails if the path is empty; what is moved is what is
\* there.  The source package, if asked for, is fetched next.
Rename(d) ==
    /\ task[d].pc = "rename"
    /\ \/ /\ temp # NoFile
          /\ final' = temp
          /\ \E pc \in {"source", "publish"} : Goes(d, pc)
       \/ /\ UNCHANGED final
          /\ Ends(d, "failed")
    /\ temp' = NoFile
    /\ UNCHANGED <<latest, file, together>>

FetchSource(d) ==
    /\ task[d].pc = "source"
    /\ Goes(d, "publish")
    /\ UNCHANGED <<latest, temp, final, file, together>>

\* A task cancelled after the move removes the final file too.
Publish(d) ==
    /\ task[d].pc = "publish"
    /\ IF Cancelling(d)
       THEN /\ Ends(d, "cancelled")
            /\ final' = NoFile
            /\ temp' = NoFile
       ELSE /\ Ends(d, "completed")
            /\ UNCHANGED <<temp, final>>
    /\ UNCHANGED <<latest, file, together>>

Worker(d) ==
    \/ BeginDownload(d) \/ CreateTemp(d) \/ RequestFails(d) \/ WriteFails(d) \/ WriteEnds(d)
    \/ StopCancelled(d) \/ CheckCancelled(d) \/ Rename(d) \/ FetchSource(d) \/ Publish(d)

DownloadNext ==
    \/ StartDownload
    \/ CancelDownload
    \/ \E d \in Tasks : Worker(d)

-----------------------------------------------------------------------------
(* Properties.                                                             *)

\* An ended task has no worker any more: in particular "only the downloader may
\* publish cancelled after it stops" (CancelDownload), so that a task started
\* after the end of another never shares its files.
EndedMeansStopped == \A d \in Tasks : task[d].status \in Ended => ~Active(d)

\* As long as no two workers have been active together, a completed download has
\* left a whole package at the final path, whatever was cancelled or failed before.
CompletedIsWhole ==
    ~together /\ DownloadStatus = "completed" => final # NoFile /\ file[final].whole
=============================================================================
