------------------------------- MODULE OcrSession -------------------------------
(* One opening of the overlay: launch.sh, the OCR helper it keeps beside   *)
(* Quickshell (native/ocr-server.cpp), the processes that ask the helper   *)
(* for text (src/ocr-client.ts), and the files they share.                 *)
EXTENDS Naturals, SequencesExt

CONSTANTS
  Languages,     \* the languages the configuration asks for
  Full,          \* a request for the whole image
  Crops,         \* requests for a part of it
  Outside,       \* requests for a region that is not in the image
  Invalid,       \* arguments that are no request
  Backlog,       \* connections that may wait to be accepted, but one
  MaxJobs,       \* bound: requests
  MaxFaults      \* bound: crashes, failed steps, signals and slow peers

ASSUME OcrAssumption ==
  /\ Languages # {}
  /\ Backlog \in Nat /\ MaxJobs \in Nat /\ MaxFaults \in Nat

VARIABLES
  launcher,      \* where launch.sh is
  interrupted,   \* a signal it has not acted upon
  files,         \* the session directory and what is in it
  record,        \* what the helper has written to `ready`
  helper,        \* place, languages loaded, stopping, client, region set
  backlog,       \* connections the helper has not accepted
  jobs,          \* the requests
  faults

vars == <<launcher, interrupted, files, record, helper, backlog, jobs, faults>>
session == <<launcher, interrupted>>
disk == <<files, record>>

Regions == {Full} \cup Crops
Requests == Regions \cup Outside \cup Invalid
None == "none"

(* A region is not one of the words for what else may become of a request. *)
ASSUME RegionsAssumption ==
  Regions \cap {None, "invalid", "incomplete", "failed", "partial", "closed",
                "unusable", "timeout", "unavailable"} = {}

Fault == faults < MaxFaults /\ faults' = faults + 1

-----------------------------------------------------------------------------
(* Before Quickshell. *)

(* What `overlay bootstrap` printed, and its exit status. *)
BootstrapOutputs == {"snapshot", "issues", "garbage", "endless"} \X {0, 5}
DecodeBootstrap(output) == output = <<"snapshot", 0>>

LauncherGoes(from, to) ==
  /\ launcher = from /\ ~interrupted
  /\ launcher' = to /\ UNCHANGED interrupted

(* Until there is a trap, a failure or a signal ends the launcher at once. *)
PrepareLaunch ==
  /\ \E output \in BootstrapOutputs :
       LauncherGoes("bootstrap", IF DecodeBootstrap(output) THEN "languages" ELSE "refused")
  /\ UNCHANGED <<disk, helper, backlog, jobs, faults>>

(* The languages of the snapshot; null or a strange name is refused. *)
SnapshotLanguages ==
  /\ \E to \in {"directory", "refused"} : LauncherGoes("languages", to)
  /\ UNCHANGED <<disk, helper, backlog, jobs, faults>>

MakeDirectory ==
  /\ LauncherGoes("directory", "trap")
  /\ files' = {"directory"}
  /\ UNCHANGED <<record, helper, backlog, jobs, faults>>

SetTrap ==
  /\ LauncherGoes("trap", "start")
  /\ UNCHANGED <<disk, helper, backlog, jobs, faults>>

StartHelper ==
  /\ LauncherGoes("start", "capture")
  /\ files' = files \cup {"ready", "log"}
  /\ helper' = [helper EXCEPT !.place = "starting"]
  /\ UNCHANGED <<record, backlog, jobs, faults>>

TakeScreenshot ==
  /\ \/ LauncherGoes("capture", "waiting") /\ files' = files \cup {"capture"} /\ UNCHANGED faults
     \/ LauncherGoes("capture", "cleanup") /\ Fault /\ UNCHANGED files
  /\ UNCHANGED <<record, helper, backlog, jobs>>

(* A line in `ready`, a helper that is gone, or 500 attempts. *)
StopWaiting ==
  /\ LauncherGoes("waiting", "check")
  /\ \/ (record # None \/ helper.place = "ended") /\ UNCHANGED faults
     \/ Fault
  /\ UNCHANGED <<disk, helper, backlog, jobs>>

DecodeStartup(line) == line = "ready"

CheckRecord ==
  /\ LauncherGoes("check", IF DecodeStartup(record) THEN "alive" ELSE "cleanup")
  /\ UNCHANGED <<disk, helper, backlog, jobs, faults>>

OpenOverlay ==
  /\ LauncherGoes("alive",
                  IF "socket" \in files /\ helper.place # "ended" THEN "overlay" ELSE "cleanup")
  /\ UNCHANGED <<disk, helper, backlog, jobs, faults>>

(* Quickshell ends; what it started ends with it. *)
OverlayEnds ==
  /\ launcher = "overlay" /\ launcher' = "cleanup" /\ interrupted' = FALSE
  /\ jobs' = [i \in DOMAIN jobs |->
                IF jobs[i].place = "settled" THEN jobs[i] ELSE [jobs[i] EXCEPT !.place = "gone"]]
  /\ UNCHANGED <<disk, helper, backlog, faults>>

-----------------------------------------------------------------------------
(* Signals, and the end. *)

Untrapped == {"bootstrap", "languages", "directory", "trap"}
CleaningUp == {"cleanup", "wait", "remove", "rmdir"}
Over == {"refused", "killed", "done"}

(* Bash runs its trap when the command in the foreground ends.  In the     *)
(* middle of cleanup() the trap ends the shell.                            *)
Interrupt ==
  /\ launcher \notin Over /\ ~interrupted /\ Fault
  /\ IF launcher \in Untrapped \cup CleaningUp
     THEN launcher' = "killed" /\ UNCHANGED interrupted
     ELSE interrupted' = TRUE /\ UNCHANGED launcher
  /\ UNCHANGED <<disk, helper, backlog, jobs>>

Trapped ==
  /\ interrupted /\ launcher # "overlay"
  /\ launcher \notin CleaningUp
  /\ launcher' = "cleanup" /\ interrupted' = FALSE
  /\ UNCHANGED <<disk, helper, backlog, jobs, faults>>

(* Mutant: the helper is asked to stop, but not by a signal. *)
MutantNoSignal(h) == h

(* Once the helper has its handlers a signal only asks it to stop. *)
Signalled(h) ==
  CASE h.place \in {"none", "ended"} -> h
    [] h.place = "starting" -> [h EXCEPT !.place = "ended"]
    [] OTHER -> [h EXCEPT !.stopping = TRUE]

KillHelper ==
  /\ launcher = "cleanup" /\ launcher' = "wait"
  /\ helper' = Signalled(helper)
  /\ UNCHANGED <<interrupted, disk, backlog, jobs, faults>>

(* Mutant: the files are removed as soon as the helper has been signalled. *)
MutantDoesNotWait ==
  /\ launcher = "wait" /\ launcher' = "remove"
  /\ UNCHANGED <<interrupted, disk, helper, backlog, jobs, faults>>

WaitForHelper ==
  /\ launcher = "wait" /\ helper.place \in {"none", "ended"}
  /\ launcher' = "remove"
  /\ UNCHANGED <<interrupted, disk, helper, backlog, jobs, faults>>

RemoveFiles ==
  /\ launcher = "remove" /\ launcher' = "rmdir"
  /\ files' = files \ {"capture", "socket", "ready", "log"}
  /\ UNCHANGED <<interrupted, record, helper, backlog, jobs, faults>>

RemoveDirectory ==
  /\ launcher = "rmdir" /\ launcher' = "done"
  /\ files' = IF files = {"directory"} THEN {} ELSE files
  /\ UNCHANGED <<interrupted, record, helper, backlog, jobs, faults>>

-----------------------------------------------------------------------------
(* The helper. *)

HelperUnchanged == UNCHANGED <<session, faults>>

InstallHandlers ==
  /\ helper.place = "starting"
  /\ helper' = [helper EXCEPT !.place = "loading"]
  /\ UNCHANGED <<disk, backlog, jobs>> /\ HelperUnchanged

LoadLanguages(loaded) ==
  /\ helper.place = "loading"
  /\ IF loaded = Languages
     THEN /\ helper' = [helper EXCEPT !.place = "binding", !.loaded = loaded]
          /\ UNCHANGED record
     ELSE /\ helper' = [helper EXCEPT !.place = "ended"]
          /\ record' = IF loaded = {} THEN "failed" ELSE "missing"
  /\ UNCHANGED <<files, backlog, jobs>> /\ HelperUnchanged

BindSocket ==
  /\ helper.place = "binding"
  /\ IF "directory" \in files
     THEN /\ files' = files \cup {"socket"}
          /\ record' = "ready"
          /\ helper' = [helper EXCEPT !.place = "listening"]
     ELSE /\ record' = "failed" /\ UNCHANGED files
          /\ helper' = [helper EXCEPT !.place = "ended"]
  /\ UNCHANGED <<backlog, jobs>> /\ HelperUnchanged

Accept ==
  /\ helper.place = "listening" /\ ~helper.stopping /\ backlog # <<>>
  /\ helper' = [helper EXCEPT !.place = "reading", !.client = Head(backlog)]
  /\ backlog' = Tail(backlog)
  /\ UNCHANGED <<disk, jobs>> /\ HelperUnchanged

(* A line, the end of the connection, or two seconds.  The line of a       *)
(* client that has gone since is read like any other.                      *)
ReadRequest ==
  /\ helper.place = "reading" /\ ~helper.stopping
  /\ LET job == jobs[helper.client]
     IN \/ /\ job.sent
           /\ helper' = [helper EXCEPT !.place = "recognizing"]
           /\ UNCHANGED faults
        \/ /\ ~job.sent
           /\ IF job.place \in {"settled", "gone"} THEN UNCHANGED faults ELSE Fault
           /\ helper' = [helper EXCEPT !.place = "answering", !.found = "incomplete"]
  /\ UNCHANGED <<session, disk, backlog, jobs>>

(* Mutant: an image that is set already is not set again. *)
MutantKeepsRectangle(request, region) ==
  IF request \in Crops THEN request ELSE IF region = None THEN Full ELSE region

(* SetImage() forgets the rectangle, SetRectangle() is for a crop only. *)
RegionSet(request, region) == IF request \in Crops THEN request ELSE Full

(* The screenshot may turn out not to be decodable, or recognition fail. *)
Recognize ==
  /\ helper.place = "recognizing"
  /\ LET request == jobs[helper.client].request
     IN \/ /\ request \in Regions
           /\ helper' = [helper EXCEPT !.place = "answering",
                           !.region = RegionSet(request, helper.region),
                           !.found = RegionSet(request, helper.region)]
           /\ UNCHANGED faults
        \/ /\ request \notin Regions
           /\ helper' = [helper EXCEPT !.place = "answering", !.found = "invalid"]
           /\ UNCHANGED faults
        \/ /\ Fault
           /\ helper' = [helper EXCEPT !.place = "answering", !.found = "failed"]
  /\ UNCHANGED <<session, disk, backlog, jobs>>

(* Sent whole, or in part when the client does not read on; then closed. *)
Answer ==
  /\ helper.place = "answering"
  /\ \E wire \in {helper.found, "partial"} :
       /\ IF wire = "partial" THEN Fault ELSE UNCHANGED faults
       /\ jobs' = [jobs EXCEPT ![helper.client].wire = wire]
  /\ helper' = [helper EXCEPT !.place = "listening", !.client = 0, !.found = None]
  /\ UNCHANGED <<session, disk, backlog>>

HelperEnds(left) ==
  /\ helper' = [helper EXCEPT !.place = "ended", !.client = 0, !.found = None]
  /\ jobs' = [i \in DOMAIN jobs |->
                IF i \in Range(backlog) \cup {helper.client} THEN [jobs[i] EXCEPT !.wire = "closed"]
                ELSE jobs[i]]
  /\ backlog' = <<>>
  /\ files' = left
  /\ UNCHANGED <<session, record>>

HelperStops ==
  /\ helper.place \in {"listening", "reading"} /\ helper.stopping
  /\ HelperEnds(files \ {"socket"}) /\ UNCHANGED faults

HelperCrashes ==
  /\ helper.place \notin {"none", "ended"}
  /\ HelperEnds(files) /\ Fault

-----------------------------------------------------------------------------
(* The process of a request: it settles once. *)

JobUnchanged == UNCHANGED <<session, disk, helper>>

Ask(request) ==
  /\ launcher = "overlay" /\ Len(jobs) < MaxJobs
  /\ jobs' = Append(jobs, [request |-> request, sent |-> FALSE, wire |-> None,
                           place |-> IF request \in Invalid THEN "settled" ELSE "started",
                           answer |-> IF request \in Invalid THEN "invalid" ELSE None])
  /\ UNCHANGED <<backlog, faults>> /\ JobUnchanged

Finish(i, answer) == jobs' = [jobs EXCEPT ![i].place = "settled", ![i].answer = answer]

Listening == helper.place \notin {"none", "starting", "loading", "binding", "ended"}

(* A connection is refused when nobody listens or too many wait. *)
Connect(i) ==
  /\ jobs[i].place = "started"
  /\ IF "socket" \in files /\ Listening /\ Len(backlog) <= Backlog
     THEN jobs' = [jobs EXCEPT ![i].place = "connected"] /\ backlog' = Append(backlog, i)
     ELSE Finish(i, "unavailable") /\ UNCHANGED backlog
  /\ UNCHANGED faults /\ JobUnchanged

Send(i) ==
  /\ jobs[i].place = "connected" /\ ~jobs[i].sent
  /\ jobs' = [jobs EXCEPT ![i].sent = TRUE]
  /\ UNCHANGED <<backlog, faults>> /\ JobUnchanged

(* What came before the connection was closed.  A reply may be too large,  *)
(* or not what was expected.                                               *)
Data(i) ==
  /\ jobs[i].place = "connected" /\ jobs[i].wire \notin {None, "partial", "closed"}
  /\ \/ Finish(i, jobs[i].wire) /\ UNCHANGED faults
     \/ Finish(i, "unusable") /\ Fault
  /\ UNCHANGED backlog /\ JobUnchanged

SocketEnds(i) ==
  /\ jobs[i].place = "connected" /\ jobs[i].wire \in {"partial", "closed"}
  /\ Finish(i, "closed")
  /\ UNCHANGED <<backlog, faults>> /\ JobUnchanged

TimesOut(i) ==
  /\ jobs[i].place \in {"started", "connected"} /\ Fault
  /\ Finish(i, "timeout")
  /\ UNCHANGED backlog /\ JobUnchanged

-----------------------------------------------------------------------------
Init ==
  /\ launcher = "bootstrap" /\ interrupted = FALSE
  /\ files = {} /\ record = None
  /\ helper = [place |-> "none", loaded |-> {}, stopping |-> FALSE, client |-> 0,
               region |-> None, found |-> None]
  /\ backlog = <<>> /\ jobs = <<>>
  /\ faults = 0

Launch ==
  \/ PrepareLaunch \/ SnapshotLanguages \/ MakeDirectory \/ SetTrap
  \/ StartHelper \/ TakeScreenshot \/ StopWaiting \/ CheckRecord \/ OpenOverlay

Cleanup == Trapped \/ KillHelper \/ WaitForHelper \/ RemoveFiles \/ RemoveDirectory

Helper ==
  \/ InstallHandlers
  \/ \E loaded \in SUBSET Languages : LoadLanguages(loaded)
  \/ BindSocket \/ Accept \/ ReadRequest \/ Recognize \/ Answer \/ HelperStops

Client(i) == Connect(i) \/ Send(i) \/ Data(i) \/ SocketEnds(i)

Next ==
  \/ Launch \/ Cleanup \/ OverlayEnds \/ Interrupt
  \/ Helper \/ HelperCrashes
  \/ \E request \in Requests : Ask(request)
  \/ \E i \in DOMAIN jobs : Client(i) \/ TimesOut(i)

(* The launcher and the helper go on by themselves: each of their waits    *)
(* has an end.  Nobody need close the overlay, and a client may vanish.    *)
Spec ==
  /\ Init /\ [][Next]_vars
  /\ WF_vars(Launch) /\ WF_vars(Cleanup) /\ WF_vars(Helper)

-----------------------------------------------------------------------------
(* Properties. *)

(* A request that is answered with words is answered with those of its own *)
(* region, though one recogniser serves all of them in turn and requests   *)
(* time out, vanish and are refused in between.                            *)
AnswerIsOwn ==
  \A i \in DOMAIN jobs : jobs[i].answer \in Regions => jobs[i].answer = jobs[i].request

(* When the launcher is done nothing is left: not the helper, not the      *)
(* screenshot, not its socket, wherever it was interrupted or failed.      *)
CleanedUp == launcher = "done" => files = {} /\ helper.place \in {"none", "ended"}

(* The launcher does get there: once it cleans up, or has been interrupted *)
(* before the overlay opened, it is done, or a second signal ended it.     *)
CleanupEnds ==
  (launcher \in CleaningUp \/ (interrupted /\ launcher # "overlay")) ~> launcher \in Over
=============================================================================
