---------------------------- MODULE OcrSessionProofs ----------------------------
(* Theorems about OcrSession, for any regions, languages and bounds: a     *)
(* request is answered with its own words, and nothing is left behind.     *)
EXTENDS OcrSession, SequenceTheorems, TLAPS

LauncherPlaces ==
  {"bootstrap", "languages", "directory", "trap", "start", "capture", "waiting", "check",
   "alive", "overlay", "cleanup", "wait", "remove", "rmdir", "refused", "killed", "done"}
HelperPlaces ==
  {"none", "starting", "loading", "binding", "listening", "reading", "recognizing",
   "answering", "ended"}
Serving == {"reading", "recognizing", "answering"}
Found == Regions \cup {"invalid", "incomplete", "failed"}

HelperRecord ==
  [place : HelperPlaces, loaded : SUBSET Languages, stopping : BOOLEAN, client : Nat,
   region : Regions \cup {None}, found : Found \cup {None}]
Job ==
  [request : Requests, sent : BOOLEAN, wire : Found \cup {None, "partial", "closed"},
   place : {"started", "connected", "settled", "gone"},
   answer : Found \cup {None, "unusable", "closed", "timeout", "unavailable"}]

TypeOK ==
  /\ launcher \in LauncherPlaces /\ interrupted \in BOOLEAN
  /\ files \in SUBSET {"directory", "ready", "log", "capture", "socket"}
  /\ record \in {None, "failed", "missing", "ready"}
  /\ helper \in HelperRecord
  /\ jobs \in Seq(Job)
  /\ backlog \in Seq(DOMAIN jobs)
  /\ helper.place \in Serving => helper.client \in DOMAIN jobs
  /\ faults \in 0..MaxFaults

(* The helper is not there, and what is left goes step by step. *)
SessionInv ==
  /\ launcher \in {"remove", "rmdir", "done"} => helper.place \in {"none", "ended"}
  /\ launcher = "rmdir" => files \subseteq {"directory"}
  /\ launcher = "done" => files = {}

(* Whatever has been recognized is on its way to the request it is for. *)
Own(job) ==
  /\ job.wire \in Regions => job.wire = job.request
  /\ job.answer \in Regions => job.answer = job.request

WordsInv ==
  /\ \A i \in DOMAIN jobs : Own(jobs[i])
  /\ helper.place = "answering" /\ helper.found \in Regions =>
       helper.found = jobs[helper.client].request

OcrInv == TypeOK /\ SessionInv /\ WordsInv

-----------------------------------------------------------------------------
LEMMA JobFields ==
  ASSUME NEW job \in Job
  PROVE  /\ job.request \in Requests /\ job.sent \in BOOLEAN
         /\ job.wire \in Found \cup {None, "partial", "closed"}
         /\ job.place \in {"started", "connected", "settled", "gone"}
         /\ job.answer \in Found \cup {None, "unusable", "closed", "timeout", "unavailable"}
BY DEF Job

LEMMA HelperFields ==
  ASSUME NEW h \in HelperRecord
  PROVE  /\ h.place \in HelperPlaces /\ h.loaded \in SUBSET Languages
         /\ h.stopping \in BOOLEAN /\ h.client \in Nat
         /\ h.region \in Regions \cup {None} /\ h.found \in Found \cup {None}
BY DEF HelperRecord

LEMMA JobsAre ==
  ASSUME TypeOK
  PROVE  /\ DOMAIN jobs = 1..Len(jobs) /\ Len(jobs) \in Nat
         /\ \A i \in DOMAIN jobs : jobs[i] \in Job
BY ElementOfSeq, LenProperties DEF TypeOK

(* A step of the launcher alone. *)
LEMMA LauncherInv ==
  ASSUME OcrInv, launcher' \in LauncherPlaces, interrupted' \in BOOLEAN,
         faults' \in 0..MaxFaults, UNCHANGED <<disk, helper, backlog, jobs>>,
         launcher' \notin {"remove", "rmdir", "done"}
  PROVE  OcrInv'
BY DEF OcrInv, TypeOK, SessionInv, WordsInv, disk, Own

LEMMA FaultType ==
  ASSUME OcrInv, Fault \/ UNCHANGED faults
  PROVE  faults' \in 0..MaxFaults
BY OcrAssumption DEF OcrInv, TypeOK, Fault

LEMMA LaunchInv ==
  ASSUME OcrInv, Launch
  PROVE  OcrInv'
<1> USE DEF LauncherGoes
<1>1. faults \in 0..MaxFaults /\ launcher \in LauncherPlaces /\ interrupted \in BOOLEAN
  BY DEF OcrInv, TypeOK
<1>2. CASE PrepareLaunch
  BY <1>1, <1>2, LauncherInv DEF PrepareLaunch, LauncherPlaces
<1>3. CASE SnapshotLanguages
  BY <1>1, <1>3, LauncherInv DEF SnapshotLanguages, LauncherPlaces
<1>4. CASE SetTrap
  BY <1>1, <1>4, LauncherInv DEF SetTrap, LauncherPlaces
<1>5. CASE StopWaiting
  BY <1>1, <1>5, LauncherInv, FaultType DEF StopWaiting, LauncherPlaces
<1>6. CASE CheckRecord
  BY <1>1, <1>6, LauncherInv DEF CheckRecord, LauncherPlaces
<1>7. CASE OpenOverlay
  BY <1>1, <1>7, LauncherInv DEF OpenOverlay, LauncherPlaces
<1>8. CASE MakeDirectory
  BY <1>8 DEF MakeDirectory, OcrInv, TypeOK, SessionInv, WordsInv, Own, LauncherPlaces
<1>9. CASE StartHelper
  <2>1. /\ helper' \in HelperRecord /\ helper'.place = "starting"
        /\ launcher' = "capture" /\ interrupted' = FALSE
        /\ files' = files \cup {"ready", "log"}
        /\ UNCHANGED <<record, backlog, jobs, faults>>
    BY <1>9 DEF StartHelper, OcrInv, TypeOK, HelperRecord, HelperPlaces
  <2> QED BY <2>1 DEF OcrInv, TypeOK, SessionInv, WordsInv, Own, LauncherPlaces, Serving
<1>10. CASE TakeScreenshot
  <2>1. faults' \in 0..MaxFaults
    BY <1>10, FaultType DEF TakeScreenshot
  <2> QED BY <1>10, <2>1 DEF TakeScreenshot, OcrInv, TypeOK, SessionInv, WordsInv, Own, LauncherPlaces
<1> QED
  BY <1>2, <1>3, <1>4, <1>5, <1>6, <1>7, <1>8, <1>9, <1>10 DEF Launch

LEMMA CleanupInv ==
  ASSUME OcrInv, Cleanup \/ Interrupt
  PROVE  OcrInv'
<1>1. faults \in 0..MaxFaults /\ launcher \in LauncherPlaces /\ interrupted \in BOOLEAN
  BY DEF OcrInv, TypeOK
<1>2. CASE Trapped
  BY <1>1, <1>2, LauncherInv DEF Trapped, LauncherPlaces
<1>3. CASE Interrupt
  <2>1. faults' \in 0..MaxFaults
    BY <1>3, FaultType DEF Interrupt
  <2>2. /\ launcher' \in {launcher, "killed"} /\ interrupted' \in BOOLEAN
        /\ launcher' \notin {"remove", "rmdir", "done"}
    BY <1>1, <1>3 DEF Interrupt, CleaningUp, Over
  <2> QED BY <1>1, <1>3, <2>1, <2>2, LauncherInv DEF Interrupt, LauncherPlaces
<1>4. CASE KillHelper
  <2>1. helper' \in HelperRecord /\ helper'.place \in {helper.place, "ended"}
        /\ helper'.client = helper.client /\ helper'.found = helper.found
    BY <1>4 DEF KillHelper, Signalled, OcrInv, TypeOK, HelperRecord, HelperPlaces
  <2> QED BY <1>4, <2>1 DEF KillHelper, OcrInv, TypeOK, SessionInv, WordsInv, Own,
             LauncherPlaces, Serving, disk
<1>5. CASE WaitForHelper
  BY <1>5 DEF WaitForHelper, OcrInv, TypeOK, SessionInv, WordsInv, Own, LauncherPlaces, disk
<1>6. CASE RemoveFiles
  BY <1>6 DEF RemoveFiles, OcrInv, TypeOK, SessionInv, WordsInv, Own, LauncherPlaces
<1>7. CASE RemoveDirectory
  <2>1. files = {} \/ files = {"directory"}
    BY <1>7 DEF RemoveDirectory, OcrInv, SessionInv
  <2>2. files' = {}
    BY <1>7, <2>1 DEF RemoveDirectory
  <2> QED BY <1>7, <2>2 DEF RemoveDirectory, OcrInv, TypeOK, SessionInv, WordsInv, Own,
             LauncherPlaces
<1> QED BY <1>2, <1>3, <1>4, <1>5, <1>6, <1>7 DEF Cleanup

(* The helper works while the launcher has not waited for its end. *)
LEMMA AtWork ==
  ASSUME OcrInv, helper.place \notin {"none", "ended"}
  PROVE  launcher \notin {"remove", "rmdir", "done"}
BY DEF OcrInv, SessionInv

(* What the helper does to itself and the files. *)
LEMMA HelperGoes ==
  ASSUME OcrInv, helper.place \notin {"none", "ended"},
         helper' \in HelperRecord,
         helper'.place \in Serving => helper'.client \in DOMAIN jobs,
         helper'.place = "answering" /\ helper'.found \in Regions =>
           helper'.found = jobs[helper'.client].request,
         files' \in SUBSET {"directory", "ready", "log", "capture", "socket"},
         record' \in {None, "failed", "missing", "ready"},
         backlog' \in Seq(DOMAIN jobs), faults' \in 0..MaxFaults,
         UNCHANGED <<session, jobs>>
  PROVE  OcrInv'
BY AtWork DEF OcrInv, TypeOK, SessionInv, WordsInv, Own, session

(* The helper ends: whoever waited finds the connection closed. *)
LEMMA EndsInv ==
  ASSUME OcrInv, helper.place \notin {"none", "ended"}, NEW left \in SUBSET files,
         HelperEnds(left), faults' \in 0..MaxFaults
  PROVE  OcrInv'
<1>1. /\ DOMAIN jobs = 1..Len(jobs) /\ Len(jobs) \in Nat
      /\ \A i \in DOMAIN jobs : jobs[i] \in Job /\ Own(jobs[i])
  BY JobsAre DEF OcrInv, WordsInv
<1>2. DOMAIN jobs' = DOMAIN jobs
  BY DEF HelperEnds
<1>3. \A i \in DOMAIN jobs :
        jobs'[i] \in Job /\ Own(jobs'[i]) /\ jobs'[i].request = jobs[i].request
  BY <1>1, RegionsAssumption DEF HelperEnds, Job, Own
<1>4. jobs' \in Seq(Job)
  BY <1>1, <1>2, <1>3, IsASeq DEF HelperEnds
<1>5. helper' \in HelperRecord /\ helper'.place = "ended"
  BY DEF HelperEnds, OcrInv, TypeOK, HelperRecord, HelperPlaces
<1>6. backlog' \in Seq(DOMAIN jobs')
  BY DEF HelperEnds
<1> QED BY <1>2, <1>3, <1>4, <1>5, <1>6, AtWork
        DEF HelperEnds, OcrInv, TypeOK, SessionInv, WordsInv, session, Serving

LEMMA HelperInv ==
  ASSUME OcrInv, Helper
  PROVE  OcrInv'
<1>0. /\ helper \in HelperRecord /\ jobs \in Seq(Job) /\ backlog \in Seq(DOMAIN jobs)
      /\ files \in SUBSET {"directory", "ready", "log", "capture", "socket"}
      /\ record \in {None, "failed", "missing", "ready"} /\ faults \in 0..MaxFaults
      /\ helper.place \in Serving => helper.client \in DOMAIN jobs
  BY DEF OcrInv, TypeOK
<1> USE DEF HelperUnchanged
<1>1. CASE InstallHandlers
  <2>1. helper' \in HelperRecord /\ helper'.place = "loading"
    BY <1>0, <1>1 DEF InstallHandlers, HelperRecord, HelperPlaces
  <2> QED BY <1>0, <1>1, <2>1, HelperGoes DEF InstallHandlers, Serving, disk
<1>2. ASSUME NEW loaded \in SUBSET Languages, LoadLanguages(loaded)
      PROVE  OcrInv'
  <2>1. helper' \in HelperRecord /\ helper'.place \in {"binding", "ended"}
    BY <1>0, <1>2 DEF LoadLanguages, HelperRecord, HelperPlaces
  <2> QED BY <1>0, <1>2, <2>1, HelperGoes DEF LoadLanguages, Serving
<1>3. CASE BindSocket
  <2>1. helper' \in HelperRecord /\ helper'.place \in {"listening", "ended"}
    BY <1>0, <1>3 DEF BindSocket, HelperRecord, HelperPlaces
  <2> QED BY <1>0, <1>3, <2>1, HelperGoes DEF BindSocket, Serving
<1>4. CASE Accept
  <2>1. /\ Head(backlog) \in DOMAIN jobs /\ Tail(backlog) \in Seq(DOMAIN jobs)
        /\ DOMAIN jobs \subseteq Nat
    BY <1>0, <1>4, HeadTailProperties, LenProperties DEF Accept
  <2>2. /\ helper' \in HelperRecord /\ helper'.place = "reading"
        /\ helper'.client = Head(backlog)
    BY <1>0, <1>4, <2>1 DEF Accept, HelperRecord, HelperPlaces
  <2> QED BY <1>0, <1>4, <2>1, <2>2, HelperGoes DEF Accept, disk
<1>5. CASE ReadRequest
  <2>1. faults' \in 0..MaxFaults
    BY <1>5, FaultType DEF ReadRequest
  <2>2. /\ helper' \in HelperRecord /\ helper'.client = helper.client
        /\ \/ helper'.place = "recognizing"
           \/ helper'.place = "answering" /\ helper'.found = "incomplete"
    BY <1>0, <1>5 DEF ReadRequest, HelperRecord, HelperPlaces, Found
  <2> QED BY <1>0, <1>5, <2>1, <2>2, HelperGoes, RegionsAssumption DEF ReadRequest, disk, Serving
<1>6. CASE Recognize
  <2>1. faults' \in 0..MaxFaults
    BY <1>6, FaultType DEF Recognize
  <2> DEFINE request == jobs[helper.client].request
  <2>2. request \in Regions => RegionSet(request, helper.region) = request
    BY DEF RegionSet, Regions
  <2>3. RegionSet(request, helper.region) \in Regions
    BY DEF RegionSet, Regions
  <2> HIDE DEF request
  <2>4. /\ helper' \in HelperRecord /\ helper'.client = helper.client
        /\ helper'.place = "answering"
        /\ helper'.found \in {"invalid", "failed"} \/ helper'.found = request
    BY <1>0, <1>6, <2>2, <2>3 DEF Recognize, HelperRecord, HelperPlaces, Found, request
  <2> QED BY <1>0, <1>6, <2>1, <2>4, HelperGoes, RegionsAssumption DEF Recognize, disk, Serving, request
<1>7. CASE Answer
  <2>1. PICK wire \in {helper.found, "partial"} :
          /\ jobs' = [jobs EXCEPT ![helper.client].wire = wire]
          /\ Fault \/ UNCHANGED faults
    BY <1>7 DEF Answer
  <2>2. PICK c : c = helper.client
    OBVIOUS
  <2>3. /\ c \in DOMAIN jobs /\ jobs[c] \in Job /\ helper.place = "answering"
        /\ DOMAIN jobs = 1..Len(jobs)
    BY <1>0, <1>7, <2>2, JobsAre DEF Answer, Serving, OcrInv
  <2>4. PICK new : new = [jobs[c] EXCEPT !.wire = wire]
    OBVIOUS
  <2>5. jobs' = [jobs EXCEPT ![c] = new]
    BY <2>1, <2>2, <2>4
  <2>6. /\ new \in Job /\ new.request = jobs[c].request
        /\ new.answer = jobs[c].answer /\ new.wire = wire
    BY <1>0, <2>1, <2>3, <2>4 DEF Job, HelperRecord
  <2>7. jobs' \in Seq(Job) /\ DOMAIN jobs' = DOMAIN jobs
    BY <1>0, <2>3, <2>5, <2>6, ExceptSeq
  <2>8. Own(new)
    BY <2>1, <2>2, <2>3, <2>6, RegionsAssumption DEF Own, OcrInv, WordsInv
  <2>9. \A i \in DOMAIN jobs' : Own(jobs'[i])
    BY <2>3, <2>5, <2>7, <2>8 DEF OcrInv, WordsInv
  <2>10. helper' \in HelperRecord /\ helper'.place = "listening"
    BY <1>0, <1>7 DEF Answer, HelperRecord, HelperPlaces
  <2>11. faults' \in 0..MaxFaults
    BY <2>1, FaultType
  <2> QED BY <1>7, <2>3, <2>7, <2>9, <2>10, <2>11, AtWork
          DEF Answer, OcrInv, TypeOK, SessionInv, WordsInv, session, disk, Serving, Own
<1>8. CASE HelperStops
  BY <1>8, FaultType, EndsInv DEF HelperStops
<1> QED
  BY <1>1, <1>2, <1>3, <1>4, <1>5, <1>6, <1>7, <1>8 DEF Helper

-----------------------------------------------------------------------------
(* One job is changed, and asks for the same. *)
LEMMA JobChanges ==
  ASSUME OcrInv, NEW i \in DOMAIN jobs, NEW new \in Job, Own(new),
         new.request = jobs[i].request, jobs' = [jobs EXCEPT ![i] = new],
         backlog' \in Seq(DOMAIN jobs), faults' \in 0..MaxFaults,
         UNCHANGED <<session, disk, helper>>
  PROVE  OcrInv'
<1>1. DOMAIN jobs = 1..Len(jobs) /\ jobs \in Seq(Job)
  BY JobsAre DEF OcrInv, TypeOK
<1>2. jobs' \in Seq(Job) /\ DOMAIN jobs' = DOMAIN jobs
  BY <1>1, ExceptSeq
<1>3. \A j \in DOMAIN jobs' : Own(jobs'[j]) /\ jobs'[j].request = jobs[j].request
  BY <1>1, <1>2 DEF OcrInv, WordsInv
<1> QED BY <1>2, <1>3 DEF OcrInv, TypeOK, SessionInv, WordsInv, session, disk

LEMMA FinishInv ==
  ASSUME OcrInv, NEW i \in DOMAIN jobs, NEW answer, Finish(i, answer),
         \/ answer = jobs[i].wire
         \/ answer \in {"unusable", "closed", "timeout", "unavailable"},
         answer # "partial",
         UNCHANGED backlog, Fault \/ UNCHANGED faults, UNCHANGED <<session, disk, helper>>
  PROVE  OcrInv'
<1>1. jobs[i] \in Job /\ Own(jobs[i]) /\ backlog \in Seq(DOMAIN jobs)
  BY JobsAre DEF OcrInv, TypeOK, WordsInv
<1>2. PICK new : new = [jobs[i] EXCEPT !.place = "settled", !.answer = answer]
  OBVIOUS
<1>3. new \in Job /\ new.request = jobs[i].request /\ new.answer = answer
      /\ new.wire = jobs[i].wire
  BY <1>1, <1>2 DEF Job
<1>4. Own(new)
  BY <1>1, <1>3, RegionsAssumption DEF Own
<1>5. jobs' = [jobs EXCEPT ![i] = new]
  BY <1>2 DEF Finish
<1> QED BY <1>1, <1>3, <1>4, <1>5, JobChanges, FaultType

LEMMA ClientInv ==
  ASSUME OcrInv, NEW i \in DOMAIN jobs, Client(i) \/ TimesOut(i)
  PROVE  OcrInv'
<1>0. /\ jobs[i] \in Job /\ Own(jobs[i]) /\ backlog \in Seq(DOMAIN jobs)
      /\ faults \in 0..MaxFaults
  BY JobsAre DEF OcrInv, TypeOK, WordsInv
<1> USE DEF JobUnchanged
<1>1. CASE Connect(i)
  <2>1. CASE /\ jobs' = [jobs EXCEPT ![i].place = "connected"]
             /\ backlog' = Append(backlog, i)
    <3>1. PICK new : new = [jobs[i] EXCEPT !.place = "connected"]
      OBVIOUS
    <3>2. new \in Job /\ Own(new) /\ new.request = jobs[i].request
      BY <1>0, <3>1 DEF Job, Own
    <3>3. jobs' = [jobs EXCEPT ![i] = new]
      BY <2>1, <3>1
    <3>4. backlog' \in Seq(DOMAIN jobs)
      BY <1>0, <2>1, AppendProperties
    <3> QED BY <1>0, <1>1, <3>2, <3>3, <3>4, JobChanges DEF Connect
  <2>2. CASE Finish(i, "unavailable") /\ UNCHANGED backlog
    BY <1>1, <2>2, FinishInv DEF Connect
  <2> QED BY <1>1, <2>1, <2>2 DEF Connect
<1>2. CASE Send(i)
  <2>1. PICK new : new = [jobs[i] EXCEPT !.sent = TRUE]
    OBVIOUS
  <2>2. new \in Job /\ Own(new) /\ new.request = jobs[i].request
    BY <1>0, <2>1 DEF Job, Own
  <2>3. jobs' = [jobs EXCEPT ![i] = new]
    BY <1>2, <2>1 DEF Send
  <2> QED BY <1>0, <1>2, <2>2, <2>3, JobChanges DEF Send
<1>3. CASE Data(i)
  BY <1>3, FinishInv DEF Data
<1>4. CASE SocketEnds(i)
  BY <1>4, FinishInv DEF SocketEnds
<1>5. CASE TimesOut(i)
  BY <1>5, FinishInv DEF TimesOut
<1> QED BY <1>1, <1>2, <1>3, <1>4, <1>5 DEF Client

LEMMA AskInv ==
  ASSUME OcrInv, NEW request \in Requests, Ask(request)
  PROVE  OcrInv'
<1>1. PICK new : new = [request |-> request, sent |-> FALSE, wire |-> None,
                        place |-> IF request \in Invalid THEN "settled" ELSE "started",
                        answer |-> IF request \in Invalid THEN "invalid" ELSE None]
  OBVIOUS
<1>2. new \in Job /\ new.wire = None /\ new.answer \in {"invalid", None}
  BY <1>1 DEF Job, Found
<1>3. Own(new)
  BY <1>2, RegionsAssumption DEF Own
<1>4. jobs' = Append(jobs, new) /\ jobs \in Seq(Job) /\ Len(jobs) \in Nat
      /\ DOMAIN jobs = 1..Len(jobs) /\ backlog \in Seq(DOMAIN jobs)
  BY <1>1, JobsAre DEF Ask, OcrInv, TypeOK
<1>5. /\ jobs' \in Seq(Job) /\ DOMAIN jobs' = 1..Len(jobs) + 1
      /\ jobs'[Len(jobs) + 1] = new /\ \A i \in DOMAIN jobs : jobs'[i] = jobs[i]
  BY <1>2, <1>4, AppendProperties
<1>6. backlog \in Seq(DOMAIN jobs') /\ DOMAIN jobs \subseteq DOMAIN jobs'
  <2>1. DOMAIN jobs \subseteq DOMAIN jobs'
    BY <1>4, <1>5
  <2> QED BY <1>4, <2>1
<1>7. \A i \in DOMAIN jobs' : Own(jobs'[i])
  BY <1>3, <1>4, <1>5 DEF OcrInv, WordsInv
<1>8. helper.place = "answering" => helper.client \in DOMAIN jobs
  BY DEF OcrInv, TypeOK, Serving
<1> QED BY <1>5, <1>6, <1>7, <1>8
        DEF Ask, JobUnchanged, OcrInv, TypeOK, SessionInv, WordsInv, session, disk

LEMMA OverlayEndsInv ==
  ASSUME OcrInv, OverlayEnds
  PROVE  OcrInv'
<1>1. /\ DOMAIN jobs = 1..Len(jobs) /\ Len(jobs) \in Nat
      /\ \A i \in DOMAIN jobs : jobs[i] \in Job /\ Own(jobs[i])
  BY JobsAre DEF OcrInv, WordsInv
<1>2. DOMAIN jobs' = DOMAIN jobs
  BY DEF OverlayEnds
<1>3. \A i \in DOMAIN jobs :
        jobs'[i] \in Job /\ Own(jobs'[i]) /\ jobs'[i].request = jobs[i].request
  BY <1>1 DEF OverlayEnds, Job, Own
<1>4. jobs' \in Seq(Job)
  BY <1>1, <1>2, <1>3, IsASeq DEF OverlayEnds
<1> QED BY <1>2, <1>3, <1>4
        DEF OverlayEnds, OcrInv, TypeOK, SessionInv, WordsInv, disk, LauncherPlaces, Serving

LEMMA OcrInit == Init => OcrInv
<1> SUFFICES ASSUME Init PROVE OcrInv
  OBVIOUS
<1>1. helper \in HelperRecord
  BY DEF Init, HelperRecord, HelperPlaces
<1>2. jobs \in Seq(Job) /\ backlog \in Seq(DOMAIN jobs) /\ DOMAIN jobs = {}
  BY DEF Init
<1>3. 0 \in 0..MaxFaults
  BY OcrAssumption
<1>4. TypeOK
  BY <1>1, <1>2, <1>3 DEF Init, TypeOK, LauncherPlaces, Serving
<1>5. SessionInv /\ WordsInv
  BY <1>2 DEF Init, SessionInv, WordsInv
<1> QED BY <1>4, <1>5 DEF OcrInv

LEMMA OcrNext == OcrInv /\ [Next]_vars => OcrInv'
<1> SUFFICES ASSUME OcrInv, [Next]_vars PROVE OcrInv'
  OBVIOUS
<1>1. CASE HelperCrashes
  BY <1>1, EndsInv, FaultType DEF HelperCrashes
<1>2. CASE UNCHANGED vars
  BY <1>2 DEF vars, OcrInv, TypeOK, SessionInv, WordsInv
<1> QED
  BY <1>1, <1>2, LaunchInv, CleanupInv, OverlayEndsInv, HelperInv, AskInv, ClientInv DEF Next

LEMMA OcrInvariant == Spec => []OcrInv
BY OcrInit, OcrNext, PTL DEF Spec

(* The places of the launcher and the helper, the files and the requests   *)
(* are what the code gives them, and no more faults happen than are        *)
(* allowed.                                                                *)
THEOREM OcrTypeCorrect == Spec => []TypeOK
<1>1. OcrInv => TypeOK
  BY DEF OcrInv
<1> QED BY <1>1, OcrInvariant, PTL

(* One recogniser serves every request in turn, yet a request that is      *)
(* answered with words has those of its own region: what it finds is       *)
(* written to the connection it was read from, and each connection is of   *)
(* one request.                                                            *)
THEOREM AnswersAreOwn == Spec => []AnswerIsOwn
<1>1. OcrInv => AnswerIsOwn
  BY DEF OcrInv, WordsInv, Own, AnswerIsOwn
<1> QED BY <1>1, OcrInvariant, PTL

(* A launcher that is done has left nothing, wherever it was interrupted:  *)
(* the files are only removed when the helper, which makes one of them,    *)
(* has ended.                                                              *)
THEOREM NothingIsLeft == Spec => []CleanedUp
<1>1. OcrInv => CleanedUp
  BY DEF OcrInv, SessionInv, CleanedUp
<1> QED BY <1>1, OcrInvariant, PTL
=============================================================================
