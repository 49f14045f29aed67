------------------------------ MODULE Uploader ------------------------------
(***************************************************************************)
(* The upload of one file (Library/dwcloud/dwcloud/DWCloudUploader.m): a   *)
(* request that opens it, one request for each part in an ASINetworkQueue, *)
(* and a request that closes it.                                           *)
(*                                                                         *)
(* Requests run on the request thread of ASIHTTPRequest and report on the  *)
(* main thread, in the order in which they are complete.  The queue keeps  *)
(* unretained pointers to the uploader.                                    *)
(***************************************************************************)
EXTENDS Naturals, Sequences

CONSTANTS
    MaxParts,   \* bound on the parts of a file
    None

Opening == <<"opening", 0>>
Part(p) == <<"part", p>>
Closing == <<"closing", 0>>

Requests == {Opening, Closing} \cup {Part(p) : p \in 0..(MaxParts - 1)}

ASSUME UploaderAssumption == MaxParts \in Nat /\ None \notin Requests

VARIABLES
    parts,          \* how many parts the file has
    callbacks,      \* the client has set uploadFail and uploadSuccess
    held,           \* the client refers to the uploader
    life,           \* of the uploader: alive, dying or dead
    request,        \* its request: None, Opening or Closing
    blocks,         \* the requests whose blocks are set
    partCount,      \* "count" in the user info of the queue
    requestsCount,  \* of the queue
    sent, total,    \* bytesUploadedSoFar and totalBytesToUpload, in parts
    state,          \* of each request: none, waiting, running or complete
    cancelling,     \* requests whose cancelOnRequestThread is under way
    main,           \* what requests have for the main thread, in order
    stored,         \* the parts the server has
    outcome,        \* the callback the client has had
    undefined,      \* a block or an object was used that is no more
    malformed,      \* the server's answer to the opening named no zone
    failures,       \* parts that have reported a failure
    dropped,        \* when the client gave an upload up
    wild            \* a progress was shown that is no fraction

client == <<callbacks, held, life, dropped>>
queue == <<partCount, requestsCount, sent, total>>
network == <<state, cancelling, stored>>
result == <<outcome, undefined, failures, wild>>
vars == <<parts, client, request, blocks, queue, network, main, result, malformed>>

Parts == 0..(parts - 1)

Init ==
    /\ parts \in 0..MaxParts
    /\ callbacks \in BOOLEAN
    /\ held = TRUE /\ life = "alive" /\ dropped = "no"
    /\ request = None /\ blocks = {}
    /\ partCount = 0 /\ requestsCount = 0 /\ sent = 0 /\ total = 0
    /\ state = [r \in Requests |-> "none"]
    /\ cancelling = {} /\ main = <<>> /\ stored = {}
    /\ outcome = "none" /\ undefined = FALSE /\ malformed = FALSE
    /\ failures = {} /\ wild = FALSE

Unfinished == {r \in Requests : state[r] \in {"waiting", "running"}}

UnfinishedParts == Unfinished \ {Opening, Closing}

-----------------------------------------------------------------------------
(* go, uplodeWithFileName: and uploadInit. *)
Go ==
    /\ held /\ request = None /\ ~undefined
    /\ request' = Opening
    /\ blocks' = {Opening}
    /\ state' = [state EXCEPT ![Opening] = "waiting"]
    /\ UNCHANGED <<parts, client, queue, cancelling, stored, main, result, malformed>>

(* Mutant of BlocksAfterDealloc: only the request is cancelled. *)
BlocksAfterDeallocKept == blocks

BlocksAfterDealloc == {}

(* -dealloc: clearDelegatesAndCancel of the request, cancelAllOperations of the
   queue.  The queue lives on as long as its requests. *)
Dealloc ==
    /\ life' = "dead"
    /\ blocks' = BlocksAfterDealloc
    /\ cancelling' = cancelling \cup (UnfinishedParts \cup (Unfinished \cap {request}))
    /\ sent' = 0 /\ total' = 0

(* The client lets go of the uploader.  The completion block of the closing
   request refers to it, and it to the request: from then on it stays.  A
   deallocation on the main thread is not interrupted by what runs there. *)
Drop(thread) ==
    /\ held /\ ~undefined
    /\ held' = FALSE
    /\ UNCHANGED <<parts, callbacks, request, partCount, requestsCount, state, stored, main,
                   result, malformed>>
    /\ IF request = Closing
       THEN UNCHANGED <<life, dropped, blocks, cancelling, sent, total>>
       ELSE /\ dropped' = IF thread # "main" THEN "elsewhere"
                          ELSE IF requestsCount > 0 THEN "parts" ELSE "early"
            /\ IF thread = "main" THEN Dealloc
               ELSE life' = "dying" /\ UNCHANGED <<blocks, cancelling, sent, total>>

EndDealloc ==
    /\ life = "dying" /\ ~undefined
    /\ Dealloc
    /\ UNCHANGED <<parts, callbacks, held, dropped, request, partCount, requestsCount, state,
                   stored, main, result, malformed>>

-----------------------------------------------------------------------------
(* A part depends on the one before it. *)
MayStart(r) == r[1] = "part" /\ r[2] > 0 => state[Part(r[2] - 1)] = "complete"

(* An operation queue starts a request. *)
Start(r) ==
    /\ state[r] = "waiting" /\ MayStart(r) /\ ~undefined
    /\ state' = [state EXCEPT ![r] = "running"]
    /\ UNCHANGED <<parts, client, request, blocks, queue, cancelling, stored, main, result,
                   malformed>>

Message(what, r) == [what |-> what, req |-> r]

(* handleStreamComplete and requestFinished, or failWithError:. *)
Complete(r, messages) ==
    /\ state[r] = "running" /\ ~undefined
    /\ state' = [state EXCEPT ![r] = "complete"]
    /\ main' = main \o messages
    /\ UNCHANGED <<parts, client, request, blocks, queue, cancelling, result>>

(* The server names an upload and a zone, or answers something else. *)
OpeningEnds ==
    \E what \in {"opened", "no dictionary", "no zone", "failed"} :
        /\ Complete(Opening, <<Message(what, Opening)>>)
        /\ malformed' = (malformed \/ what = "no zone")
        /\ UNCHANGED stored

(* A part arrives, is refused with a status nobody looks at, or fails, and then
   may have arrived or not.  A request that ends normally first tells the queue
   its progress, unless it was refused before it had sent anything. *)
PartEnds(p) ==
    /\ stored' \in {stored, stored \cup {p}}
    /\ \/ Complete(Part(p), <<Message("sent", Part(p)), Message("finished", Part(p))>>)
       \/ stored' = stored /\ Complete(Part(p), <<Message("finished", Part(p))>>)
       \/ Complete(Part(p), <<Message("failed", Part(p))>>)
    /\ UNCHANGED malformed

(* The server accepts a file that has as many parts as the request says. *)
ClosingEnds ==
    /\ \E what \in {"accepted", "refused", "failed"} :
           /\ what = "accepted" => stored = 0..(partCount - 1)
           /\ Complete(Closing, <<Message(what, Closing)>>)
    /\ UNCHANGED <<stored, malformed>>

CancelOnRequestThread(r) ==
    /\ r \in cancelling /\ ~undefined
    /\ cancelling' = cancelling \ {r}
    /\ IF r \in Unfinished
       THEN /\ state' = [state EXCEPT ![r] = "complete"]
            /\ main' = Append(main, Message("failed", r))
       ELSE UNCHANGED <<state, main>>
    /\ UNCHANGED <<parts, client, request, blocks, queue, stored, result, malformed>>

-----------------------------------------------------------------------------
(* The main thread takes the next message of a kind. *)
Take(whats, kind) ==
    /\ main # <<>> /\ ~undefined
    /\ Head(main).what \in whats /\ Head(main).req[1] = kind
    /\ main' = Tail(main)

(* A callback of the client. *)
Call(what) == outcome' = what /\ UNCHANGED undefined

Breaks == undefined' = TRUE /\ UNCHANGED outcome

Silent == UNCHANGED <<outcome, undefined>>

(* Mutant of FailOpening: its block looks whether there is a callback, and
   there is none. *)
FailOpeningSilent == Silent

(* weakSelf.uploadFail(...), which is not compared with nil. *)
FailOpening == IF callbacks /\ life = "alive" THEN Call("fail") ELSE Breaks

(* The blocks of uploadInit, if the request still has them. *)
OpeningFails ==
    /\ Take({"no dictionary", "failed"}, "opening")
    /\ IF Opening \notin blocks THEN Silent
       ELSE FailOpening
    /\ UNCHANGED <<parts, client, request, blocks, queue, network, failures, wild, malformed>>

(* Mutant of PartCount: the index of the last part. *)
PartCountByIndex == IF parts = 0 THEN 0 ELSE parts - 1

PartCount == parts

TotalAdded == total + parts

(* uploadWithUploadID:zone: puts the parts into the queue, each depending on the
   one before, and starts it. *)
QueueParts ==
    /\ state' = [r \in Requests |-> IF r \in {Part(p) : p \in Parts} THEN "waiting" ELSE state[r]]
    /\ requestsCount' = requestsCount + parts
    /\ total' = TotalAdded
    /\ partCount' = PartCount
    /\ UNCHANGED sent

(* The completion block of uploadInit.  Without a zone the URL of the first part
   raises; a weak reference that is nil has no response to parse. *)
Opened ==
    /\ Take({"opened", "no zone"}, "opening")
    /\ IF Opening \notin blocks THEN Silent /\ UNCHANGED <<state, queue>>
       ELSE IF life # "alive" \/ (Head(main).what = "no zone" /\ parts > 0)
       THEN Breaks /\ UNCHANGED <<state, queue>>
       ELSE QueueParts /\ Silent
    /\ UNCHANGED <<parts, client, request, blocks, cancelling, stored, failures, wild, malformed>>

(* request:didSendBytes: of the queue, and setProgress: of the uploader. *)
PartSent ==
    /\ Take({"sent"}, "part")
    /\ sent' = sent + 1
    /\ IF life = "dead" THEN Breaks /\ UNCHANGED wild
       ELSE Silent /\ wild' = (wild \/ sent' > total)
    /\ UNCHANGED <<parts, client, request, blocks, partCount, requestsCount, total, network,
                   failures, malformed>>

(* uploadQueueCompleted: and uploadFinish.  An object that is being deallocated
   can have no weak reference. *)
UploadFinish ==
    IF life = "alive"
    THEN /\ request' = Closing
         /\ blocks' = blocks \cup {Closing}
         /\ state' = [state EXCEPT ![Closing] = "waiting"]
         /\ Silent
    ELSE Breaks /\ UNCHANGED <<request, blocks, state>>

(* The delegate of the queue is told; the last of its requests ends it. *)
TellUploader ==
    IF life = "dead" THEN Breaks /\ UNCHANGED <<request, blocks, state>>
    ELSE IF requestsCount' = 0 THEN UploadFinish
    ELSE Silent /\ UNCHANGED <<request, blocks, state>>

(* requestFinished: of the queue. *)
PartFinished ==
    /\ Take({"finished"}, "part")
    /\ requestsCount' = requestsCount - 1
    /\ TellUploader
    /\ UNCHANGED <<parts, client, partCount, sent, total, cancelling, stored, failures, wild,
                   malformed>>

(* Mutant of CountAfterFailure: a failure takes the canceled requests off at
   once. *)
CountAfterFailureNone == 0

CountAfterFailure == requestsCount - 1

(* requestFailed: of the queue, which then cancels the others. *)
PartFailed ==
    /\ Take({"failed"}, "part")
    /\ requestsCount' = CountAfterFailure
    /\ failures' = failures \cup {Head(main).req}
    /\ TellUploader
    /\ IF requestsCount' > 0 /\ ~undefined'
       THEN cancelling' = cancelling \cup UnfinishedParts /\ sent' = 0 /\ total' = 0
       ELSE UNCHANGED <<cancelling, sent, total>>
    /\ UNCHANGED <<parts, client, partCount, stored, wild, malformed>>

(* The blocks of uploadFinish. *)
Closed ==
    /\ Take({"accepted", "refused", "failed"}, "closing")
    /\ IF Closing \notin blocks \/ ~callbacks \/ life # "alive" THEN Silent
       ELSE Call(IF Head(main).what = "accepted" THEN "success" ELSE "fail")
    /\ UNCHANGED <<parts, client, request, blocks, queue, network, failures, wild, malformed>>

-----------------------------------------------------------------------------
RequestThread ==
    \/ \E r \in Requests : Start(r) \/ CancelOnRequestThread(r)
    \/ OpeningEnds
    \/ \E p \in Parts : PartEnds(p)
    \/ ClosingEnds

MainThread == Opened \/ OpeningFails \/ PartSent \/ PartFinished \/ PartFailed \/ Closed

Next ==
    \/ Go
    \/ \E thread \in {"main", "another"} : Drop(thread)
    \/ EndDealloc
    \/ RequestThread
    \/ MainThread

(* Both threads run, and every request ends, if by its timeout. *)
Spec == Init /\ [][Next]_vars /\ WF_vars(RequestThread) /\ WF_vars(MainThread)

-----------------------------------------------------------------------------
(* The types; the queue counts the parts that have not reported their end. *)
TypeOK ==
    /\ parts \in 0..MaxParts /\ callbacks \in BOOLEAN /\ held \in BOOLEAN
    /\ life \in {"alive", "dying", "dead"}
    /\ dropped \in {"no", "early", "parts", "elsewhere"}
    /\ request \in {None, Opening, Closing} /\ blocks \subseteq {Opening, Closing}
    /\ partCount \in Nat /\ sent \in Nat /\ total \in Nat
    /\ requestsCount \in 0..parts
    /\ state \in [Requests -> {"none", "waiting", "running", "complete"}]
    /\ cancelling \subseteq Requests
    /\ main \in Seq([what : {"opened", "no dictionary", "no zone", "accepted", "refused",
                             "sent", "finished", "failed"},
                     req : Requests])
    /\ stored \subseteq Parts
    /\ outcome \in {"none", "success", "fail"}
    /\ undefined \in BOOLEAN /\ malformed \in BOOLEAN /\ wild \in BOOLEAN
    /\ failures \subseteq Requests

(* The closing request is made when every part has ended and reported it, also
   after a failure, when the parts behind it are cancelled while some of them
   have already started. *)
ClosesAfterParts ==
    request = Closing =>
        /\ requestsCount = 0
        /\ \A p \in Parts : state[Part(p)] = "complete"
        /\ \A i \in 1..Len(main) : main[i].req[1] # "part"

(* Nothing but the opening request has been made. *)
OnlyOpening == \A r \in Requests \ {Opening} : state[r] = "none"

(* A client meets no undefined behaviour if the server answers as it should,
   except by releasing the uploader while the queue has parts to report, whose
   pointer to it is not retained, by releasing it on another thread than the main
   one, or by setting no callbacks: then only a failure of the opening request
   breaks, the rest of the upload works without them.  The progress it is shown
   is at most 1 as long as no part has failed; a failure resets the size of the
   upload to 0, and a part that had started by then shows its progress divided
   by it. *)
NothingUndefined ==
    /\ undefined => \/ ~callbacks /\ OnlyOpening
                    \/ malformed
                    \/ dropped \in {"parts", "elsewhere"}
    /\ wild => failures # {}

(* What the client sees is an upload as Upload promises it. *)
phase ==
    IF outcome # "none" THEN outcome
    ELSE IF undefined \/ life # "alive" THEN "abandoned"
    ELSE IF request = None THEN "idle" ELSE "running"

Promise == INSTANCE Upload WITH parts <- parts, stored <- stored, phase <- phase

KeepsPromise == Promise!Spec

(* Every upload ends with a callback, unless the client releases it, has set
   none, or the file is empty: then no part ends the queue. *)
EveryUploadEnds ==
    request # None ~>
        outcome # "none" \/ undefined \/ life # "alive" \/ ~callbacks \/ parts = 0
=============================================================================
