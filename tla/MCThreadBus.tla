----------------------------- MODULE MCThreadBus -----------------------------
(* Three thread indices on their own queues, one spare queue for setQueue, and
   one thread outside: the smallest instance with every branch of callsafe. *)
EXTENDS ThreadBus, TLC

CONSTANTS back, mainQ, whatQ, backQ, other

MCThreads == {ThreadWhatEver, ThreadMain, back}
MCQueues == {mainQ, whatQ, backQ}
MCQueueAt == (ThreadWhatEver :> whatQ) @@ (ThreadMain :> mainQ) @@ (back :> backQ)
MCOthers == {other}
=============================================================================
