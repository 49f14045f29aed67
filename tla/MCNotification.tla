--------------------------- MODULE MCNotification ---------------------------
(* The events of DDef.inl.h on their threads, the main thread, the background
   queue and one thread outside the bus. *)
EXTENDS Notification, TLC

CONSTANTS back, mainQ, whatQ, backQ, other, TestNotification, TestNotificationThread

MCThreads == {ThreadWhatEver, ThreadMain, back}
MCQueues == {mainQ, whatQ, backQ}
MCQueueAt == (ThreadWhatEver :> whatQ) @@ (ThreadMain :> mainQ) @@ (back :> backQ)
MCEvents == {TestNotification, TestNotificationThread}
MCEventThread == (TestNotification :> ThreadMain) @@ (TestNotificationThread :> back)
MCByDefault == {TestNotification}
=============================================================================
