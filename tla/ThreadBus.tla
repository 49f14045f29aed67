------------------------------ MODULE ThreadBus ------------------------------
(***************************************************************************)
(* FW/DThreadBus.m: a table from thread indices to serial dispatch queues, *)
(* and three ways to have a block run on one of them.                      *)
(*                                                                         *)
(* A context is whatever executes code: the worker of a serial queue (the  *)
(* main thread is the worker of the main queue) or an OS thread that       *)
(* serves none of them.  A method of the bus takes two steps, the read of  *)
(* the table and the dispatch, between which other contexts run.           *)
(***************************************************************************)
EXTENDS Naturals, Sequences, FiniteSets

CONSTANTS
    Threads,        \* the indices of DEnumThread in use
    ThreadMain,
    ThreadWhatEver,
    Queues,         \* dispatch queues: startup's and those a client may install
    MainQueue,
    QueueAt,        \* the table startup fills
    Others,         \* OS threads that serve no queue of the table
    MaxBlocks,      \* bound on the blocks clients ever submit
    MaxRetarget,    \* bound on the calls of setQueue:toThread:
    None

Blocks == 1..MaxBlocks   \* numbered in the order of their submission

ASSUME BusAssumption ==
    /\ {ThreadMain, ThreadWhatEver} \subseteq Threads
    /\ ThreadMain # ThreadWhatEver
    /\ QueueAt \in [Threads -> Queues]
    /\ \A s, t \in Threads : QueueAt[s] = QueueAt[t] => s = t
    /\ QueueAt[ThreadMain] = MainQueue
    /\ Queues \cap Others = {}
    /\ MaxBlocks \in Nat
    /\ MaxRetarget \in Nat
    /\ None \notin Threads \cup Queues \cup Others \cup Blocks
    /\ None \notin [block : Blocks, queue : Queues]

Contexts == Queues \cup Others

VARIABLES
    queues,     \* _queues: the queue of each thread index
    pending,    \* the blocks each queue has still to run, oldest first
    frames,     \* the blocks each context is inside of, outermost first
    call,       \* the bus method each context is inside of, None if in none
    timers,     \* what dispatch_after holds: a block and the queue it is for
    addr,       \* the thread index a block was submitted to, None if not yet
    how,        \* the method it was submitted with
    by,         \* the context that submitted it
    done,       \* the blocks that have returned
    retargets,  \* the calls of setQueue:toThread: so far
    since       \* how many of them there were when a block was submitted

busVars == <<queues, pending, frames, call, timers, addr, how, by, done, retargets, since>>

Methods == {"callsafe", "post", "postLater"}

Retarget == [thread : Threads, queue : Queues]

(* Mutant of Startup: the queue of ThreadWhatEver is never created. *)
StartupForgetful == [QueueAt EXCEPT ![ThreadWhatEver] = None]

Startup == QueueAt

BusInit ==
    /\ queues = Startup
    /\ pending = [q \in Queues |-> <<>>]
    /\ frames = [c \in Contexts |-> <<>>]
    /\ call = [c \in Contexts |-> None]
    /\ timers = {}
    /\ addr = [b \in Blocks |-> None]
    /\ how = [b \in Blocks |-> None]
    /\ by = [b \in Blocks |-> None]
    /\ done = {}
    /\ retargets = <<>>
    /\ since = [b \in Blocks |-> 0]

-----------------------------------------------------------------------------
Elements(s) == {s[i] : i \in DOMAIN s}

Started(b) == b \in done \/ \E c \in Contexts : b \in Elements(frames[c])

(* [NSThread isMainThread] *)
IsMainThread(c) == c = MainQueue

(* A context executes client code: a queue's worker only inside a block,
   the main thread also in its events, another thread at any time. *)
RunsClientCode(c) ==
    /\ call[c] = None
    /\ c \in Others \cup {MainQueue} \/ frames[c] # <<>>

Submit(c, b, t, method) ==
    /\ RunsClientCode(c)
    /\ addr[b] = None /\ \A a \in 1..(b - 1) : addr[a] # None
    /\ addr' = [addr EXCEPT ![b] = t]
    /\ how' = [how EXCEPT ![b] = method]
    /\ by' = [by EXCEPT ![b] = c]
    /\ since' = [since EXCEPT ![b] = Len(retargets)]
    /\ UNCHANGED <<queues, done, retargets>>

EnterBlock(c, b) == frames' = [frames EXCEPT ![c] = Append(@, b)]

(* callsafe with ThreadWhatEver calls the block and returns. *)
CallsafeWhatEver(c, b) ==
    /\ Submit(c, b, ThreadWhatEver, "callsafe")
    /\ EnterBlock(c, b)
    /\ UNCHANGED <<pending, call, timers>>

(* The first step of every other method: the queue is read from the table,
   under _lock (queueOf:) by callsafe, without it by the three posts.  The read
   of the pointer and its assignment are taken as atomic either way: that the
   posts load and retain a queue which an assignment may be releasing is memory
   management, and left out. *)
QueueOf(c, b, t, method) ==
    /\ method = "callsafe" => t # ThreadWhatEver
    /\ Submit(c, b, t, method)
    /\ call' = [call EXCEPT ![c] = [block |-> b, queue |-> queues[t]]]
    /\ UNCHANGED <<pending, frames, timers>>

(* Mutant of CallsInline: the test of isMainThread is missing. *)
CallsInlineAnywhere(c, b) == how[b] = "callsafe" /\ addr[b] = ThreadMain

(* The branch of callsafe that runs the block on the spot. *)
CallsInline(c, b) ==
    /\ how[b] = "callsafe"
    /\ addr[b] = ThreadMain
    /\ IsMainThread(c)

Enqueue(b, q) == pending' = [pending EXCEPT ![q] = Append(@, b)]

(* Mutant of Routes: no return after the block is called on the spot. *)
RoutesTwice(c, b) ==
    CASE how[b] = "postLater" -> {"timer"}
      [] CallsInline(c, b)    -> {"here", "queue"}
      [] OTHER                -> {"queue"}

(* Mutant of Routes: callsafe returns for ThreadMain whatever thread it is on. *)
RoutesMainLost(c, b) ==
    CASE how[b] = "postLater"               -> {"timer"}
      [] CallsInline(c, b)                  -> {"here"}
      [] CallsInlineAnywhere(c, b)          -> {}
      [] OTHER                              -> {"queue"}

(* Mutant of Routes: every post goes through dispatch_after. *)
RoutesLater(c, b) ==
    CASE how[b] # "callsafe"  -> {"timer"}
      [] CallsInline(c, b)    -> {"here"}
      [] OTHER                -> {"queue"}

(* Where a method sends its block: it calls it, queues it, or leaves it to
   dispatch_after. *)
Routes(c, b) ==
    CASE how[b] = "postLater" -> {"timer"}
      [] CallsInline(c, b)    -> {"here"}
      [] OTHER                -> {"queue"}

HandOver(c, b, q) ==
    /\ IF "here" \in Routes(c, b) THEN EnterBlock(c, b) ELSE UNCHANGED frames
    /\ IF "queue" \in Routes(c, b) THEN Enqueue(b, q) ELSE UNCHANGED pending
    /\ timers' = timers \cup
           {[block |-> b, queue |-> q] : r \in Routes(c, b) \cap {"timer"}}

(* Mutant of Dispatch: dispatch_sync, the caller waits for its block. *)
DispatchSync(c) ==
    /\ call[c] # None
    /\ LET b == call[c].block
       IN  \/ /\ ~Started(b)
              /\ \A q \in Queues : b \notin Elements(pending[q])
              /\ HandOver(c, b, call[c].queue)
              /\ UNCHANGED call
           \/ /\ b \in done
              /\ call' = [call EXCEPT ![c] = None]
              /\ UNCHANGED <<pending, frames, timers>>
    /\ UNCHANGED <<queues, addr, how, by, done, retargets, since>>

(* The second step of a method. *)
Dispatch(c) ==
    /\ call[c] # None
    /\ HandOver(c, call[c].block, call[c].queue)
    /\ call' = [call EXCEPT ![c] = None]
    /\ UNCHANGED <<queues, addr, how, by, done, retargets, since>>

(* The time of a delayed block comes; it is queued like any other. *)
Fire(timer) ==
    /\ timers' = timers \ {timer}
    /\ Enqueue(timer.block, timer.queue)
    /\ UNCHANGED <<queues, frames, call, addr, how, by, done, retargets, since>>

(* The worker of q, inside no block, takes the oldest one. *)
Run(q) ==
    /\ frames[q] = <<>>
    /\ call[q] = None
    /\ pending[q] # <<>>
    /\ EnterBlock(q, Head(pending[q]))
    /\ pending' = [pending EXCEPT ![q] = Tail(@)]
    /\ UNCHANGED <<queues, call, timers, addr, how, by, done, retargets, since>>

(* The innermost block of c returns. *)
Return(c) ==
    /\ frames[c] # <<>>
    /\ call[c] = None
    /\ done' = done \cup {frames[c][Len(frames[c])]}
    /\ frames' = [frames EXCEPT ![c] = SubSeq(@, 1, Len(@) - 1)]
    /\ UNCHANGED <<queues, pending, call, timers, addr, how, by, retargets, since>>

SetQueue(c, t, q) ==
    /\ RunsClientCode(c)
    /\ Len(retargets) < MaxRetarget
    /\ queues' = [queues EXCEPT ![t] = q]
    /\ retargets' = Append(retargets, [thread |-> t, queue |-> q])
    /\ UNCHANGED <<pending, frames, call, timers, addr, how, by, done, since>>

-----------------------------------------------------------------------------
Next ==
    \/ \E c \in Contexts, b \in Blocks : CallsafeWhatEver(c, b)
    \/ \E c \in Contexts, b \in Blocks, t \in Threads, m \in Methods :
           QueueOf(c, b, t, m)
    \/ \E c \in Contexts : Dispatch(c)
    \/ \E timer \in timers : Fire(timer)
    \/ \E q \in Queues : Run(q)
    \/ \E c \in Contexts : Return(c)
    \/ \E c \in Contexts, t \in Threads, q \in Queues : SetQueue(c, t, q)

Spec == BusInit /\ [][Next]_busVars

(* A thread the system schedules goes on, a queue with work gets a worker, a
   timer fires, and the blocks clients submit return. *)
BusFairness ==
    /\ \A c \in Contexts : WF_busVars(Dispatch(c)) /\ WF_busVars(Return(c))
    /\ \A q \in Queues : WF_busVars(Run(q))
    /\ WF_busVars(\E timer \in timers : Fire(timer))

FairSpec == Spec /\ BusFairness
-----------------------------------------------------------------------------
TypeOK ==
    /\ queues \in [Threads -> Queues]
    /\ pending \in [Queues -> Seq(Blocks)]
    /\ frames \in [Contexts -> Seq(Blocks)]
    /\ call \in [Contexts -> {None} \cup [block : Blocks, queue : Queues]]
    /\ timers \subseteq [block : Blocks, queue : Queues]
    /\ addr \in [Blocks -> Threads \cup {None}]
    /\ how \in [Blocks -> Methods \cup {None}]
    /\ by \in [Blocks -> Contexts \cup {None}]
    /\ done \subseteq Blocks
    /\ retargets \in Seq(Retarget)
    /\ since \in [Blocks -> Nat]

(* callsafe runs the block before it returns. *)
OnTheSpot(c, b) ==
    CallsInline(c, b) \/ (how[b] = "callsafe" /\ addr[b] = ThreadWhatEver)

(* q is the queue of thread index t after n calls of setQueue:toThread:. *)
HadQueue(t, q, n) ==
    LET given == {i \in 1..n : retargets[i].thread = t}
    IN  \/ given = {} /\ q = QueueAt[t]
        \/ \E i \in given : retargets[i].queue = q /\ \A j \in given : j <= i

(* A block submitted for a thread index executes on the queue that the index
   had when the method read the table, whatever setQueue:toThread: gives it
   while the block is in the method, a timer or the queue, and nowhere else; a
   callsafe for no thread in particular is exempt, and one the main thread
   makes for itself stays on it.  Two blocks of one index therefore never run
   at the same time unless the index was given another queue between them,
   which is what the code that hands work to ThreadDb or ThreadMain relies on
   instead of a lock. *)
RunsOnItsThread ==
    \A c \in Contexts : \A b \in Elements(frames[c]) :
        \/ how[b] = "callsafe" /\ addr[b] = ThreadWhatEver
        \/ how[b] = "callsafe" /\ addr[b] = ThreadMain /\ c = MainQueue
        \/ HadQueue(addr[b], c, since[b])

(* One queue was read for both blocks. *)
SameQueue(a, b) ==
    \E q \in Queues : HadQueue(addr[a], q, since[a]) /\ HadQueue(addr[b], q, since[b])

(* Of two blocks that one context submits for one index, neither delayed, the
   first starts first.  Exempt are an index that had another queue for the
   second, and a posted block overtaken by a callsafe that runs on the spot. *)
SubmissionOrder ==
    [][\A a, b \in Blocks :
          ( /\ a < b
            /\ by[a] = by[b] /\ addr[a] = addr[b]
            /\ "postLater" \notin {how[a], how[b]}
            /\ ~(how[a] = "post" /\ OnTheSpot(by[b], b))
            /\ ~Started(b) /\ Started(b)'
            /\ SameQueue(a, b) ) => Started(a)]_busVars

(* Where a submitted block can be. *)
Places(b) ==
    {<<"call", c>> : c \in {d \in Contexts : call[d] # None /\ call[d].block = b}}
    \cup {<<"timer", t.queue>> : t \in {u \in timers : u.block = b}}
    \cup (UNION {{<<"queue", q, i>> : i \in {k \in DOMAIN pending[q] : pending[q][k] = b}} : q \in Queues})
    \cup (UNION {{<<"frame", c, i>> : i \in {k \in DOMAIN frames[c] : frames[c][k] = b}} : c \in Contexts})
    \cup {<<"done">> : x \in done \cap {b}}

(* The bus neither loses a block nor runs it twice: from its submission on,
   each is in exactly one place. *)
ExactlyOnce ==
    \A b \in Blocks : Cardinality(Places(b)) = IF addr[b] = None THEN 0 ELSE 1

(* "the sync way will cause dead-block easily" (DThreadBus.m:55): whatever
   contexts submit to each other, no method of the bus blocks its caller. *)
NoDeadBlock == \A c \in Contexts : call[c] # None ~> call[c] = None

(* Every block submitted runs to its end. *)
EveryBlockRuns == \A b \in Blocks : addr[b] # None ~> b \in done

=============================================================================
