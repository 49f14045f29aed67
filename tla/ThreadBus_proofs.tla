-------------------------- MODULE ThreadBus_proofs --------------------------
(* What holds of the thread bus for every table, any number of contexts and
   any number of blocks: its types, where a block runs, that it runs once and
   in which order a sender's blocks start; and of the notifications that are posted over it, for
   any events and observers, which rests on the former. *)
EXTENDS Notification, FiniteSetTheorems, TLAPS

-----------------------------------------------------------------------------
(* The elements of a sequence one block longer or shorter. *)

(* A queued block is the last of its queue and the others stay: dispatch_async
   as Enqueue models it. *)
LEMMA AppendElements ==
    ASSUME NEW S, NEW s \in Seq(S), NEW x \in S
    PROVE  /\ Append(s, x) \in Seq(S)
           /\ \A y \in Elements(Append(s, x)) : y \in Elements(s) \/ y = x
  BY DEF Elements

(* Taking the oldest block of a queue, as the worker of Run does. *)
LEMMA TailElements ==
    ASSUME NEW S, NEW s \in Seq(S), s # <<>>
    PROVE  /\ Head(s) \in S
           /\ Head(s) \in Elements(s)
           /\ Tail(s) \in Seq(S)
           /\ \A y \in Elements(Tail(s)) : y \in Elements(s)
  BY DEF Elements

(* Leaving the innermost block, as Return does. *)
LEMMA FrontElements ==
    ASSUME NEW S, NEW s \in Seq(S), s # <<>>
    PROVE  /\ s[Len(s)] \in S
           /\ SubSeq(s, 1, Len(s) - 1) \in Seq(S)
           /\ \A y \in Elements(SubSeq(s, 1, Len(s) - 1)) : y \in Elements(s)
  BY DEF Elements

-----------------------------------------------------------------------------
(* The fields of the bus keep their types: no table entry, queue, frame or
   timer ever holds anything but a queue or a block. *)
THEOREM TypeCorrect == Spec => []TypeOK
<1>1. BusInit => TypeOK
  BY BusAssumption DEF BusInit, TypeOK, Startup
<1>2. TypeOK /\ [Next]_busVars => TypeOK'
  <2> SUFFICES ASSUME TypeOK, [Next]_busVars PROVE TypeOK'
    OBVIOUS
  <2> USE DEF TypeOK
  <2>1. ASSUME NEW c \in Contexts, NEW b \in Blocks, CallsafeWhatEver(c, b)
        PROVE  TypeOK'
    <3>1. Append(frames[c], b) \in Seq(Blocks)
      BY AppendElements
    <3>2. QED
      BY <2>1, <3>1, BusAssumption DEF CallsafeWhatEver, Submit, EnterBlock, Methods
  <2>2. ASSUME NEW c \in Contexts, NEW b \in Blocks, NEW t \in Threads,
               NEW m \in Methods, QueueOf(c, b, t, m)
        PROVE  TypeOK'
    BY <2>2 DEF QueueOf, Submit
  <2>3. ASSUME NEW c \in Contexts, Dispatch(c)
        PROVE  TypeOK'
    <3>1. call[c].block \in Blocks /\ call[c].queue \in Queues
      BY <2>3 DEF Dispatch
    <3>2. /\ Append(frames[c], call[c].block) \in Seq(Blocks)
          /\ Append(pending[call[c].queue], call[c].block) \in Seq(Blocks)
      BY <3>1, AppendElements
    <3>3. frames' \in [Contexts -> Seq(Blocks)]
      BY <2>3, <3>2 DEF Dispatch, HandOver, EnterBlock
    <3>4. pending' \in [Queues -> Seq(Blocks)]
      BY <2>3, <3>2 DEF Dispatch, HandOver, Enqueue
    <3>5. timers' \subseteq [block : Blocks, queue : Queues]
      BY <2>3, <3>1 DEF Dispatch, HandOver
    <3>6. QED
      BY <2>3, <3>3, <3>4, <3>5 DEF Dispatch
  <2>4. ASSUME NEW timer \in timers, Fire(timer)
        PROVE  TypeOK'
    <3>1. Append(pending[timer.queue], timer.block) \in Seq(Blocks)
      BY AppendElements
    <3>2. QED
      BY <2>4, <3>1 DEF Fire, Enqueue
  <2>5. ASSUME NEW q \in Queues, Run(q)
        PROVE  TypeOK'
    <3>1. q \in Contexts
      BY DEF Contexts
    <3>2. Head(pending[q]) \in Blocks /\ Tail(pending[q]) \in Seq(Blocks)
      BY <2>5, TailElements DEF Run
    <3>3. Append(frames[q], Head(pending[q])) \in Seq(Blocks)
      BY <3>1, <3>2, AppendElements
    <3>4. QED
      BY <2>5, <3>2, <3>3 DEF Run, EnterBlock
  <2>6. ASSUME NEW c \in Contexts, Return(c)
        PROVE  TypeOK'
    <3>1. /\ frames[c][Len(frames[c])] \in Blocks
          /\ SubSeq(frames[c], 1, Len(frames[c]) - 1) \in Seq(Blocks)
      BY <2>6, FrontElements DEF Return
    <3>2. QED
      BY <2>6, <3>1 DEF Return
  <2>7. ASSUME NEW c \in Contexts, NEW t \in Threads, NEW q \in Queues, SetQueue(c, t, q)
        PROVE  TypeOK'
    <3>1. Append(retargets, [thread |-> t, queue |-> q]) \in Seq(Retarget)
      BY AppendElements DEF Retarget
    <3>2. QED
      BY <2>7, <3>1 DEF SetQueue, Retarget
  <2>8. CASE UNCHANGED busVars
    BY <2>8 DEF busVars
  <2>9. QED
    BY <2>1, <2>2, <2>3, <2>4, <2>5, <2>6, <2>7, <2>8 DEF Next
<1>3. QED
  BY <1>1, <1>2, PTL DEF Spec

-----------------------------------------------------------------------------
(* Why RunsOnItsThread holds: wherever a submitted block waits - in a method
   of the bus, in a timer, in a queue - it waits for the queue its index had
   when it was submitted; and a block is only submitted once, so that nothing
   that waits has its index changed. *)
BoundFor(b, q) == addr[b] \in Threads /\ HadQueue(addr[b], q, since[b])

IInv ==
    /\ TypeOK
    /\ \A b \in Blocks : since[b] <= Len(retargets)
    /\ \A t \in Threads : HadQueue(t, queues[t], Len(retargets))
    /\ \A c \in Contexts : call[c] # None => BoundFor(call[c].block, call[c].queue)
    /\ \A timer \in timers : BoundFor(timer.block, timer.queue)
    /\ \A q \in Queues : \A b \in Elements(pending[q]) : BoundFor(b, q)
    /\ \A c \in Contexts : \A b \in Elements(frames[c]) : addr[b] \in Threads
    /\ RunsOnItsThread

(* An index has one queue at a time. *)
LEMMA OneQueueAtATime ==
    ASSUME NEW t, NEW n \in Nat, NEW p, NEW q, HadQueue(t, p, n), HadQueue(t, q, n)
    PROVE  p = q
<1> DEFINE given == {i \in 1..n : retargets[i].thread = t}
<1>1. CASE given = {}  BY <1>1 DEF HadQueue
<1>2. CASE given # {}
  <2>1. PICK i \in given : retargets[i].queue = p /\ \A j \in given : j <= i
    BY <1>2 DEF HadQueue
  <2>2. PICK k \in given : retargets[k].queue = q /\ \A j \in given : j <= k
    BY <1>2 DEF HadQueue
  <2>3. i \in Nat /\ k \in Nat /\ i <= k /\ k <= i  BY <2>1, <2>2
  <2> QED  BY <2>1, <2>2, <2>3
<1> QED  BY <1>1, <1>2

(* A new queue for an index leaves the past as it was, and the present of the
   others. *)
LEMMA PastStays ==
    ASSUME retargets \in Seq(Retarget), NEW t \in Threads, NEW q \in Queues,
           retargets' = Append(retargets, [thread |-> t, queue |-> q])
    PROVE  /\ Len(retargets)' = Len(retargets) + 1 /\ Len(retargets) \in Nat
           /\ \A s, p : \A n \in 0..Len(retargets) : HadQueue(s, p, n) => HadQueue(s, p, n)'
           /\ HadQueue(t, q, Len(retargets))'
           /\ \A s, p : s # t /\ HadQueue(s, p, Len(retargets)) =>
                  HadQueue(s, p, Len(retargets))'
<1> DEFINE r == [thread |-> t, queue |-> q]
<1>0. PICK n \in Nat : n = Len(retargets)  OBVIOUS
<1>1. /\ Len(retargets)' = n + 1
      /\ \A i \in 1..n : retargets'[i] = retargets[i]
      /\ retargets'[n + 1] = r
  <2>1. r \in Retarget  BY DEF Retarget
  <2> QED  BY <1>0, <2>1
<1>2. r.thread = t /\ r.queue = q  OBVIOUS
<1> HIDE DEF r
<1>3. ASSUME NEW s, NEW p, NEW m \in 0..n, HadQueue(s, p, m)
      PROVE  HadQueue(s, p, m)'
  <2>1. \A i \in 1..m : retargets'[i] = retargets[i]  BY <1>1
  <2>2. {i \in 1..m : retargets'[i].thread = s} = {i \in 1..m : retargets[i].thread = s}
    BY <2>1
  <2> QED  BY <1>3, <2>1, <2>2 DEF HadQueue
<1>4. HadQueue(t, q, n + 1)'
  <2>1. n + 1 \in {i \in 1..(n + 1) : retargets'[i].thread = t}  BY <1>1, <1>2
  <2>2. \A j \in {i \in 1..(n + 1) : retargets'[i].thread = t} : j <= n + 1  BY <1>1
  <2> QED  BY <1>1, <1>2, <2>1, <2>2 DEF HadQueue
<1>5. ASSUME NEW s, NEW p, s # t, HadQueue(s, p, n)
      PROVE  HadQueue(s, p, n + 1)'
  <2>1. {i \in 1..(n + 1) : retargets'[i].thread = s} = {i \in 1..n : retargets[i].thread = s}
    BY <1>1, <1>2, <1>5
  <2> QED  BY <1>1, <1>5, <2>1 DEF HadQueue
<1> QED  BY <1>0, <1>1, <1>3, <1>4, <1>5

(* A step that submits nothing and re-targets nothing leaves every block bound
   for where it was bound. *)
LEMMA Unaddressed ==
    ASSUME UNCHANGED <<addr, how, since, retargets>>
    PROVE  /\ \A t, p, n : HadQueue(t, p, n)' <=> HadQueue(t, p, n)
           /\ \A b, q : BoundFor(b, q) => BoundFor(b, q)'
  BY DEF HadQueue, BoundFor

(* Nor does the submission of b disturb any other block. *)
LEMMA OthersStayBound ==
    ASSUME TypeOK, NEW c \in Contexts, NEW b \in Blocks, NEW t \in Threads,
           NEW m \in Methods, Submit(c, b, t, m)
    PROVE  /\ retargets' = retargets
           /\ \A s, q, n : HadQueue(s, q, n)' <=> HadQueue(s, q, n)
           /\ \A a \in Blocks : addr[a] \in Threads =>
                  a # b /\ addr'[a] = addr[a] /\ how'[a] = how[a] /\ since'[a] = since[a]
           /\ \A a \in Blocks, q \in Queues : BoundFor(a, q) => BoundFor(a, q)'
           /\ addr'[b] = t /\ how'[b] = m /\ since' = [since EXCEPT ![b] = Len(retargets)]
<1>1. retargets' = retargets /\ \A s, q, n : HadQueue(s, q, n)' <=> HadQueue(s, q, n)
  BY DEF Submit, HadQueue
<1>2. \A a \in Blocks : addr[a] \in Threads =>
          a # b /\ addr'[a] = addr[a] /\ how'[a] = how[a] /\ since'[a] = since[a]
  BY BusAssumption DEF Submit, TypeOK
<1>3. addr'[b] = t /\ how'[b] = m /\ since' = [since EXCEPT ![b] = Len(retargets)]
  BY DEF Submit, TypeOK
<1>4. \A a \in Blocks, q \in Queues : BoundFor(a, q) => BoundFor(a, q)'
  BY <1>1, <1>2 DEF BoundFor
<1> QED  BY <1>1, <1>2, <1>3, <1>4

(* Before the first submission nothing is queued, running or timed. *)
LEMMA IInvInit == BusInit => IInv
<1> SUFFICES ASSUME BusInit PROVE IInv
  OBVIOUS
<1>1. TypeOK
  BY BusAssumption DEF BusInit, TypeOK, Startup
<1>2. retargets = <<>> /\ Len(retargets) = 0 /\ \A b \in Blocks : since[b] = 0
  BY DEF BusInit
<1>3. \A t \in Threads : HadQueue(t, queues[t], 0)
  BY DEF BusInit, Startup, HadQueue
<1>4. QED
  BY <1>1, <1>2, <1>3 DEF BusInit, IInv, RunsOnItsThread, Elements

(* No block was submitted after more re-assignments than there are. *)
LEMMA SinceSoFar ==
    ASSUME IInv, NEW c \in Contexts, NEW b \in Blocks, NEW t \in Threads,
           NEW m \in Methods, Submit(c, b, t, m)
    PROVE  \A a \in Blocks : since'[a] <= Len(retargets)'
<1>1. /\ retargets' = retargets /\ since' = [since EXCEPT ![b] = Len(retargets)]
      /\ Len(retargets) \in Nat /\ since \in [Blocks -> Nat]
      /\ \A a \in Blocks : since[a] <= Len(retargets)
  BY DEF Submit, IInv, TypeOK
<1> QED  BY <1>1

(* The submission of a block: only CallsafeWhatEver also enters it, and only
   QueueOf also remembers a queue for it, the one the table has. *)
LEMMA IInvSubmit ==
    ASSUME IInv, TypeOK', NEW c \in Contexts, NEW b \in Blocks, NEW t \in Threads,
           NEW m \in Methods,
           CallsafeWhatEver(c, b) \/ QueueOf(c, b, t, m)
    PROVE  IInv'
<1>1. CASE CallsafeWhatEver(c, b)
  <2>1. ThreadWhatEver \in Threads /\ "callsafe" \in Methods
    BY BusAssumption DEF Methods
  <2>2. Submit(c, b, ThreadWhatEver, "callsafe")
    BY <1>1 DEF CallsafeWhatEver
  <2>3. /\ retargets' = retargets
        /\ \A s, q, n : HadQueue(s, q, n)' <=> HadQueue(s, q, n)
        /\ \A a \in Blocks : addr[a] \in Threads =>
               a # b /\ addr'[a] = addr[a] /\ how'[a] = how[a] /\ since'[a] = since[a]
        /\ \A a \in Blocks, q \in Queues : BoundFor(a, q) => BoundFor(a, q)'
        /\ addr'[b] = ThreadWhatEver /\ how'[b] = "callsafe"
    BY <2>1, <2>2, OthersStayBound DEF IInv
  <2>4. \A d \in Contexts : \A a \in Elements(frames'[d]) :
            a \in Elements(frames[d]) \/ a = b
    BY <1>1, AppendElements DEF CallsafeWhatEver, EnterBlock, IInv, TypeOK
  <2>5. \A d \in Contexts : \A a \in Elements(frames[d]) : a \in Blocks
    BY DEF IInv, TypeOK, Elements
  <2>6. RunsOnItsThread' /\ \A d \in Contexts : \A a \in Elements(frames'[d]) : addr'[a] \in Threads
    BY <2>1, <2>3, <2>4, <2>5 DEF IInv, RunsOnItsThread
  <2>7. UNCHANGED <<queues, pending, call, timers>>
    BY <1>1 DEF CallsafeWhatEver, Submit
  <2>8. \A q \in Queues : \A a \in Elements(pending[q]) : a \in Blocks
    BY DEF IInv, TypeOK, Elements
  <2>9. \A a \in Blocks : since'[a] <= Len(retargets)'
    BY <2>1, <2>2, <2>3, SinceSoFar DEF IInv
  <2>10. QED
    BY <2>3, <2>6, <2>7, <2>8, <2>9 DEF IInv, TypeOK
<1>2. CASE QueueOf(c, b, t, m)
  <2>1. /\ retargets' = retargets
        /\ \A s, q, n : HadQueue(s, q, n)' <=> HadQueue(s, q, n)
        /\ \A a \in Blocks : addr[a] \in Threads =>
               a # b /\ addr'[a] = addr[a] /\ how'[a] = how[a] /\ since'[a] = since[a]
        /\ since'[b] = Len(retargets)
        /\ \A a \in Blocks, q \in Queues : BoundFor(a, q) => BoundFor(a, q)'
        /\ addr'[b] = t /\ how'[b] = m
    BY <1>2, OthersStayBound DEF IInv, QueueOf, TypeOK
  <2>2. \A d \in Contexts : \A a \in Elements(frames[d]) : a \in Blocks
    BY DEF IInv, TypeOK, Elements
  <2>3. UNCHANGED <<queues, pending, frames, timers>>
    BY <1>2 DEF QueueOf, Submit
  <2>4. RunsOnItsThread' /\ \A d \in Contexts : \A a \in Elements(frames'[d]) : addr'[a] \in Threads
    BY <2>1, <2>2, <2>3 DEF IInv, RunsOnItsThread
  <2>5. BoundFor(b, queues[t])'
    BY <2>1, <2>3 DEF IInv, BoundFor
  <2>6. \A d \in Contexts : call'[d] # None => BoundFor(call[d].block, call[d].queue)'
    BY <1>2, <2>1, <2>3, <2>5 DEF IInv, TypeOK, QueueOf
  <2>7. \A q \in Queues : \A a \in Elements(pending[q]) : a \in Blocks
    BY DEF IInv, TypeOK, Elements
  <2>8. \A a \in Blocks : since'[a] <= Len(retargets)'
    BY <1>2, <2>1, SinceSoFar DEF IInv, QueueOf
  <2>9. QED
    BY <2>1, <2>3, <2>4, <2>6, <2>7, <2>8 DEF IInv, TypeOK
<1>3. QED
  BY <1>1, <1>2

(* The block leaves the method for the place it is bound for: onto the stack
   of the main thread, if the method is called there, or to the queue read. *)
LEMMA IInvDispatch ==
    ASSUME IInv, TypeOK', NEW c \in Contexts, Dispatch(c)
    PROVE  IInv'
<1> DEFINE b == call[c].block
           q == call[c].queue
<1>1. b \in Blocks /\ q \in Queues /\ BoundFor(b, q)
  BY DEF IInv, TypeOK, Dispatch
<1>2. /\ \A t, p, n : HadQueue(t, p, n)' <=> HadQueue(t, p, n)
      /\ \A a, p : BoundFor(a, p) => BoundFor(a, p)'
  BY Unaddressed DEF Dispatch
<1>3. \A d \in Contexts : \A a \in Elements(frames'[d]) :
          \/ a \in Elements(frames[d])
          \/ a = b /\ d = c /\ CallsInline(c, b)
  <2>1. \A a \in Elements(Append(frames[c], b)) : a \in Elements(frames[c]) \/ a = b
    BY <1>1, AppendElements DEF IInv, TypeOK
  <2>2. "here" \in Routes(c, b) => CallsInline(c, b)
    BY DEF Routes
  <2>3. CASE "here" \in Routes(c, b)
    <3>1. frames' = [frames EXCEPT ![c] = Append(@, b)]
      BY <2>3 DEF Dispatch, HandOver, EnterBlock
    <3>2. QED
      BY <3>1, <2>1, <2>2, <2>3 DEF IInv, TypeOK
  <2>4. CASE "here" \notin Routes(c, b)
    BY <2>4 DEF Dispatch, HandOver
  <2>5. QED
    BY <2>3, <2>4
<1>4. CallsInline(c, b) => how[b] = "callsafe" /\ addr[b] = ThreadMain /\ c = MainQueue
  BY DEF CallsInline, IsMainThread
<1>5. RunsOnItsThread' /\ \A d \in Contexts : \A a \in Elements(frames'[d]) : addr'[a] \in Threads
  BY <1>1, <1>2, <1>3, <1>4 DEF IInv, RunsOnItsThread, BoundFor, Dispatch
<1>6. \A p \in Queues : \A a \in Elements(pending'[p]) : a \in Elements(pending[p]) \/ (a = b /\ p = q)
  <2>1. \A a \in Elements(Append(pending[q], b)) : a \in Elements(pending[q]) \/ a = b
    BY <1>1, AppendElements DEF IInv, TypeOK
  <2>2. CASE "queue" \in Routes(c, b)
    <3>1. pending' = [pending EXCEPT ![q] = Append(@, b)]
      BY <2>2 DEF Dispatch, HandOver, Enqueue
    <3>2. QED
      BY <3>1, <2>1 DEF IInv, TypeOK
  <2>3. CASE "queue" \notin Routes(c, b)
    BY <2>3 DEF Dispatch, HandOver
  <2>4. QED
    BY <2>2, <2>3
<1>7. \A p \in Queues : \A a \in Elements(pending'[p]) : BoundFor(a, p)'
  BY <1>1, <1>2, <1>6 DEF IInv
<1>8. \A timer \in timers' : BoundFor(timer.block, timer.queue)'
  BY <1>1, <1>2 DEF IInv, Dispatch, HandOver
<1>9. \A d \in Contexts : call'[d] # None => BoundFor(call[d].block, call[d].queue)'
  BY <1>2 DEF IInv, TypeOK, Dispatch
<1>10. QED
  BY <1>2, <1>5, <1>7, <1>8, <1>9 DEF IInv, Dispatch

(* dispatch_after puts the block in the queue the timer was made with. *)
LEMMA IInvFire ==
    ASSUME IInv, TypeOK', NEW timer \in timers, Fire(timer)
    PROVE  IInv'
<1>1. timer.block \in Blocks /\ timer.queue \in Queues /\ BoundFor(timer.block, timer.queue)
  BY DEF IInv, TypeOK
<1>2. /\ \A t, p, n : HadQueue(t, p, n)' <=> HadQueue(t, p, n)
      /\ \A a, p : BoundFor(a, p) => BoundFor(a, p)'
  BY Unaddressed DEF Fire
<1>3. \A p \in Queues : \A a \in Elements(pending'[p]) :
          a \in Elements(pending[p]) \/ (a = timer.block /\ p = timer.queue)
  BY <1>1, AppendElements DEF Fire, Enqueue, IInv, TypeOK
<1>4. \A p \in Queues : \A a \in Elements(pending'[p]) : BoundFor(a, p)'
  BY <1>1, <1>2, <1>3 DEF IInv
<1>5. RunsOnItsThread' /\ \A d \in Contexts : \A a \in Elements(frames'[d]) : addr'[a] \in Threads
  BY <1>2 DEF IInv, RunsOnItsThread, Fire
<1>6. QED
  BY <1>2, <1>4, <1>5 DEF IInv, Fire

(* The worker of a queue takes a block bound for that queue. *)
LEMMA IInvRun ==
    ASSUME IInv, TypeOK', NEW q \in Queues, Run(q)
    PROVE  IInv'
<1>1. q \in Contexts
  BY DEF Contexts
<1>2. /\ Head(pending[q]) \in Blocks
      /\ Head(pending[q]) \in Elements(pending[q])
      /\ \A a \in Elements(Tail(pending[q])) : a \in Elements(pending[q])
  BY TailElements DEF Run, IInv, TypeOK
<1>3. BoundFor(Head(pending[q]), q)
  BY <1>2 DEF IInv
<1>4. /\ \A t, p, n : HadQueue(t, p, n)' <=> HadQueue(t, p, n)
      /\ \A a, p : BoundFor(a, p) => BoundFor(a, p)'
  BY Unaddressed DEF Run
<1>5. \A d \in Contexts : \A a \in Elements(frames'[d]) :
          a \in Elements(frames[d]) \/ (a = Head(pending[q]) /\ d = q)
  <2>1. frames \in [Contexts -> Seq(Blocks)] /\ frames' = [frames EXCEPT ![q] = Append(@, Head(pending[q]))]
    BY DEF Run, EnterBlock, IInv, TypeOK
  <2>2. \A a \in Elements(Append(frames[q], Head(pending[q]))) :
            a \in Elements(frames[q]) \/ a = Head(pending[q])
    BY <1>1, <1>2, <2>1, AppendElements
  <2> QED  BY <1>1, <2>1, <2>2
<1>6. RunsOnItsThread' /\ \A d \in Contexts : \A a \in Elements(frames'[d]) : addr'[a] \in Threads
  BY <1>3, <1>4, <1>5 DEF IInv, RunsOnItsThread, BoundFor, Run
<1>7. \A p \in Queues : \A a \in Elements(pending'[p]) : a \in Elements(pending[p])
  BY <1>2 DEF Run, IInv, TypeOK
<1>8. QED
  BY <1>4, <1>6, <1>7 DEF IInv, Run

(* Leaving a block disturbs no other. *)
LEMMA IInvReturn ==
    ASSUME IInv, TypeOK', NEW c \in Contexts, Return(c)
    PROVE  IInv'
<1>1. /\ \A t, p, n : HadQueue(t, p, n)' <=> HadQueue(t, p, n)
      /\ \A a, p : BoundFor(a, p) => BoundFor(a, p)'
  BY Unaddressed DEF Return
<1>2. \A d \in Contexts : \A a \in Elements(frames'[d]) : a \in Elements(frames[d])
  BY FrontElements DEF Return, IInv, TypeOK
<1>3. RunsOnItsThread' /\ \A d \in Contexts : \A a \in Elements(frames'[d]) : addr'[a] \in Threads
  BY <1>1, <1>2 DEF IInv, RunsOnItsThread, Return
<1>4. QED
  BY <1>1, <1>3 DEF IInv, Return

(* A new queue for an index is for the blocks submitted from then on. *)
LEMMA IInvSetQueue ==
    ASSUME IInv, TypeOK', NEW c \in Contexts, NEW t \in Threads, NEW q \in Queues,
           SetQueue(c, t, q)
    PROVE  IInv'
<1>1. /\ retargets' = Append(retargets, [thread |-> t, queue |-> q])
      /\ queues' = [queues EXCEPT ![t] = q]
      /\ UNCHANGED <<pending, frames, call, timers, addr, how, since>>
  BY DEF SetQueue
<1>2. /\ retargets \in Seq(Retarget) /\ since \in [Blocks -> Nat]
      /\ queues \in [Threads -> Queues]
      /\ \A b \in Blocks : since[b] <= Len(retargets)
  BY DEF IInv, TypeOK
<1>3. /\ Len(retargets)' = Len(retargets) + 1 /\ Len(retargets) \in Nat
      /\ \A s, p : \A n \in 0..Len(retargets) : HadQueue(s, p, n) => HadQueue(s, p, n)'
      /\ HadQueue(t, q, Len(retargets))'
      /\ \A s, p : s # t /\ HadQueue(s, p, Len(retargets)) =>
             HadQueue(s, p, Len(retargets))'
  BY <1>1, <1>2, PastStays
<1>4. \A b \in Blocks : since[b] \in 0..Len(retargets) /\ since'[b] <= Len(retargets)'
  BY <1>1, <1>2, <1>3
<1>5. \A a \in Blocks : \A s, p : HadQueue(s, p, since[a]) => HadQueue(s, p, since[a])'
  <2> SUFFICES ASSUME NEW a \in Blocks, NEW s, NEW p, HadQueue(s, p, since[a])
               PROVE  HadQueue(s, p, since[a])'
    OBVIOUS
  <2>1. PICK n \in 0..Len(retargets) : n = since[a]  BY <1>4
  <2>2. since'[a] = n  BY <1>1, <2>1
  <2>3. HadQueue(s, p, n)'  BY <1>3, <2>1
  <2> QED  BY <2>2, <2>3
<1>6. \A a \in Blocks : \A p : BoundFor(a, p) => BoundFor(a, p)'
  BY <1>1, <1>5 DEF BoundFor
<1>7. \A s \in Threads : HadQueue(s, queues[s], Len(retargets))'
  <2> SUFFICES ASSUME NEW s \in Threads
               PROVE  HadQueue(s, queues[s], Len(retargets))'
    OBVIOUS
  <2>1. CASE s = t
    <3>1. queues'[s] = q  BY <1>1, <1>2, <2>1
    <3> QED  BY <1>3, <2>1, <3>1
  <2>2. CASE s # t
    <3>1. queues'[s] = queues[s] /\ HadQueue(s, queues[s], Len(retargets))
      BY <1>1, <1>2, <2>2 DEF IInv
    <3> QED  BY <1>3, <2>2, <3>1
  <2> QED  BY <2>1, <2>2
<1>8. \A d \in Contexts : \A a \in Elements(frames[d]) : a \in Blocks
  BY DEF IInv, TypeOK, Elements
<1>9. RunsOnItsThread' /\ \A d \in Contexts : \A a \in Elements(frames'[d]) : addr'[a] \in Threads
  BY <1>1, <1>5, <1>8 DEF IInv, RunsOnItsThread
<1>10. \A p \in Queues : \A a \in Elements(pending[p]) : a \in Blocks
  BY DEF IInv, TypeOK, Elements
<1>11. /\ \A d \in Contexts : call[d] # None => call[d].block \in Blocks
       /\ \A timer \in timers : timer.block \in Blocks
  BY DEF IInv, TypeOK
<1>12. /\ \A d \in Contexts : call'[d] # None => BoundFor(call[d].block, call[d].queue)'
       /\ \A timer \in timers' : BoundFor(timer.block, timer.queue)'
       /\ \A p \in Queues : \A a \in Elements(pending'[p]) : BoundFor(a, p)'
  BY <1>1, <1>6, <1>10, <1>11 DEF IInv
<1> QED
  BY <1>1, <1>4, <1>7, <1>9, <1>12 DEF IInv

(* Whatever waits, waits for where it is bound. *)
LEMMA IInvAlways == Spec => []IInv
<1>1. IInv /\ TypeOK' /\ [Next]_busVars => IInv'
  <2> SUFFICES ASSUME IInv, TypeOK', [Next]_busVars PROVE IInv'
    OBVIOUS
  <2>1. CASE \E c \in Contexts, b \in Blocks : CallsafeWhatEver(c, b)
    <3>1. ThreadWhatEver \in Threads /\ "callsafe" \in Methods
      BY BusAssumption DEF Methods
    <3>2. QED
      BY <2>1, <3>1, IInvSubmit
  <2>2. CASE \E c \in Contexts, b \in Blocks, t \in Threads, m \in Methods : QueueOf(c, b, t, m)
    BY <2>2, IInvSubmit
  <2>3. CASE \E c \in Contexts : Dispatch(c)
    BY <2>3, IInvDispatch
  <2>4. CASE \E timer \in timers : Fire(timer)
    BY <2>4, IInvFire
  <2>5. CASE \E q \in Queues : Run(q)
    BY <2>5, IInvRun
  <2>6. CASE \E c \in Contexts : Return(c)
    BY <2>6, IInvReturn
  <2>7. CASE \E c \in Contexts, t \in Threads, q \in Queues : SetQueue(c, t, q)
    BY <2>7, IInvSetQueue
  <2>8. CASE UNCHANGED busVars
    BY <2>8 DEF busVars, IInv, BoundFor, HadQueue, RunsOnItsThread, Elements
  <2>9. QED
    BY <2>1, <2>2, <2>3, <2>4, <2>5, <2>6, <2>7, <2>8 DEF Next
<1>2. QED
  BY <1>1, IInvInit, TypeCorrect, PTL DEF Spec

(* A block submitted for a thread index runs on the queue of that index, for
   any table of distinct queues and any number of blocks and contexts: the
   guarantee the clients of callsafe:inThread: have instead of a lock. *)
THEOREM ThreadAffinity == Spec => []RunsOnItsThread
<1>1. IInv => RunsOnItsThread
  BY DEF IInv
<1>2. QED
  BY <1>1, IInvAlways, PTL

-----------------------------------------------------------------------------
(* Where a block is, as Places says it, one predicate for each kind of place. *)
InCall(b) == \E c \in Contexts : call[c] # None /\ call[c].block = b
InTimer(b) == \E t \in timers : t.block = b
Among(F, D, b) == \E d \in D : b \in Elements(F[d])
InQueue(b) == Among(pending, Queues, b)
Inside(b) == Among(frames, Contexts, b)

(* No block is twice in a family of sequences. *)
Distinct(F, D) ==
    \A d, e \in D : \A i \in DOMAIN F[d], j \in DOMAIN F[e] : F[d][i] = F[e][j] => d = e /\ i = j

(* A family in which one sequence has one more, or lacks its first or last. *)
Longer(F, d, b) == [F EXCEPT ![d] = Append(@, b)]
Beheaded(F, d) == [F EXCEPT ![d] = Tail(@)]
Shortened(F, d) == [F EXCEPT ![d] = SubSeq(@, 1, Len(@) - 1)]

(* The inductive form of ExactlyOnce: a submitted block is in a place of one
   kind, and in one place of that kind. *)
OneKind(b) ==
    /\ addr[b] # None <=> InCall(b) \/ InTimer(b) \/ InQueue(b) \/ Inside(b) \/ b \in done
    /\ InCall(b) => ~InTimer(b) /\ ~InQueue(b) /\ ~Inside(b) /\ b \notin done
    /\ InTimer(b) => ~InQueue(b) /\ ~Inside(b) /\ b \notin done
    /\ InQueue(b) => ~Inside(b) /\ b \notin done
    /\ Inside(b) => b \notin done

OnePlaceInv ==
    /\ TypeOK
    /\ \A c, d \in Contexts :
           call[c] # None /\ call[d] # None /\ call[c].block = call[d].block => c = d
    /\ \A t, u \in timers : t.block = u.block => t = u
    /\ Distinct(pending, Queues)
    /\ Distinct(frames, Contexts)
    /\ \A b \in Blocks : OneKind(b)

(* Elements of a sequence with one more, or without its first or last. *)
LEMMA SeqEnds ==
    ASSUME NEW s \in Seq(Blocks), NEW b \in Blocks
    PROVE  /\ DOMAIN s = 1..Len(s) /\ Len(s) \in Nat
           /\ DOMAIN Append(s, b) = 1..(Len(s) + 1)
           /\ Append(s, b)[Len(s) + 1] = b
           /\ \A i \in 1..Len(s) : Append(s, b)[i] = s[i]
           /\ s # <<>> =>
                  /\ Len(s) # 0 /\ Head(s) = s[1]
                  /\ DOMAIN Tail(s) = 1..(Len(s) - 1)
                  /\ \A i \in 1..(Len(s) - 1) : Tail(s)[i] = s[i + 1]
                  /\ DOMAIN SubSeq(s, 1, Len(s) - 1) = 1..(Len(s) - 1)
                  /\ \A i \in 1..(Len(s) - 1) : SubSeq(s, 1, Len(s) - 1)[i] = s[i]
  OBVIOUS

(* Enqueue and EnterBlock: a block that was in no sequence of the family is now
   in one of them, once. *)
LEMMA LongerOnce ==
    ASSUME NEW D, NEW F \in [D -> Seq(Blocks)],
           Distinct(F, D), NEW d \in D, NEW b \in Blocks, ~Among(F, D, b)
    PROVE  /\ Distinct(Longer(F, d, b), D)
           /\ \A a : Among(Longer(F, d, b), D, a) <=> Among(F, D, a) \/ a = b
<1> DEFINE G == Longer(F, d, b)
           n == Len(F[d])
<1>1. /\ DOMAIN F[d] = 1..n /\ n \in Nat /\ DOMAIN G[d] = 1..(n + 1)
      /\ G[d][n + 1] = b /\ \A i \in 1..n : G[d][i] = F[d][i]
  BY SeqEnds DEF Longer
<1>2. \A e \in D : e # d => G[e] = F[e]
  BY DEF Longer
<1> HIDE DEF n, G
<1>3. \A e \in D : \A i \in DOMAIN G[e] :
          \/ i \in DOMAIN F[e] /\ G[e][i] = F[e][i]
          \/ e = d /\ i = n + 1 /\ G[e][i] = b
  BY <1>1, <1>2
<1>4. \A e \in D : \A i \in DOMAIN F[e] : F[e][i] # b
  BY DEF Among, Elements
<1>5. Distinct(G, D)
  BY <1>3, <1>4 DEF Distinct
<1>6. \A e \in D : \A i \in DOMAIN F[e] : i \in DOMAIN G[e] /\ G[e][i] = F[e][i]
  BY <1>1, <1>2
<1>7. n + 1 \in DOMAIN G[d]
  BY <1>1
<1>8. \A a : Among(G, D, a) <=> Among(F, D, a) \/ a = b
  BY <1>1, <1>3, <1>6, <1>7 DEF Among, Elements
<1> QED
  BY <1>5, <1>8 DEF G

(* Run: the first block of a queue leaves it. *)
LEMMA BeheadedOnce ==
    ASSUME NEW D, NEW F \in [D -> Seq(Blocks)],
           Distinct(F, D), NEW d \in D, F[d] # <<>>
    PROVE  /\ Distinct(Beheaded(F, d), D)
           /\ Among(F, D, Head(F[d])) /\ Head(F[d]) \in Blocks
           /\ \A a : Among(Beheaded(F, d), D, a) <=> Among(F, D, a) /\ a # Head(F[d])
<1> DEFINE G == Beheaded(F, d)
           n == Len(F[d])
<1>1. PICK x \in Blocks : x = F[d][1] /\ x = Head(F[d])
  OBVIOUS
<1>2. /\ DOMAIN F[d] = 1..n /\ n \in Nat /\ n # 0 /\ DOMAIN G[d] = 1..(n - 1)
      /\ \A i \in 1..(n - 1) : G[d][i] = F[d][i + 1]
  BY <1>1, SeqEnds DEF Beheaded
<1>3. \A e \in D : e # d => G[e] = F[e]
  BY DEF Beheaded
<1> HIDE DEF n, G
<1>4. 1 \in DOMAIN F[d]
  BY <1>2
<1>5. \A i \in DOMAIN G[d] : i + 1 \in DOMAIN F[d] /\ i + 1 # 1 /\ i \in Nat /\ G[d][i] = F[d][i + 1]
  BY <1>2
<1>6. \A i \in DOMAIN F[d] : i # 1 => i - 1 \in DOMAIN G[d] /\ G[d][i - 1] = F[d][i]
  <2> SUFFICES ASSUME NEW i \in DOMAIN F[d], i # 1
               PROVE  i - 1 \in DOMAIN G[d] /\ G[d][i - 1] = F[d][i]
    OBVIOUS
  <2>1. i \in Nat /\ i - 1 \in 1..(n - 1) /\ (i - 1) + 1 = i
    BY <1>2
  <2> QED
    BY <1>2, <2>1
<1>7. Distinct(G, D)
  <2> SUFFICES ASSUME NEW e \in D, NEW f \in D, NEW i \in DOMAIN G[e], NEW j \in DOMAIN G[f],
                      G[e][i] = G[f][j]
               PROVE  e = f /\ i = j
    BY DEF Distinct
  <2>1. CASE e # d /\ f # d
    BY <1>3, <2>1 DEF Distinct
  <2>2. CASE e = d /\ f # d
    BY <1>3, <1>5, <2>2 DEF Distinct
  <2>3. CASE e # d /\ f = d
    BY <1>3, <1>5, <2>3 DEF Distinct
  <2>4. CASE e = d /\ f = d
    <3>1. i + 1 = j + 1 /\ i \in Nat /\ j \in Nat
      BY <1>5, <2>4 DEF Distinct
    <3> QED
      BY <2>4, <3>1
  <2> QED
    BY <2>1, <2>2, <2>3, <2>4
<1>8. \A e \in D : \A i \in DOMAIN G[e] : \E j \in DOMAIN F[e] : G[e][i] = F[e][j] /\ ~(e = d /\ j = 1)
  <2> SUFFICES ASSUME NEW e \in D, NEW i \in DOMAIN G[e]
               PROVE  \E j \in DOMAIN F[e] : G[e][i] = F[e][j] /\ ~(e = d /\ j = 1)
    OBVIOUS
  <2>1. CASE e = d
    BY <1>5, <2>1
  <2>2. CASE e # d
    BY <1>3, <2>2
  <2> QED
    BY <2>1, <2>2
<1>9. \A e \in D : \A j \in DOMAIN F[e] : ~(e = d /\ j = 1) => F[e][j] # x
  BY <1>1, <1>4 DEF Distinct
<1>10. \A e \in D : \A j \in DOMAIN F[e] : ~(e = d /\ j = 1) => \E i \in DOMAIN G[e] : G[e][i] = F[e][j]
  <2> SUFFICES ASSUME NEW e \in D, NEW j \in DOMAIN F[e], ~(e = d /\ j = 1)
               PROVE  \E i \in DOMAIN G[e] : G[e][i] = F[e][j]
    OBVIOUS
  <2>1. CASE e = d
    BY <1>6, <2>1
  <2>2. CASE e # d
    BY <1>3, <2>2
  <2> QED
    BY <2>1, <2>2
<1>11. \A a : Among(G, D, a) => Among(F, D, a) /\ a # x
  BY <1>8, <1>9 DEF Among, Elements
<1>12. \A a : Among(F, D, a) /\ a # x => Among(G, D, a)
  BY <1>1, <1>10 DEF Among, Elements
<1>13. Among(F, D, x)
  BY <1>1, <1>4 DEF Among, Elements
<1> QED
  BY <1>1, <1>7, <1>11, <1>12, <1>13 DEF G

(* Return: the last block of a stack leaves it. *)
LEMMA ShortenedOnce ==
    ASSUME NEW D, NEW F \in [D -> Seq(Blocks)],
           Distinct(F, D), NEW d \in D, F[d] # <<>>
    PROVE  /\ Distinct(Shortened(F, d), D)
           /\ Among(F, D, F[d][Len(F[d])]) /\ F[d][Len(F[d])] \in Blocks
           /\ \A a : Among(Shortened(F, d), D, a) <=> Among(F, D, a) /\ a # F[d][Len(F[d])]
<1> DEFINE G == Shortened(F, d)
           n == Len(F[d])
           x == F[d][n]
<1>1. x \in Blocks
  OBVIOUS
<1>2. /\ DOMAIN F[d] = 1..n /\ n \in Nat /\ n # 0 /\ DOMAIN G[d] = 1..(n - 1)
      /\ \A i \in 1..(n - 1) : G[d][i] = F[d][i]
  BY <1>1, SeqEnds DEF Shortened
<1>3. \A e \in D : e # d => G[e] = F[e]
  BY DEF Shortened
<1> HIDE DEF n, G
<1>4. n \in DOMAIN F[d]
  BY <1>2
<1>5. \A e \in D : \A i \in DOMAIN G[e] : i \in DOMAIN F[e] /\ G[e][i] = F[e][i] /\ ~(e = d /\ i = n)
  BY <1>2, <1>3
<1>6. \A e \in D : \A i \in DOMAIN F[e] : ~(e = d /\ i = n) => i \in DOMAIN G[e] /\ G[e][i] = F[e][i]
  BY <1>2, <1>3
<1>7. Distinct(G, D)
  BY <1>5 DEF Distinct
<1>8. \A e \in D : \A j \in DOMAIN F[e] : ~(e = d /\ j = n) => F[e][j] # x
  BY <1>4 DEF Distinct
<1>9. \A a : Among(G, D, a) => Among(F, D, a) /\ a # x
  BY <1>5, <1>8 DEF Among, Elements
<1>10. \A a : Among(F, D, a) /\ a # x => Among(G, D, a)
  BY <1>6 DEF Among, Elements
<1>11. Among(F, D, x)
  BY <1>4 DEF Among, Elements
<1> QED
  BY <1>1, <1>7, <1>9, <1>10, <1>11 DEF n, G

(* A submission puts a block that was nowhere into a call or onto a stack. *)
LEMMA OnePlaceSubmit ==
    ASSUME OnePlaceInv, TypeOK', NEW c \in Contexts, NEW b \in Blocks, NEW t \in Threads,
           NEW m \in Methods,
           CallsafeWhatEver(c, b) \/ QueueOf(c, b, t, m)
    PROVE  OnePlaceInv'
<1>1. \E s \in Threads : addr' = [addr EXCEPT ![b] = s]
  BY BusAssumption DEF CallsafeWhatEver, QueueOf, Submit
<1>2. addr[b] = None /\ call[c] = None /\ done' = done
  BY DEF CallsafeWhatEver, QueueOf, Submit, RunsClientCode
<1>3. addr'[b] # None /\ \A a \in Blocks : a # b => addr'[a] = addr[a]
  BY <1>1, BusAssumption DEF OnePlaceInv, TypeOK
<1>4. ~InCall(b) /\ ~InTimer(b) /\ ~InQueue(b) /\ ~Inside(b) /\ b \notin done
  BY <1>2 DEF OnePlaceInv, OneKind
<1>5. CASE CallsafeWhatEver(c, b)
  <2>1. UNCHANGED <<pending, call, timers>> /\ frames' = Longer(frames, c, b)
    BY <1>5 DEF CallsafeWhatEver, EnterBlock, Longer
  <2>2. /\ Distinct(frames', Contexts)
        /\ \A a : Among(frames', Contexts, a) <=> Among(frames, Contexts, a) \/ a = b
    <3>1. /\ frames \in [Contexts -> Seq(Blocks)] /\ frames' \in [Contexts -> Seq(Blocks)]
          /\ Distinct(frames, Contexts) /\ ~Among(frames, Contexts, b)
      BY <1>4 DEF OnePlaceInv, TypeOK, Inside
    <3> QED
      BY <2>1, <3>1, LongerOnce
  <2>3. \A a \in Blocks : /\ InCall(a)' <=> InCall(a)
                          /\ InTimer(a)' <=> InTimer(a)
                          /\ InQueue(a)' <=> InQueue(a)
                          /\ Inside(a)' <=> Inside(a) \/ a = b
    BY <2>1, <2>2 DEF InCall, InTimer, InQueue, Inside, Among
  <2>4. \A a \in Blocks : OneKind(a)'
    BY <1>2, <1>3, <1>4, <2>3 DEF OnePlaceInv, OneKind
  <2> QED
    BY <2>1, <2>2, <2>4 DEF OnePlaceInv
<1>6. CASE QueueOf(c, b, t, m)
  <2>1. /\ UNCHANGED <<pending, frames, timers>>
        /\ call' = [call EXCEPT ![c] = [block |-> b, queue |-> queues[t]]]
    BY <1>6 DEF QueueOf
  <2>2. /\ call'[c] # None /\ call'[c].block = b
        /\ \A d \in Contexts : d # c => call'[d] = call[d]
    <3>1. [block |-> b, queue |-> queues[t]] \in [block : Blocks, queue : Queues]
      BY DEF OnePlaceInv, TypeOK
    <3>2. /\ call'[c] = [block |-> b, queue |-> queues[t]]
          /\ \A d \in Contexts : d # c => call'[d] = call[d]
      BY <2>1 DEF OnePlaceInv, TypeOK
    <3>3. [block |-> b, queue |-> queues[t]] # None
      BY <3>1, BusAssumption
    <3> QED
      BY <3>2, <3>3
  <2>3. \A d \in Contexts : call[d] # None => call[d].block # b
    BY <1>4 DEF InCall
  <2>4. \A d, e \in Contexts :
            call'[d] # None /\ call'[e] # None /\ call'[d].block = call'[e].block => d = e
    BY <2>2, <2>3 DEF OnePlaceInv
  <2>5. \A a \in Blocks : /\ InCall(a)' <=> InCall(a) \/ a = b
                          /\ InTimer(a)' <=> InTimer(a)
                          /\ InQueue(a)' <=> InQueue(a)
                          /\ Inside(a)' <=> Inside(a)
    <3>1. \A a \in Blocks : InCall(a)' => InCall(a) \/ a = b
      BY <2>2 DEF InCall
    <3>2. \A a \in Blocks : InCall(a) \/ a = b => InCall(a)'
      BY <1>2, <2>2 DEF InCall
    <3> QED
      BY <2>1, <3>1, <3>2 DEF InTimer, InQueue, Inside, Among
  <2>6. \A a \in Blocks : OneKind(a)'
    BY <1>2, <1>3, <1>4, <2>5 DEF OnePlaceInv, OneKind
  <2> QED
    BY <2>1, <2>4, <2>6 DEF OnePlaceInv
<1> QED
  BY <1>5, <1>6

(* Dispatch hands a block over to one place: the routes are never two, and
   never none. *)
LEMMA OnePlaceDispatch ==
    ASSUME OnePlaceInv, TypeOK', NEW c \in Contexts, Dispatch(c)
    PROVE  OnePlaceInv'
<1> DEFINE b == call[c].block
           q == call[c].queue
<1>1. /\ call[c] # None /\ b \in Blocks /\ q \in Queues /\ HandOver(c, b, q)
      /\ call' = [call EXCEPT ![c] = None] /\ UNCHANGED <<addr, done>>
  BY DEF Dispatch, OnePlaceInv, TypeOK
<1>2. InCall(b) /\ addr[b] # None
  BY <1>1 DEF InCall, OnePlaceInv, OneKind
<1>3. ~InTimer(b) /\ ~InQueue(b) /\ ~Inside(b) /\ b \notin done
  BY <1>1, <1>2 DEF OnePlaceInv, OneKind
<1>4. call'[c] = None /\ \A d \in Contexts : d # c => call'[d] = call[d]
  BY <1>1 DEF OnePlaceInv, TypeOK
<1>5. \A d \in Contexts : d # c /\ call[d] # None => call[d].block # b
  BY <1>1 DEF OnePlaceInv
<1>6. PICK x \in Blocks : x = b
  BY <1>1
<1>7. /\ frames \in [Contexts -> Seq(Blocks)] /\ frames' \in [Contexts -> Seq(Blocks)]
      /\ pending \in [Queues -> Seq(Blocks)] /\ pending' \in [Queues -> Seq(Blocks)]
      /\ Distinct(frames, Contexts) /\ Distinct(pending, Queues)
  BY DEF OnePlaceInv, TypeOK
<1>8. \A a \in Blocks : InCall(a)' <=> InCall(a) /\ a # x
  BY <1>1, <1>4, <1>5, <1>6 DEF InCall
<1>9. \A d, e \in Contexts :
          call'[d] # None /\ call'[e] # None /\ call'[d].block = call'[e].block => d = e
  BY <1>4 DEF OnePlaceInv
<1>10. Routes(c, b) \in {{"timer"}, {"here"}, {"queue"}}
  BY DEF Routes
<1>11. CASE Routes(c, b) = {"timer"}
  <2>1. /\ UNCHANGED <<frames, pending>>
        /\ timers' = timers \cup {[block |-> b, queue |-> q]}
    BY <1>1, <1>11 DEF HandOver
  <2>2. \A t, u \in timers' : t.block = u.block => t = u
    BY <1>3, <2>1 DEF OnePlaceInv, InTimer
  <2>3. \A a \in Blocks : InTimer(a)' <=> InTimer(a) \/ a = x
    <3>1. PICK u : u = [block |-> b, queue |-> q]
      OBVIOUS
    <3>2. u.block = x /\ timers' = timers \cup {u}
      BY <1>6, <2>1, <3>1
    <3> QED
      BY <3>2 DEF InTimer
  <2>4. \A a \in Blocks : (InQueue(a)' <=> InQueue(a)) /\ (Inside(a)' <=> Inside(a))
    BY <2>1 DEF InQueue, Inside, Among
  <2>5. \A a \in Blocks : OneKind(a)'
    BY <1>1, <1>2, <1>3, <1>6, <1>8, <2>3, <2>4 DEF OnePlaceInv, OneKind
  <2> QED
    BY <1>7, <1>9, <2>1, <2>2, <2>5 DEF OnePlaceInv
<1>12. CASE Routes(c, b) = {"here"}
  <2>1. UNCHANGED <<pending, timers>> /\ frames' = Longer(frames, c, x)
    BY <1>1, <1>6, <1>12 DEF HandOver, EnterBlock, Longer
  <2>2. /\ Distinct(frames', Contexts)
        /\ \A a : Among(frames', Contexts, a) <=> Among(frames, Contexts, a) \/ a = x
    BY <1>3, <1>6, <1>7, <2>1, LongerOnce DEF Inside
  <2>3. \A a \in Blocks : /\ InTimer(a)' <=> InTimer(a)
                          /\ InQueue(a)' <=> InQueue(a)
                          /\ Inside(a)' <=> Inside(a) \/ a = x
    BY <2>1, <2>2 DEF InTimer, InQueue, Inside, Among
  <2>4. \A a \in Blocks : OneKind(a)'
    BY <1>1, <1>2, <1>3, <1>6, <1>8, <2>3 DEF OnePlaceInv, OneKind
  <2> QED
    BY <1>7, <1>9, <2>1, <2>2, <2>4 DEF OnePlaceInv
<1>13. CASE Routes(c, b) = {"queue"}
  <2>1. UNCHANGED <<frames, timers>> /\ pending' = Longer(pending, q, x)
    BY <1>1, <1>6, <1>13 DEF HandOver, Enqueue, Longer
  <2>2. /\ Distinct(pending', Queues)
        /\ \A a : Among(pending', Queues, a) <=> Among(pending, Queues, a) \/ a = x
    BY <1>1, <1>3, <1>6, <1>7, <2>1, LongerOnce DEF InQueue
  <2>3. \A a \in Blocks : /\ InTimer(a)' <=> InTimer(a)
                          /\ Inside(a)' <=> Inside(a)
                          /\ InQueue(a)' <=> InQueue(a) \/ a = x
    BY <2>1, <2>2 DEF InTimer, InQueue, Inside, Among
  <2>4. \A a \in Blocks : OneKind(a)'
    BY <1>1, <1>2, <1>3, <1>6, <1>8, <2>3 DEF OnePlaceInv, OneKind
  <2> QED
    BY <1>7, <1>9, <2>1, <2>2, <2>4 DEF OnePlaceInv
<1> QED
  BY <1>10, <1>11, <1>12, <1>13

(* The block of a timer that fires is in a queue instead. *)
LEMMA OnePlaceFire ==
    ASSUME OnePlaceInv, TypeOK', NEW timer \in timers, Fire(timer)
    PROVE  OnePlaceInv'
<1>1. PICK x \in Blocks : x = timer.block /\ timer.queue \in Queues
  BY DEF OnePlaceInv, TypeOK
<1>2. /\ timers' = timers \ {timer} /\ UNCHANGED <<frames, call, addr, done>>
      /\ pending' = Longer(pending, timer.queue, x)
  BY <1>1 DEF Fire, Enqueue, Longer
<1>3. InTimer(x) /\ ~InCall(x) /\ ~InQueue(x) /\ ~Inside(x) /\ x \notin done /\ addr[x] # None
  <2>1. InTimer(x)
    BY <1>1 DEF InTimer
  <2> QED
    BY <2>1 DEF OnePlaceInv, OneKind
<1>4. /\ Distinct(pending', Queues)
      /\ \A a : Among(pending', Queues, a) <=> Among(pending, Queues, a) \/ a = x
  <2>1. /\ pending \in [Queues -> Seq(Blocks)] /\ pending' \in [Queues -> Seq(Blocks)]
        /\ Distinct(pending, Queues) /\ ~Among(pending, Queues, x)
    BY <1>3 DEF OnePlaceInv, TypeOK, InQueue
  <2> QED
    BY <1>1, <1>2, <2>1, LongerOnce
<1>5. \A a \in Blocks : InTimer(a)' <=> InTimer(a) /\ a # x
  BY <1>1, <1>2 DEF InTimer, OnePlaceInv
<1>6. \A a \in Blocks : /\ InCall(a)' <=> InCall(a)
                        /\ InQueue(a)' <=> InQueue(a) \/ a = x
                        /\ Inside(a)' <=> Inside(a)
  BY <1>2, <1>4 DEF InCall, InQueue, Inside, Among
<1>7. \A a \in Blocks : OneKind(a)'
  BY <1>2, <1>3, <1>5, <1>6 DEF OnePlaceInv, OneKind
<1> QED
  BY <1>2, <1>4, <1>7 DEF OnePlaceInv

(* The block a worker takes is on its stack instead of in its queue. *)
LEMMA OnePlaceRun ==
    ASSUME OnePlaceInv, TypeOK', NEW q \in Queues, Run(q)
    PROVE  OnePlaceInv'
<1>1. /\ pending[q] # <<>> /\ UNCHANGED <<timers, call, addr, done>>
      /\ pending' = Beheaded(pending, q)
      /\ frames' = Longer(frames, q, Head(pending[q]))
      /\ q \in Contexts
  BY DEF Run, EnterBlock, Contexts, Longer, Beheaded
<1>2. /\ frames \in [Contexts -> Seq(Blocks)] /\ frames' \in [Contexts -> Seq(Blocks)]
      /\ pending \in [Queues -> Seq(Blocks)] /\ pending' \in [Queues -> Seq(Blocks)]
      /\ Distinct(frames, Contexts) /\ Distinct(pending, Queues)
  BY DEF OnePlaceInv, TypeOK
<1>3. /\ Distinct(pending', Queues)
      /\ Among(pending, Queues, Head(pending[q])) /\ Head(pending[q]) \in Blocks
      /\ \A a : Among(pending', Queues, a) <=> Among(pending, Queues, a) /\ a # Head(pending[q])
  BY <1>1, <1>2, BeheadedOnce
<1>4. PICK x \in Blocks : x = Head(pending[q])
  BY <1>3
<1>5. InQueue(x) /\ ~InCall(x) /\ ~InTimer(x) /\ ~Inside(x) /\ x \notin done /\ addr[x] # None
  <2>1. InQueue(x)
    BY <1>3, <1>4 DEF InQueue
  <2> QED
    BY <2>1 DEF OnePlaceInv, OneKind
<1>6. /\ Distinct(frames', Contexts)
      /\ \A a : Among(frames', Contexts, a) <=> Among(frames, Contexts, a) \/ a = x
  BY <1>1, <1>2, <1>4, <1>5, LongerOnce DEF Inside
<1>7. \A a \in Blocks : /\ InCall(a)' <=> InCall(a)
                        /\ InTimer(a)' <=> InTimer(a)
                        /\ InQueue(a)' <=> InQueue(a) /\ a # x
                        /\ Inside(a)' <=> Inside(a) \/ a = x
  BY <1>1, <1>3, <1>4, <1>6 DEF InCall, InTimer, InQueue, Inside
<1>8. \A a \in Blocks : OneKind(a)'
  BY <1>1, <1>5, <1>7 DEF OnePlaceInv, OneKind
<1> QED
  BY <1>1, <1>3, <1>6, <1>8 DEF OnePlaceInv

(* The block that returns is done instead of on a stack. *)
LEMMA OnePlaceReturn ==
    ASSUME OnePlaceInv, TypeOK', NEW c \in Contexts, Return(c)
    PROVE  OnePlaceInv'
<1>1. /\ frames[c] # <<>> /\ UNCHANGED <<pending, timers, call, addr>>
      /\ frames' = Shortened(frames, c)
      /\ done' = done \cup {frames[c][Len(frames[c])]}
  BY DEF Return, Shortened
<1>2. /\ frames \in [Contexts -> Seq(Blocks)] /\ frames' \in [Contexts -> Seq(Blocks)]
      /\ Distinct(frames, Contexts)
  BY DEF OnePlaceInv, TypeOK
<1>3. /\ Distinct(frames', Contexts)
      /\ Among(frames, Contexts, frames[c][Len(frames[c])]) /\ frames[c][Len(frames[c])] \in Blocks
      /\ \A a : Among(frames', Contexts, a) <=>
                    Among(frames, Contexts, a) /\ a # frames[c][Len(frames[c])]
  BY <1>1, <1>2, ShortenedOnce
<1>4. PICK x \in Blocks : x = frames[c][Len(frames[c])]
  BY <1>3
<1>5. Inside(x) /\ ~InCall(x) /\ ~InTimer(x) /\ ~InQueue(x) /\ x \notin done /\ addr[x] # None
  <2>1. Inside(x)
    BY <1>3, <1>4 DEF Inside
  <2> QED
    BY <2>1 DEF OnePlaceInv, OneKind
<1>6. \A a \in Blocks : /\ InCall(a)' <=> InCall(a)
                        /\ InTimer(a)' <=> InTimer(a)
                        /\ InQueue(a)' <=> InQueue(a)
                        /\ Inside(a)' <=> Inside(a) /\ a # x
                        /\ a \in done' <=> a \in done \/ a = x
  BY <1>1, <1>3, <1>4 DEF InCall, InTimer, InQueue, Inside, Among
<1>7. \A a \in Blocks : OneKind(a)'
  BY <1>1, <1>5, <1>6 DEF OnePlaceInv, OneKind
<1> QED
  BY <1>1, <1>3, <1>7 DEF OnePlaceInv

(* The steps that move no block. *)
LEMMA OnePlaceStill ==
    ASSUME OnePlaceInv, TypeOK', UNCHANGED <<pending, frames, call, timers, addr, done>>
    PROVE  OnePlaceInv'
BY DEF OnePlaceInv, OneKind, InCall, InTimer, InQueue, Inside, Among, Distinct, Elements

(* What the predicates say of the set Places. *)
LEMMA PlacesCounted ==
    ASSUME OnePlaceInv
    PROVE  ExactlyOnce
<1> SUFFICES ASSUME NEW b \in Blocks
             PROVE  Cardinality(Places(b)) = IF addr[b] = None THEN 0 ELSE 1
  BY DEF ExactlyOnce
<1> DEFINE C == {d \in Contexts : call[d] # None /\ call[d].block = b}
           T == {u \in timers : u.block = b}
           Q(q) == {k \in DOMAIN pending[q] : pending[q][k] = b}
           R(c) == {k \in DOMAIN frames[c] : frames[c][k] = b}
           PC == {<<"call", c>> : c \in C}
           PT == {<<"timer", t.queue>> : t \in T}
           PQ == UNION {{<<"queue", q, i>> : i \in Q(q)} : q \in Queues}
           PR == UNION {{<<"frame", c, i>> : i \in R(c)} : c \in Contexts}
           PD == {<<"done">> : x \in done \cap {b}}
<1>1. Places(b) = PC \cup PT \cup PQ \cup PR \cup PD
  BY DEF Places
<1>2. OneKind(b)
  BY DEF OnePlaceInv
<1>3. /\ ~InCall(b) => PC = {}
      /\ InCall(b) => \E p : PC = {p}
  <2>1. InCall(b) <=> \E c \in Contexts : c \in C
    BY DEF InCall
  <2>2. \A c, d \in C : c = d
    BY DEF OnePlaceInv
  <2> HIDE DEF C
  <2>3. ASSUME NEW c \in C PROVE PC = {<<"call", c>>}
    BY <2>2
  <2>4. C = {} => PC = {}
    OBVIOUS
  <2>5. C \subseteq Contexts
    BY DEF C
  <2> QED
    BY <2>1, <2>3, <2>4, <2>5
<1>4. /\ ~InTimer(b) => PT = {}
      /\ InTimer(b) => \E p : PT = {p}
  <2>1. InTimer(b) <=> \E t \in timers : t \in T
    BY DEF InTimer
  <2>2. \A t, u \in T : t = u
    BY DEF OnePlaceInv
  <2> HIDE DEF T
  <2>3. ASSUME NEW t \in T PROVE PT = {<<"timer", t.queue>>}
    BY <2>2
  <2>4. T = {} => PT = {}
    OBVIOUS
  <2>5. T \subseteq timers
    BY DEF T
  <2> QED
    BY <2>1, <2>3, <2>4, <2>5
<1>5. /\ ~InQueue(b) => PQ = {}
      /\ InQueue(b) => \E p : PQ = {p}
  <2>1. InQueue(b) <=> \E q \in Queues : \E i : i \in Q(q)
    BY DEF InQueue, Among, Elements
  <2>2. \A q, r \in Queues : \A i \in Q(q), j \in Q(r) : q = r /\ i = j
    BY DEF OnePlaceInv, Distinct
  <2> HIDE DEF Q
  <2>3. ASSUME NEW q \in Queues, NEW i \in Q(q) PROVE PQ = {<<"queue", q, i>>}
    BY <2>2
  <2>4. (\A q \in Queues : \A i : i \notin Q(q)) => PQ = {}
    OBVIOUS
  <2> QED
    BY <2>1, <2>3, <2>4
<1>6. /\ ~Inside(b) => PR = {}
      /\ Inside(b) => \E p : PR = {p}
  <2>1. Inside(b) <=> \E c \in Contexts : \E i : i \in R(c)
    BY DEF Inside, Among, Elements
  <2>2. \A c, d \in Contexts : \A i \in R(c), j \in R(d) : c = d /\ i = j
    BY DEF OnePlaceInv, Distinct
  <2> HIDE DEF R
  <2>3. ASSUME NEW c \in Contexts, NEW i \in R(c) PROVE PR = {<<"frame", c, i>>}
    BY <2>2
  <2>4. (\A c \in Contexts : \A i : i \notin R(c)) => PR = {}
    OBVIOUS
  <2> QED
    BY <2>1, <2>3, <2>4
<1>7. /\ b \notin done => PD = {}
      /\ b \in done => PD = {<<"done">>}
  OBVIOUS
<1> HIDE DEF PC, PT, PQ, PR, PD
<1>8. addr[b] = None => Places(b) = {}
  BY <1>1, <1>2, <1>3, <1>4, <1>5, <1>6, <1>7 DEF OneKind
<1>9. addr[b] # None => \E p : Places(b) = {p}
  BY <1>1, <1>2, <1>3, <1>4, <1>5, <1>6, <1>7 DEF OneKind
<1> QED
  BY <1>8, <1>9, FS_EmptySet, FS_Singleton

(* Every submitted block has one place in every state. *)
LEMMA OnePlaceAlways == Spec => []OnePlaceInv
<1>1. BusInit /\ TypeOK => OnePlaceInv
  BY DEF BusInit, OnePlaceInv, OneKind, InCall, InTimer, InQueue, Inside, Among, Distinct, Elements
<1>2. OnePlaceInv /\ TypeOK' /\ [Next]_busVars => OnePlaceInv'
  <2> SUFFICES ASSUME OnePlaceInv, TypeOK', [Next]_busVars PROVE OnePlaceInv'
    OBVIOUS
  <2>1. CASE \E c \in Contexts, b \in Blocks : CallsafeWhatEver(c, b)
    <3>1. ThreadWhatEver \in Threads /\ "callsafe" \in Methods
      BY BusAssumption DEF Methods
    <3> QED
      BY <2>1, <3>1, OnePlaceSubmit
  <2>2. CASE \E c \in Contexts, b \in Blocks, t \in Threads, m \in Methods : QueueOf(c, b, t, m)
    BY <2>2, OnePlaceSubmit
  <2>3. CASE \E c \in Contexts : Dispatch(c)
    BY <2>3, OnePlaceDispatch
  <2>4. CASE \E timer \in timers : Fire(timer)
    BY <2>4, OnePlaceFire
  <2>5. CASE \E q \in Queues : Run(q)
    BY <2>5, OnePlaceRun
  <2>6. CASE \E c \in Contexts : Return(c)
    BY <2>6, OnePlaceReturn
  <2>7. CASE \E c \in Contexts, t \in Threads, q \in Queues : SetQueue(c, t, q)
    BY <2>7, OnePlaceStill DEF SetQueue
  <2>8. CASE UNCHANGED busVars
    BY <2>8, OnePlaceStill DEF busVars
  <2> QED
    BY <2>1, <2>2, <2>3, <2>4, <2>5, <2>6, <2>7, <2>8 DEF Next
<1> QED
  BY <1>1, <1>2, TypeCorrect, PTL DEF Spec

(* No block is lost and none runs twice, whichever way it is submitted, for any
   table, any number of contexts, blocks and re-assignments: a method of the bus
   hands its block over to one place, and each place to one other. *)
THEOREM BlocksRunOnce == Spec => []ExactlyOnce
<1> QED
  BY OnePlaceAlways, PlacesCounted, PTL

-----------------------------------------------------------------------------
(* The order of a sender's blocks. A queue is first in, first out, but a block
   reaches it in two steps, by way of its method or of a timer, or not at all. *)

(* Two blocks of one sender that SubmissionOrder speaks of. *)
SameLine(a, b) ==
    /\ a < b
    /\ by[a] = by[b] /\ addr[a] = addr[b]
    /\ "postLater" \notin {how[a], how[b]}
    /\ ~(how[a] = "post" /\ OnTheSpot(by[b], b))

(* Blocks are submitted in the order of their numbers. *)
Numbered ==
    \A b \in Blocks :
        /\ addr[b] = None <=> by[b] = None
        /\ addr[b] # None => how[b] \in Methods /\ \A a \in 1..(b - 1) : addr[a] # None

(* A context that is inside a method of the bus submitted its block last. *)
LastOwn ==
    \A c \in Contexts : call[c] # None =>
        /\ by[call[c].block] = c
        /\ how[call[c].block] = "callsafe" => addr[call[c].block] # ThreadWhatEver
        /\ \A b \in Blocks : b > call[c].block => by[b] # c

(* A timer holds a block that was submitted by postLater. *)
TimersLater == \A timer \in timers : how[timer.block] = "postLater"

(* A queue holds no block that its sender would run on the spot. *)
QueuedOff == \A q \in Queues : \A b \in Elements(pending[q]) : ~OnTheSpot(by[b], b)

(* The blocks of one sender and index stand in a queue as they were submitted. *)
InLine ==
    \A q \in Queues : \A i, j \in DOMAIN pending[q] :
        SameLine(pending[q][i], pending[q][j]) => i < j

(* The inductive invariant, on top of IInv and OnePlaceInv: what is still ahead
   of a block of the same line is in the queue before it. *)
OrderInv == Numbered /\ LastOwn /\ TimersLater /\ QueuedOff /\ InLine

(* What orders two blocks is settled when both are submitted. *)
LEMMA LinesSettled ==
    ASSUME UNCHANGED <<addr, how, by>>
    PROVE  /\ \A a, b : SameLine(a, b)' => SameLine(a, b)
           /\ \A b : OnTheSpot(by[b], b)' <=> OnTheSpot(by[b], b)
  BY DEF SameLine, OnTheSpot, CallsInline, IsMainThread

(* A block that is queued goes behind those that are, and it was not before one
   of them. *)
LEMMA QueuedBehind ==
    ASSUME TypeOK, InLine, NEW q \in Queues, NEW b \in Blocks,
           pending' = Longer(pending, q, b),
           \A x, y : SameLine(x, y)' => SameLine(x, y),
           \A y \in Blocks : y \in Elements(pending[q]) => ~SameLine(b, y)
    PROVE  InLine'
<1> DEFINE n == Len(pending[q])
<1>1. /\ pending[q] \in Seq(Blocks) /\ pending'[q] = Append(pending[q], b)
      /\ \A p \in Queues : p # q => pending'[p] = pending[p]
  BY DEF TypeOK, Longer
<1>2. /\ DOMAIN pending[q] = 1..n /\ n \in Nat /\ DOMAIN pending'[q] = 1..(n + 1)
      /\ pending'[q][n + 1] = b
      /\ \A i \in 1..n : pending'[q][i] = pending[q][i] /\ pending[q][i] \in Blocks
  BY <1>1, SeqEnds
<1> HIDE DEF n
<1> SUFFICES ASSUME NEW p \in Queues, NEW i \in DOMAIN pending'[p], NEW j \in DOMAIN pending'[p],
                    NEW x, NEW y, x = pending'[p][i], y = pending'[p][j], SameLine(x, y)'
             PROVE  i < j
  BY DEF InLine, SameLine, OnTheSpot, CallsInline, IsMainThread
<1>3. SameLine(pending'[p][i], pending'[p][j])
  OBVIOUS
<1>4. CASE p # q  BY <1>1, <1>3, <1>4 DEF InLine
<1>5. CASE p = q
  <2>1. i \in 1..(n + 1) /\ j \in 1..(n + 1)  BY <1>2, <1>5
  <2>2. CASE i \in 1..n /\ j \in 1..n  BY <1>2, <1>3, <1>5, <2>2 DEF InLine
  <2>3. CASE i \in 1..n /\ j = n + 1  BY <1>2, <2>3
  <2>4. CASE i = n + 1
    <3>1. SameLine(b, pending'[q][j])  BY <1>2, <1>3, <1>5, <2>4
    <3>2. j # n + 1
      <4>1. ~SameLine(b, b)  BY DEF SameLine, Blocks
      <4> QED  BY <1>2, <3>1, <4>1
    <3>3. j \in 1..n  BY <1>2, <2>1, <3>2
    <3>4. pending'[q][j] \in Blocks /\ pending'[q][j] \in Elements(pending[q])
      BY <1>2, <3>3 DEF Elements
    <3> QED  BY <3>1, <3>4
  <2> QED  BY <1>2, <2>1, <2>2, <2>3, <2>4
<1> QED  BY <1>4, <1>5

(* The first of a queue leaves it. *)
LEMMA TakenFirst ==
    ASSUME TypeOK, InLine, NEW q \in Queues, pending[q] # <<>>, pending' = Beheaded(pending, q),
           \A x, y : SameLine(x, y)' => SameLine(x, y)
    PROVE  InLine'
<1> DEFINE n == Len(pending[q])
<1>1. /\ pending[q] \in Seq(Blocks) /\ pending'[q] = Tail(pending[q])
      /\ \A p \in Queues : p # q => pending'[p] = pending[p]
  BY DEF TypeOK, Beheaded
<1>2. /\ DOMAIN pending[q] = 1..n /\ n \in Nat /\ DOMAIN pending'[q] = 1..(n - 1)
      /\ \A i \in 1..(n - 1) : pending'[q][i] = pending[q][i + 1]
  BY <1>1, TailElements, SeqEnds
<1> HIDE DEF n
<1> SUFFICES ASSUME NEW p \in Queues, NEW i \in DOMAIN pending'[p], NEW j \in DOMAIN pending'[p],
                    NEW x, NEW y, x = pending'[p][i], y = pending'[p][j], SameLine(x, y)'
             PROVE  i < j
  BY DEF InLine, SameLine, OnTheSpot, CallsInline, IsMainThread
<1>3. SameLine(pending'[p][i], pending'[p][j])
  OBVIOUS
<1>4. CASE p # q  BY <1>1, <1>3, <1>4 DEF InLine
<1>5. CASE p = q
  <2>1. i \in 1..(n - 1) /\ j \in 1..(n - 1)  BY <1>2, <1>5
  <2>2. i + 1 \in DOMAIN pending[q] /\ j + 1 \in DOMAIN pending[q]  BY <1>2, <2>1
  <2>3. SameLine(pending[q][i + 1], pending[q][j + 1])  BY <1>2, <1>3, <1>5, <2>1
  <2>4. i + 1 < j + 1  BY <2>2, <2>3 DEF InLine
  <2> QED  BY <2>1, <2>4
<1> QED  BY <1>4, <1>5

(* Nothing is submitted at first. *)
LEMMA OrderInit == BusInit => OrderInv
<1> SUFFICES ASSUME BusInit PROVE OrderInv  OBVIOUS
<1>1. Numbered  BY DEF BusInit, Numbered
<1>2. LastOwn /\ TimersLater  BY DEF BusInit, LastOwn, TimersLater
<1>3. QueuedOff /\ InLine  BY DEF BusInit, QueuedOff, InLine, Elements
<1> QED  BY <1>1, <1>2, <1>3 DEF OrderInv

(* A submission concerns no block that is somewhere already. *)
LEMMA OrderSubmit ==
    ASSUME OnePlaceInv, OrderInv, NEW c \in Contexts, NEW b \in Blocks, NEW t \in Threads,
           NEW m \in Methods,
           CallsafeWhatEver(c, b) \/ QueueOf(c, b, t, m)
    PROVE  OrderInv'
<1>1. PICK s \in Threads, k \in Methods :
          /\ Submit(c, b, s, k)
          /\ QueueOf(c, b, t, m) => s = t /\ k = m
  BY BusAssumption DEF CallsafeWhatEver, QueueOf, Methods
<1>2. /\ call[c] = None /\ addr[b] = None /\ \A a \in 1..(b - 1) : addr[a] # None
      /\ addr' = [addr EXCEPT ![b] = s] /\ how' = [how EXCEPT ![b] = k]
      /\ by' = [by EXCEPT ![b] = c] /\ UNCHANGED <<retargets, timers, pending>>
  BY <1>1 DEF Submit, RunsClientCode, CallsafeWhatEver, QueueOf
<1>3. TypeOK /\ \A a \in Blocks : OneKind(a)  BY DEF OnePlaceInv
<1>4. /\ addr'[b] = s /\ how'[b] = k /\ by'[b] = c
      /\ \A a \in Blocks : a # b => addr'[a] = addr[a] /\ how'[a] = how[a] /\ by'[a] = by[a]
  BY <1>2, <1>3 DEF TypeOK
<1>6. \A a \in Blocks : InCall(a) \/ InTimer(a) \/ InQueue(a) => a # b
  BY <1>2, <1>3 DEF OneKind
<1>7. None \notin Contexts /\ None \notin Threads  BY BusAssumption DEF Contexts
<1>8. \A a \in Blocks : a > b => by[a] = None /\ addr[a] = None
  BY <1>2 DEF OrderInv, Numbered, Blocks
<1>9. Numbered'
  <2> SUFFICES ASSUME NEW a \in Blocks
               PROVE  /\ addr'[a] = None <=> by'[a] = None
                      /\ addr'[a] # None =>
                            how'[a] \in Methods /\ \A x \in 1..(a - 1) : addr'[x] # None
    BY DEF Numbered
  <2>1. CASE a = b
    <3>1. \A x \in 1..(b - 1) : x \in Blocks /\ x # b  BY BusAssumption DEF Blocks
    <3> QED  BY <1>2, <1>4, <1>7, <2>1, <3>1
  <2>2. CASE a # b
    <3>1. \A x \in 1..(a - 1) : x \in Blocks  BY BusAssumption DEF Blocks
    <3>2. \A x \in 1..(a - 1) : addr[x] # None => addr'[x] # None  BY <1>4, <1>7, <3>1
    <3> QED  BY <1>4, <2>2, <3>2 DEF OrderInv, Numbered
  <2> QED  BY <2>1, <2>2
<1>10. LastOwn'
  <2> SUFFICES ASSUME NEW d \in Contexts, call'[d] # None
               PROVE  /\ by'[call'[d].block] = d
                      /\ how'[call'[d].block] = "callsafe" => addr'[call'[d].block] # ThreadWhatEver
                      /\ \A a \in Blocks : a > call'[d].block => by'[a] # d
    BY DEF LastOwn
  <2>1. CASE call'[d] = call[d]
    <3>1. call[d] # None /\ call[d].block \in Blocks /\ d # c
      BY <1>2, <1>3, <2>1 DEF TypeOK
    <3>2. call[d].block # b  BY <1>6, <3>1 DEF InCall
    <3>3. /\ by[call[d].block] = d
          /\ how[call[d].block] = "callsafe" => addr[call[d].block] # ThreadWhatEver
          /\ \A a \in Blocks : a > call[d].block => by[a] # d
      BY <3>1 DEF OrderInv, LastOwn
    <3> QED  BY <1>4, <2>1, <3>1, <3>2, <3>3
  <2>2. CASE call'[d] # call[d]
    <3>1. QueueOf(c, b, t, m) /\ d = c /\ call'[c] = [block |-> b, queue |-> queues[t]]
      BY <1>3, <2>2 DEF CallsafeWhatEver, QueueOf, TypeOK
    <3>2. call'[d].block = b /\ s = t /\ k = m /\ (m = "callsafe" => t # ThreadWhatEver)
      BY <1>1, <3>1 DEF QueueOf
    <3>3. \A a \in Blocks : a > b => by'[a] # c
      BY <1>4, <1>7, <1>8 DEF Blocks
    <3> QED  BY <1>4, <3>1, <3>2, <3>3
  <2> QED  BY <2>1, <2>2
<1>11. TimersLater'
  <2> SUFFICES ASSUME NEW u \in timers PROVE how'[u.block] = "postLater"
    BY <1>2 DEF TimersLater
  <2>1. u.block \in Blocks /\ InTimer(u.block)  BY <1>3 DEF TypeOK, InTimer
  <2> QED  BY <1>4, <1>6, <2>1 DEF OrderInv, TimersLater
<1>12. \A q \in Queues : \A a \in Elements(pending[q]) :
           /\ a \in Blocks /\ a # b
           /\ addr'[a] = addr[a] /\ how'[a] = how[a] /\ by'[a] = by[a]
  <2> SUFFICES ASSUME NEW q \in Queues, NEW a \in Elements(pending[q]) PROVE a \in Blocks /\ a # b
    BY <1>4
  <2>1. a \in Blocks  BY <1>3 DEF TypeOK, Elements
  <2>2. InQueue(a)  BY DEF InQueue, Among
  <2> QED  BY <1>6, <2>1, <2>2
<1>13. QueuedOff'
  BY <1>2, <1>12 DEF OrderInv, QueuedOff, OnTheSpot, CallsInline, IsMainThread
<1>14. InLine'
  <2> SUFFICES ASSUME NEW q \in Queues, NEW i \in DOMAIN pending[q], NEW j \in DOMAIN pending[q],
                      SameLine(pending[q][i], pending[q][j])'
               PROVE  i < j
    BY <1>2 DEF InLine
  <2>1. pending[q][i] \in Elements(pending[q]) /\ pending[q][j] \in Elements(pending[q])
    BY DEF Elements
  <2>2. SameLine(pending[q][i], pending[q][j])
    BY <1>2, <1>12, <2>1 DEF SameLine, OnTheSpot, CallsInline, IsMainThread
  <2> QED  BY <2>2 DEF OrderInv, InLine
<1> QED  BY <1>9, <1>10, <1>11, <1>13, <1>14 DEF OrderInv

(* The block of a method leaves it: for the spot, if it was the last its sender
   submitted, for a timer, if it may be overtaken, or for the end of a queue. *)
LEMMA OrderDispatch ==
    ASSUME OnePlaceInv, OrderInv, NEW c \in Contexts, Dispatch(c)
    PROVE  OrderInv'
<1>1. PICK b \in Blocks, q \in Queues :
          /\ call[c] # None /\ call[c].block = b /\ call[c].queue = q
          /\ HandOver(c, b, q) /\ call' = [call EXCEPT ![c] = None]
  BY DEF Dispatch, OnePlaceInv, TypeOK
<1>2. UNCHANGED <<addr, how, by, retargets>>  BY DEF Dispatch
<1>4. /\ \A x, y : SameLine(x, y)' => SameLine(x, y)
      /\ \A x : OnTheSpot(by[x], x)' <=> OnTheSpot(by[x], x)
  BY <1>2, LinesSettled
<1>5. TypeOK  BY DEF OnePlaceInv
<1>6. /\ by[b] = c /\ (how[b] = "callsafe" => addr[b] # ThreadWhatEver)
      /\ \A a \in Blocks : a > b => by[a] # c
  BY <1>1 DEF OrderInv, LastOwn
<1>7. Numbered'  BY <1>2 DEF OrderInv, Numbered
<1>8. LastOwn'
  <2>1. \A d \in Contexts : call'[d] # None => call'[d] = call[d]  BY <1>1, <1>5 DEF TypeOK
  <2> QED  BY <1>2, <2>1 DEF OrderInv, LastOwn
<1>9. TimersLater'
  <2> SUFFICES ASSUME NEW u \in timers' PROVE how[u.block] = "postLater"
    BY <1>2 DEF TimersLater
  <2>1. u \in timers \/ (u.block = b /\ "timer" \in Routes(c, b))
    BY <1>1 DEF HandOver
  <2>2. "timer" \in Routes(c, b) => how[b] = "postLater"  BY DEF Routes
  <2> QED  BY <2>1, <2>2 DEF OrderInv, TimersLater
<1>10. CASE "queue" \in Routes(c, b)
  <2>1. pending' = Longer(pending, q, b)
    BY <1>1, <1>10 DEF HandOver, Enqueue, Longer
  <2>2. ~OnTheSpot(by[b], b)
    BY <1>6, <1>10 DEF Routes, OnTheSpot
  <2>3. \A p \in Queues : \A a \in Elements(pending'[p]) : a \in Elements(pending[p]) \/ a = b
    BY <1>5, <2>1, AppendElements DEF TypeOK, Longer
  <2>4. QueuedOff'  BY <1>4, <2>2, <2>3 DEF OrderInv, QueuedOff
  <2>5. \A y \in Blocks : ~SameLine(b, y)
    BY <1>6 DEF SameLine, Blocks
  <2>6. InLine'  BY <1>4, <1>5, <2>1, <2>5, QueuedBehind DEF OrderInv
  <2> QED  BY <1>7, <1>8, <1>9, <2>4, <2>6 DEF OrderInv
<1>11. CASE "queue" \notin Routes(c, b)
  <2>1. pending' = pending  BY <1>1, <1>11 DEF HandOver
  <2>2. QueuedOff' /\ InLine'
    BY <1>4, <2>1 DEF OrderInv, QueuedOff, InLine
  <2> QED  BY <1>7, <1>8, <1>9, <2>2 DEF OrderInv
<1> QED  BY <1>10, <1>11

(* A timer's block may be overtaken. *)
LEMMA OrderFire ==
    ASSUME OnePlaceInv, OrderInv, NEW timer \in timers, Fire(timer)
    PROVE  OrderInv'
<1>1. TypeOK /\ timer.block \in Blocks /\ timer.queue \in Queues
  BY DEF OnePlaceInv, TypeOK
<1>2. /\ UNCHANGED <<addr, how, by, retargets, call>> /\ timers' \subseteq timers
      /\ pending' = Longer(pending, timer.queue, timer.block)
  BY DEF Fire, Enqueue, Longer
<1>4. /\ \A x, y : SameLine(x, y)' => SameLine(x, y)
      /\ \A x : OnTheSpot(by[x], x)' <=> OnTheSpot(by[x], x)
  BY <1>2, LinesSettled
<1>5. how[timer.block] = "postLater"  BY DEF OrderInv, TimersLater
<1>6. Numbered' /\ LastOwn'  BY <1>2 DEF OrderInv, Numbered, LastOwn
<1>7. TimersLater'  BY <1>2 DEF OrderInv, TimersLater
<1>8. ~OnTheSpot(by[timer.block], timer.block)  BY <1>5 DEF OnTheSpot, CallsInline
<1>9. \A p \in Queues : \A a \in Elements(pending'[p]) :
          a \in Elements(pending[p]) \/ a = timer.block
  BY <1>1, <1>2, AppendElements DEF TypeOK, Longer
<1>10. QueuedOff'  BY <1>4, <1>8, <1>9 DEF OrderInv, QueuedOff
<1>11. \A y \in Blocks : ~SameLine(timer.block, y)  BY <1>5 DEF SameLine
<1>12. InLine'
  <2>1. InLine  BY DEF OrderInv
  <2> QED  BY <1>1, <1>2, <1>4, <1>11, <2>1, QueuedBehind
<1> QED  BY <1>6, <1>7, <1>10, <1>12 DEF OrderInv

(* A worker takes the first of its queue. *)
LEMMA OrderRun ==
    ASSUME OnePlaceInv, OrderInv, NEW q \in Queues, Run(q)
    PROVE  OrderInv'
<1>1. TypeOK /\ pending[q] # <<>>  BY DEF OnePlaceInv, Run
<1>2. /\ UNCHANGED <<addr, how, by, retargets, call, timers>> /\ pending' = Beheaded(pending, q)
  BY DEF Run, Beheaded
<1>4. /\ \A x, y : SameLine(x, y)' => SameLine(x, y)
      /\ \A x : OnTheSpot(by[x], x)' <=> OnTheSpot(by[x], x)
  BY <1>2, LinesSettled
<1>5. Numbered' /\ LastOwn' /\ TimersLater'
  BY <1>2 DEF OrderInv, Numbered, LastOwn, TimersLater
<1>6. \A p \in Queues : \A a \in Elements(pending'[p]) : a \in Elements(pending[p])
  BY <1>1, <1>2, TailElements DEF TypeOK, Beheaded
<1>7. QueuedOff'  BY <1>4, <1>6 DEF OrderInv, QueuedOff
<1>8. InLine'  BY <1>1, <1>2, <1>4, TakenFirst DEF OrderInv
<1> QED  BY <1>5, <1>7, <1>8 DEF OrderInv

(* The other steps leave what waits alone. *)
LEMMA OrderStill ==
    ASSUME OrderInv, UNCHANGED <<addr, how, by, call, timers, pending>>
    PROVE  OrderInv'
<1>1. /\ \A x, y : SameLine(x, y)' => SameLine(x, y)
      /\ \A x : OnTheSpot(by[x], x)' <=> OnTheSpot(by[x], x)
  BY LinesSettled
<1>2. Numbered' /\ LastOwn' /\ TimersLater'
  BY DEF OrderInv, Numbered, LastOwn, TimersLater
<1>3. QueuedOff' /\ InLine'
  BY <1>1 DEF OrderInv, QueuedOff, InLine
<1> QED  BY <1>2, <1>3 DEF OrderInv

(* What waits, waits in line. *)
LEMMA OrderAlways == Spec => []OrderInv
<1>1. OnePlaceInv /\ OrderInv /\ [Next]_busVars => OrderInv'
  <2> SUFFICES ASSUME OnePlaceInv, OrderInv, [Next]_busVars PROVE OrderInv'
    OBVIOUS
  <2>1. CASE \E c \in Contexts, b \in Blocks : CallsafeWhatEver(c, b)
    <3>1. ThreadWhatEver \in Threads /\ "callsafe" \in Methods
      BY BusAssumption DEF Methods
    <3> QED  BY <2>1, <3>1, OrderSubmit
  <2>2. CASE \E c \in Contexts, b \in Blocks, t \in Threads, m \in Methods : QueueOf(c, b, t, m)
    BY <2>2, OrderSubmit
  <2>3. CASE \E c \in Contexts : Dispatch(c)  BY <2>3, OrderDispatch
  <2>4. CASE \E timer \in timers : Fire(timer)  BY <2>4, OrderFire
  <2>5. CASE \E q \in Queues : Run(q)  BY <2>5, OrderRun
  <2>6. CASE \/ \E c \in Contexts : Return(c)
             \/ \E c \in Contexts, t \in Threads, q \in Queues : SetQueue(c, t, q)
             \/ UNCHANGED busVars
    <3>1. UNCHANGED <<addr, how, by, call, timers, pending>>
      BY <2>6 DEF Return, SetQueue, busVars
    <3> QED  BY <3>1, OrderStill
  <2> QED  BY <2>1, <2>2, <2>3, <2>4, <2>5, <2>6 DEF Next
<1> QED  BY <1>1, OrderInit, OnePlaceAlways, PTL DEF Spec

(* A block that is submitted later and has left its method leaves the earlier
   one where, if it has not started, only a queue holds it. *)
LEMMA EarlierWaits ==
    ASSUME OnePlaceInv, OrderInv, NEW a \in Blocks, NEW b \in Blocks, SameLine(a, b),
           addr[b] # None, ~Started(a)
    PROVE  InQueue(a)
<1>1. OneKind(a) /\ addr[a] # None
  BY DEF OnePlaceInv, SameLine
<1>2. ~InCall(a)
  <2> SUFFICES ASSUME NEW c \in Contexts, call[c] # None, call[c].block = a PROVE FALSE
    BY DEF InCall
  <2>1. by[a] = c /\ by[b] # c  BY DEF OrderInv, LastOwn, SameLine, Blocks
  <2> QED  BY <2>1 DEF SameLine
<1>3. ~InTimer(a)  BY DEF InTimer, OrderInv, TimersLater, SameLine
<1>4. ~Inside(a) /\ a \notin done  BY DEF Started, Inside, Among
<1> QED  BY <1>1, <1>2, <1>3, <1>4 DEF OneKind

(* Blocks of one sender for one index start in the order of their submission:
   those the bus sends to the queue queue up, and one that runs on the spot
   finds the earlier ones, which did too, started. *)
THEOREM FirstSentFirstStarted == Spec => SubmissionOrder
<1>1. ASSUME IInv, OnePlaceInv, OrderInv, Next, NEW a \in Blocks, NEW b \in Blocks,
             SameLine(a, b), SameQueue(a, b), ~Started(b), Started(b)'
      PROVE  Started(a)
  <2>1. TypeOK /\ \A x \in Blocks : OneKind(x)  BY <1>1 DEF OnePlaceInv
  <2>2. /\ Started(b) <=> Inside(b) \/ b \in done
        /\ Started(b)' <=> Inside(b)' \/ b \in done'
    BY DEF Started, Inside, Among
  <2>3. ASSUME NEW c \in Contexts, NEW x \in Blocks, EnterBlock(c, x), done' = done, b # x
        PROVE  FALSE
    <3>1. \A d \in Contexts : \A y \in Elements(frames'[d]) : y \in Elements(frames[d]) \/ y = x
      BY <2>1, <2>3, AppendElements DEF EnterBlock, TypeOK
    <3> QED  BY <1>1, <2>2, <2>3, <3>1 DEF Inside, Among
  <2>4. ~UNCHANGED <<frames, done>>
    BY <1>1 DEF Started, Elements
  <2>5. ASSUME NEW c \in Contexts, NEW x \in Blocks, CallsafeWhatEver(c, x) PROVE FALSE
    <3>1. EnterBlock(c, x) /\ done' = done /\ addr[x] = None /\ \A y \in 1..(x - 1) : addr[y] # None
      BY <2>5 DEF CallsafeWhatEver, Submit
    <3>2. b = x  BY <2>3, <3>1
    <3>3. a \in 1..(x - 1)  BY <1>1, <3>2 DEF SameLine, Blocks
    <3> QED  BY <1>1, <3>1, <3>2, <3>3 DEF SameLine
  <2>6. ASSUME NEW c \in Contexts, Dispatch(c) PROVE Started(a)
    <3>1. /\ call[c] # None /\ call[c].block \in Blocks /\ done' = done
          /\ HandOver(c, call[c].block, call[c].queue)
      BY <2>1, <2>6 DEF Dispatch, TypeOK
    <3>2. "here" \in Routes(c, call[c].block) /\ EnterBlock(c, call[c].block)
      BY <2>4, <3>1 DEF HandOver
    <3>3. call[c].block = b  BY <2>3, <3>1, <3>2
    <3>4. CallsInline(c, b) /\ by[b] = c
      BY <1>1, <3>1, <3>2, <3>3 DEF Routes, OrderInv, LastOwn
    <3>5. addr[b] # None
      <4>1. InCall(b)  BY <3>1, <3>3 DEF InCall
      <4> QED  BY <2>1, <4>1 DEF OneKind
    <3>6. SUFFICES ASSUME ~Started(a) PROVE FALSE  OBVIOUS
    <3>7. PICK q \in Queues : a \in Elements(pending[q])
      BY <1>1, <3>5, <3>6, EarlierWaits DEF InQueue, Among
    <3>8. ~OnTheSpot(by[a], a)  BY <1>1, <3>7 DEF OrderInv, QueuedOff
    <3>9. how[a] \in Methods /\ addr[a] = ThreadMain /\ by[a] = c /\ IsMainThread(c)
      BY <1>1, <3>4, <3>5 DEF SameLine, OrderInv, Numbered, CallsInline
    <3>10. how[a] # "callsafe"  BY <3>8, <3>9 DEF OnTheSpot, CallsInline
    <3>11. how[a] = "post"  BY <1>1, <3>9, <3>10 DEF Methods, SameLine
    <3> QED  BY <1>1, <3>4, <3>11 DEF SameLine, OnTheSpot
  <2>7. ASSUME NEW q \in Queues, Run(q) PROVE Started(a)
    <3>1. /\ EnterBlock(q, Head(pending[q])) /\ done' = done /\ q \in Contexts
          /\ pending[q] \in Seq(Blocks) /\ pending[q] # <<>>
      BY <2>1, <2>7 DEF Run, Contexts, TypeOK
    <3>2. Head(pending[q]) \in Blocks /\ Head(pending[q]) \in Elements(pending[q])
      BY <3>1, TailElements
    <3>3. b = Head(pending[q])  BY <2>3, <3>1, <3>2
    <3>4. BoundFor(b, q)  BY <1>1, <3>2, <3>3 DEF IInv
    <3>5. addr[b] # None  BY <3>4, BusAssumption DEF BoundFor
    <3>6. SUFFICES ASSUME ~Started(a) PROVE FALSE  OBVIOUS
    <3>7. PICK p \in Queues : a \in Elements(pending[p])
      BY <1>1, <3>5, <3>6, EarlierWaits DEF InQueue, Among
    <3>8. BoundFor(a, p)  BY <1>1, <3>7 DEF IInv
    <3>9. p = q
      <4>1. PICK k \in Queues : HadQueue(addr[a], k, since[a]) /\ HadQueue(addr[b], k, since[b])
        BY <1>1 DEF SameQueue
      <4>2. since[a] \in Nat /\ since[b] \in Nat  BY <2>1 DEF TypeOK
      <4>3. k = p /\ k = q  BY <3>4, <3>8, <4>1, <4>2, OneQueueAtATime DEF BoundFor
      <4> QED  BY <4>3
    <3>10. PICK i \in DOMAIN pending[q] : pending[q][i] = a  BY <3>7, <3>9 DEF Elements
    <3>11. 1 \in DOMAIN pending[q] /\ pending[q][1] = b /\ DOMAIN pending[q] = 1..Len(pending[q])
      BY <3>1, <3>2, <3>3, SeqEnds
    <3>12. i < 1  BY <1>1, <3>10, <3>11 DEF OrderInv, InLine
    <3> QED  BY <3>10, <3>11, <3>12
  <2>8. ASSUME NEW c \in Contexts, Return(c) PROVE FALSE
    <3>1. frames' = Shortened(frames, c) /\ frames[c] # <<>>
          /\ done' = done \cup {frames[c][Len(frames[c])]}
      BY <2>8 DEF Return, Shortened
    <3>2. /\ Among(frames, Contexts, frames[c][Len(frames[c])])
          /\ \A x : Among(frames', Contexts, x) => Among(frames, Contexts, x)
      <4>1. frames \in [Contexts -> Seq(Blocks)] /\ Distinct(frames, Contexts)
        BY <1>1 DEF OnePlaceInv, TypeOK
      <4> QED  BY <3>1, <4>1, ShortenedOnce
    <3> QED  BY <1>1, <2>2, <3>1, <3>2 DEF Inside
  <2> QED
    BY <1>1, <2>4, <2>5, <2>6, <2>7, <2>8 DEF Next, QueueOf, Submit, Fire, SetQueue
<1>2. IInv /\ OnePlaceInv /\ OrderInv /\ [Next]_busVars =>
          [\A a, b \in Blocks :
             ( /\ a < b
               /\ by[a] = by[b] /\ addr[a] = addr[b]
               /\ "postLater" \notin {how[a], how[b]}
               /\ ~(how[a] = "post" /\ OnTheSpot(by[b], b))
               /\ ~Started(b) /\ Started(b)'
               /\ SameQueue(a, b) ) => Started(a)]_busVars
  BY <1>1 DEF SameLine
<1> QED  BY <1>2, IInvAlways, OnePlaceAlways, OrderAlways, PTL DEF Spec, SubmissionOrder

-----------------------------------------------------------------------------
(* The notification center on the bus. *)

(* Every event, known or not, has a thread of the bus. *)
LEMMA EventThreads ==
    ASSUME ready \in BOOLEAN, NEW e \in Events
    PROVE  /\ ThreadOf(e) \in Threads
           /\ ready => ThreadOf(e) = EventThread[e] /\ EventThread[e] # ThreadWhatEver
           /\ ~ready => NameOf(e) = AnyName
           /\ ready => NameOf(e) = e
<1>1. CASE ~ready
  BY <1>1, BusAssumption DEF ThreadOf, NameOf
<1>2. CASE ready /\ e \in ByDefault
  BY <1>2, BusAssumption, NotificationAssumption DEF ThreadOf, NameOf
<1>3. CASE ready /\ e \notin ByDefault
  BY <1>3, NotificationAssumption DEF ThreadOf, NameOf
<1> QED  BY <1>1, <1>2, <1>3

(* What the center does is a step of the bus, or none. *)
LEMMA CenterStepOnBus ==
    ASSUME ready \in BOOLEAN, [NextNotification]_vars
    PROVE  [Next]_busVars
<1>1. ASSUME NEW c \in Contexts, NEW b \in Blocks, NEW e \in Events, Post(c, b, e)
      PROVE  Next
  <2>1. CASE CallsafeWhatEver(c, b)  BY <2>1 DEF Next
  <2>2. CASE QueueOf(c, b, ThreadOf(e), "callsafe")
    BY <2>2, EventThreads DEF Next, Methods
  <2> QED  BY <1>1, <2>1, <2>2 DEF Post
<1>2. ASSUME NEW c \in Contexts, BlockReturns(c) PROVE Next
  BY <1>2 DEF BlockReturns, Next
<1>3. ASSUME NEW c \in Contexts, BusStep(c) PROVE Next
  BY <1>3 DEF BusStep, Next
<1>4. CASE \/ Setup
           \/ \E c \in Contexts, o \in Observers, e \in Events : AddObserver(c, o, e)
           \/ \E c \in Contexts, o \in Observers : RemoveObserver(c, o)
           \/ \E c \in Contexts, o \in Observers, e \in Events : RemoveObserverFor(c, o, e)
           \/ \E c \in Contexts : Copy(c) \/ CallHandler(c) \/ HandlerReturns(c)
           \/ \E c \in Contexts, o \in Observers : BeginDealloc(c, o)
           \/ \E c \in Contexts : EndDealloc(c)
           \/ UNCHANGED vars
  BY <1>4 DEF Setup, AddObserver, RemoveObserver, RemoveObserverFor, Copy, CallHandler,
     HandlerReturns, BeginDealloc, EndDealloc, vars
<1> QED  BY <1>1, <1>2, <1>3, <1>4 DEF NextNotification

(* The types of the center are kept by every step. *)
LEMMA CenterTypeStep == CenterTypeOK /\ [NextNotification]_vars => CenterTypeOK'
<1> SUFFICES ASSUME CenterTypeOK, [NextNotification]_vars PROVE CenterTypeOK'
  OBVIOUS
<1> USE NotificationAssumption DEF CenterTypeOK
<1>1. CASE Setup  BY <1>1 DEF Setup, busVars
<1>2. ASSUME NEW c \in Contexts, NEW b \in Blocks, NEW e \in Events, Post(c, b, e)
      PROVE  CenterTypeOK'
  <2>1. NameOf(e) \in Events \cup {AnyName}  BY EventThreads
  <2> QED  BY <1>2, <2>1 DEF Post
<1>3. ASSUME NEW c \in Contexts, NEW o \in Observers, NEW e \in Events, AddObserver(c, o, e)
      PROVE  CenterTypeOK'
  <2>1. NameOf(e) \in Events \cup {AnyName}  BY EventThreads
  <2>2. [observer |-> o, name |-> NameOf(e)] \in Entry  BY <2>1 DEF Entry
  <2> QED  BY <1>3, <2>2 DEF AddObserver
<1>4. ASSUME NEW c \in Contexts, NEW o \in Observers, RemoveObserver(c, o)
      PROVE  CenterTypeOK'
  BY <1>4 DEF RemoveObserver, Forget
<1>5. ASSUME NEW c \in Contexts, NEW o \in Observers, NEW e \in Events,
             RemoveObserverFor(c, o, e)
      PROVE  CenterTypeOK'
  BY <1>5 DEF RemoveObserverFor, Forget
<1>6. ASSUME NEW c \in Contexts, Copy(c) PROVE CenterTypeOK'
  BY <1>6 DEF Copy
<1>7. ASSUME NEW c \in Contexts, CallHandler(c) PROVE CenterTypeOK'
  <2> DEFINE b == Innermost(c)
  <2>1. PICK x \in todo[b] :
          /\ todo' = [todo EXCEPT ![b] = @ \ {x}]
          /\ \/ /\ handling' = [handling EXCEPT ![b] = x.observer]
                /\ owed' = [owed EXCEPT ![b] = @ \ {x.observer}]
             \/ UNCHANGED <<handling, owed>>
    BY <1>7 DEF CallHandler
  <2>2. UNCHANGED <<busVars, ready, event, entries, life, dropping>> /\ todo[b] # None
    BY <1>7 DEF CallHandler
  <2> HIDE DEF b
  <2>3. b \in Blocks => x.observer \in Observers /\ todo[b] \ {x} \in SUBSET Entry
    BY <2>1, <2>2 DEF Entry
  <2>4. todo' \in [Blocks -> {None} \cup SUBSET Entry]  BY <2>1, <2>3
  <2>5. handling' \in [Blocks -> Observers \cup {None}]  BY <2>1, <2>3
  <2>6. owed' \in [Blocks -> SUBSET Observers]  BY <2>1
  <2> QED  BY <2>2, <2>4, <2>5, <2>6
<1>8. ASSUME NEW c \in Contexts, HandlerReturns(c) PROVE CenterTypeOK'
  BY <1>8 DEF HandlerReturns
<1>9. ASSUME NEW c \in Contexts, BlockReturns(c) \/ BusStep(c) PROVE CenterTypeOK'
  BY <1>9 DEF BlockReturns, BusStep, centerVars
<1>10. ASSUME NEW c \in Contexts, NEW o \in Observers, BeginDealloc(c, o) PROVE CenterTypeOK'
  BY <1>10 DEF BeginDealloc
<1>11. ASSUME NEW c \in Contexts, EndDealloc(c) PROVE CenterTypeOK'
  BY <1>11 DEF EndDealloc
<1>12. CASE UNCHANGED vars  BY <1>12 DEF vars, centerVars
<1> QED
  BY <1>1, <1>2, <1>3, <1>4, <1>5, <1>6, <1>7, <1>8, <1>9, <1>10, <1>11, <1>12
     DEF NextNotification

-----------------------------------------------------------------------------
(* What a step of the bus does to the stacks: a block that enters one had not
   been on any and had not returned, and one on a stack stays on it or returns. *)
LEMMA StackMoves ==
    ASSUME OnePlaceInv, [Next]_busVars
    PROVE  /\ \A c \in Contexts : \A b \in Elements(frames'[c]) :
                 b \in Elements(frames[c]) \/ (b \in Blocks /\ ~Inside(b) /\ b \notin done)
           /\ \A b \in Blocks : Inside(b) \/ b \in done => Inside(b)' \/ b \in done'
<1> DEFINE Goal ==
           /\ \A c \in Contexts : \A b \in Elements(frames'[c]) :
                 b \in Elements(frames[c]) \/ (b \in Blocks /\ ~Inside(b) /\ b \notin done)
           /\ \A b \in Blocks : Inside(b) \/ b \in done => Inside(b)' \/ b \in done'
<1>1. /\ frames \in [Contexts -> Seq(Blocks)] /\ Distinct(frames, Contexts)
      /\ \A b \in Blocks : OneKind(b)
  BY DEF OnePlaceInv, TypeOK
<1>2. ASSUME NEW d \in Contexts, NEW x \in Blocks, EnterBlock(d, x), done' = done,
             ~Inside(x), x \notin done
      PROVE  Goal
  <2>1. frames' = Longer(frames, d, x)  BY <1>2 DEF EnterBlock, Longer
  <2>2. \A a : Among(frames', Contexts, a) <=> Among(frames, Contexts, a) \/ a = x
    BY <1>1, <1>2, <2>1, LongerOnce DEF Inside
  <2>3. \A c \in Contexts : \A b \in Elements(frames'[c]) : b \in Elements(frames[c]) \/ b = x
    BY <1>1, <1>2, AppendElements DEF EnterBlock
  <2> QED  BY <1>2, <2>2, <2>3 DEF Inside
<1>3. CASE UNCHANGED <<frames, done>>
  BY <1>3 DEF Inside, Among, Elements
<1>4. ASSUME NEW c \in Contexts, NEW b \in Blocks, CallsafeWhatEver(c, b) PROVE Goal
  BY <1>1, <1>2, <1>4 DEF CallsafeWhatEver, Submit, OneKind
<1>5. ASSUME NEW c \in Contexts, Dispatch(c) PROVE Goal
  <2>1. /\ call[c] # None /\ call[c].block \in Blocks /\ done' = done
        /\ EnterBlock(c, call[c].block) \/ UNCHANGED frames
    BY <1>5 DEF Dispatch, HandOver, OnePlaceInv, TypeOK
  <2>2. ~Inside(call[c].block) /\ call[c].block \notin done
    BY <1>1, <2>1 DEF OneKind, InCall
  <2> QED  BY <1>2, <1>3, <2>1, <2>2
<1>6. ASSUME NEW q \in Queues, Run(q) PROVE Goal
  <2>1. /\ EnterBlock(q, Head(pending[q])) /\ done' = done /\ q \in Contexts
        /\ pending[q] \in Seq(Blocks) /\ pending[q] # <<>>
    BY <1>6 DEF Run, Contexts, OnePlaceInv, TypeOK
  <2>2. Head(pending[q]) \in Blocks /\ InQueue(Head(pending[q]))
    BY <2>1, TailElements DEF InQueue, Among
  <2>3. ~Inside(Head(pending[q])) /\ Head(pending[q]) \notin done
    BY <1>1, <2>2 DEF OneKind
  <2> QED  BY <1>2, <2>1, <2>2, <2>3
<1>7. ASSUME NEW d \in Contexts, Return(d) PROVE Goal
  <2>1. /\ frames' = Shortened(frames, d) /\ frames[d] # <<>>
        /\ done' = done \cup {frames[d][Len(frames[d])]}
    BY <1>7 DEF Return, Shortened
  <2>2. \A a : Among(frames', Contexts, a) <=>
                 Among(frames, Contexts, a) /\ a # frames[d][Len(frames[d])]
    BY <1>1, <2>1, ShortenedOnce
  <2>3. \A c \in Contexts : \A b \in Elements(frames'[c]) : b \in Elements(frames[c])
    BY <1>1, <1>7, FrontElements DEF Return
  <2> QED  BY <2>1, <2>2, <2>3 DEF Inside
<1> QED
  BY <1>3, <1>4, <1>5, <1>6, <1>7 DEF Next, QueueOf, Submit, Fire, SetQueue, busVars

(* What a block posts and where: its event is known from its post on, and a
   known event goes to the thread it is declared with. *)
Posted ==
    \A b \in Blocks :
        /\ addr[b] # None => event[b] # None
        /\ event[b] \in Events => addr[b] = EventThread[event[b]]

(* The entries are copied by a block that runs. *)
CopiedInside == \A b \in Blocks : todo[b] # None => Inside(b) \/ b \in done

(* The entries a block on the main thread has still to call match its event,
   and those of the observers the main thread manages are still in force. *)
StillRegistered ==
    \A b \in Elements(frames[MainQueue]) :
        todo[b] # None => \A x \in todo[b] :
            Matches(x, event[b]) /\ (x.observer \in UIObservers => x \in entries)

CenterInv ==
    /\ CenterTypeOK
    /\ retargets = <<>>
    /\ Posted /\ NoDanglingModule /\ CopiedInside /\ StillRegistered

(* Nothing has been posted, copied or registered at first. *)
LEMMA CenterInvInit == Init => CenterInv
<1> SUFFICES ASSUME Init PROVE CenterInv  OBVIOUS
<1>1. CenterTypeOK
  BY NotificationAssumption DEF Init, CenterTypeOK
<1>2. MainQueue \in Contexts
  BY BusAssumption DEF Contexts
<1> QED
  BY <1>1, <1>2, BusAssumption, NotificationAssumption
     DEF Init, BusInit, CenterInv, Posted, NoDanglingModule, CopiedInside, StillRegistered, Elements

(* The steps that change only the stacks and the fields of the bus. *)
LEMMA StacksOnly ==
    ASSUME CenterInv, OnePlaceInv, [Next]_busVars,
           UNCHANGED <<entries, event, todo, life, addr, retargets>>
    PROVE  /\ Posted' /\ NoDanglingModule' /\ CopiedInside' /\ StillRegistered'
<1>1. /\ \A b \in Elements(frames'[MainQueue]) :
            b \in Elements(frames[MainQueue]) \/ (b \in Blocks /\ ~Inside(b) /\ b \notin done)
      /\ \A b \in Blocks : Inside(b) \/ b \in done => Inside(b)' \/ b \in done'
  <2>1. MainQueue \in Contexts  BY BusAssumption DEF Contexts
  <2> QED  BY <2>1, StackMoves
<1>2. CopiedInside'  BY <1>1 DEF CenterInv, CopiedInside
<1>3. StillRegistered'
  BY <1>1 DEF CenterInv, CopiedInside, StillRegistered, Matches
<1> QED  BY <1>2, <1>3 DEF CenterInv, Posted, NoDanglingModule

(* A post says where its block goes and what it posts; the block had been
   nowhere. *)
LEMMA PostStep ==
    ASSUME CenterInv, IInv, OnePlaceInv, [Next]_busVars,
           NEW c \in Contexts, NEW p \in Blocks, NEW e \in Events, Post(c, p, e)
    PROVE  /\ retargets' = <<>>
           /\ Posted' /\ NoDanglingModule' /\ CopiedInside' /\ StillRegistered'
<1>1. /\ Submit(c, p, ThreadOf(e), "callsafe")
      /\ event' = [event EXCEPT ![p] = NameOf(e)]
      /\ UNCHANGED <<entries, todo, life>>
  BY DEF Post, CallsafeWhatEver, QueueOf
<1>2. /\ addr[p] = None /\ addr' = [addr EXCEPT ![p] = ThreadOf(e)] /\ retargets' = <<>>
      /\ addr \in [Blocks -> Threads \cup {None}]
      /\ event \in [Blocks -> Events \cup {AnyName, None}]
  BY <1>1 DEF Submit, CenterInv, IInv, TypeOK, CenterTypeOK
<1>3. /\ NameOf(e) # None
      /\ NameOf(e) \in Events => ThreadOf(e) = EventThread[NameOf(e)]
  BY EventThreads, NotificationAssumption DEF CenterInv, CenterTypeOK
<1>4. Posted'  BY <1>1, <1>2, <1>3 DEF CenterInv, Posted
<1>5. /\ \A b \in Elements(frames'[MainQueue]) :
            b \in Elements(frames[MainQueue]) \/ (b \in Blocks /\ ~Inside(b) /\ b \notin done)
      /\ \A b \in Blocks : Inside(b) \/ b \in done => Inside(b)' \/ b \in done'
  <2>1. MainQueue \in Contexts  BY BusAssumption DEF Contexts
  <2> QED  BY <2>1, StackMoves
<1>6. \A b \in Elements(frames[MainQueue]) : b \in Blocks /\ b # p /\ event'[b] = event[b]
  <2>1. MainQueue \in Contexts  BY BusAssumption DEF Contexts
  <2>2. \A b \in Elements(frames[MainQueue]) : b \in Blocks /\ addr[b] \in Threads
    BY <2>1 DEF IInv, TypeOK, Elements
  <2> QED  BY <1>1, <1>2, <2>2, BusAssumption
<1>7. CopiedInside'  BY <1>1, <1>5 DEF CenterInv, CopiedInside
<1>8. StillRegistered'
  BY <1>1, <1>5, <1>6 DEF CenterInv, CopiedInside, StillRegistered, Matches
<1> QED  BY <1>1, <1>2, <1>4, <1>7, <1>8 DEF CenterInv, NoDanglingModule

(* A registration is of an observer that is alive; an observer of the user
   interface is unregistered while the main thread is inside no block. *)
LEMMA RegistrationStep ==
    ASSUME CenterInv,
           UNCHANGED <<frames, done, addr, retargets, event, todo>>,
           \A x \in entries' : x \in entries \/ life[x.observer] = "alive",
           \A x \in entries' : x.observer \in Modules /\ life'[x.observer] = "gone" =>
                 life[x.observer] = "gone",
           \/ frames[MainQueue] = <<>>
           \/ \A x \in entries : x.observer \in UIObservers => x \in entries'
    PROVE  /\ retargets' = <<>>
           /\ Posted' /\ NoDanglingModule' /\ CopiedInside' /\ StillRegistered'
<1>1. Posted' /\ CopiedInside'
  BY DEF CenterInv, Posted, CopiedInside, Inside, Among, Elements
<1>2. NoDanglingModule'  BY DEF CenterInv, NoDanglingModule
<1>3. StillRegistered'
  <2>1. CASE frames[MainQueue] = <<>>  BY <2>1 DEF StillRegistered, Elements
  <2>2. CASE \A x \in entries : x.observer \in UIObservers => x \in entries'
    BY <2>2 DEF CenterInv, StillRegistered, Elements, Matches
  <2> QED  BY <2>1, <2>2
<1> QED  BY <1>1, <1>2, <1>3 DEF CenterInv

(* What a block copies, it copies as it is registered; then it only takes
   entries from the copy. *)
LEMMA CopyStep ==
    ASSUME CenterInv, IInv, NEW c \in Contexts, Copy(c) \/ CallHandler(c)
    PROVE  /\ retargets' = <<>>
           /\ Posted' /\ NoDanglingModule' /\ CopiedInside' /\ StillRegistered'
<1> DEFINE p == Innermost(c)
<1>1. /\ UNCHANGED <<busVars, event, entries, life>>
      /\ frames[c] # <<>> /\ frames[c] \in Seq(Blocks)
      /\ todo \in [Blocks -> {None} \cup SUBSET Entry]
  BY DEF Copy, CallHandler, IInv, TypeOK, CenterInv, CenterTypeOK
<1>2. p \in Blocks /\ p \in Elements(frames[c]) /\ Inside(p)
  <2>1. Len(frames[c]) \in DOMAIN frames[c] /\ p \in Blocks
    BY <1>1, FrontElements DEF Innermost
  <2> QED  BY <2>1 DEF Innermost, Elements, Inside, Among
<1>3. PICK new :
        /\ todo' = [todo EXCEPT ![p] = new]
        /\ \/ new = {x \in entries : Matches(x, event[p])}
           \/ todo[p] # None /\ new \subseteq todo[p]
  <2>1. CASE Copy(c)  BY <2>1 DEF Copy
  <2>2. CASE CallHandler(c)
    <3>1. PICK x \in todo[p] : todo' = [todo EXCEPT ![p] = todo[p] \ {x}]
      BY <2>2 DEF CallHandler
    <3> QED  BY <2>2, <3>1 DEF CallHandler
  <2> QED  BY <2>1, <2>2
<1> HIDE DEF p
<1>4. CopiedInside'
  BY <1>1, <1>2, <1>3 DEF CenterInv, CopiedInside, Inside, Among, Elements, busVars
<1>5. StillRegistered'
  <2> SUFFICES ASSUME NEW b \in Elements(frames[MainQueue]), todo'[b] # None,
                      NEW x \in todo'[b]
               PROVE  Matches(x, event[b]) /\ (x.observer \in UIObservers => x \in entries)
    BY <1>1 DEF StillRegistered, Elements, Matches, busVars
  <2>1. CASE b # p
    BY <1>1, <1>3, <2>1 DEF CenterInv, StillRegistered
  <2>2. CASE b = p
    <3>1. todo'[b] = new  BY <1>1, <1>2, <1>3, <2>2
    <3> QED  BY <1>3, <2>2, <3>1 DEF CenterInv, StillRegistered
  <2> QED  BY <2>1, <2>2
<1> QED  BY <1>1, <1>4, <1>5 DEF CenterInv, Posted, NoDanglingModule, busVars

(* Every step keeps CenterInv. *)
LEMMA CenterInvStep ==
    CenterInv /\ IInv /\ OnePlaceInv /\ [NextNotification]_vars => CenterInv'
<1> SUFFICES ASSUME CenterInv, IInv, OnePlaceInv, [NextNotification]_vars PROVE CenterInv'
  OBVIOUS
<1> DEFINE Goal == /\ retargets' = <<>>
                   /\ Posted' /\ NoDanglingModule' /\ CopiedInside' /\ StillRegistered'
<1>1. CenterTypeOK'  BY CenterTypeStep DEF CenterInv
<1>2. [Next]_busVars  BY CenterStepOnBus DEF CenterInv, CenterTypeOK
<1>3. ASSUME NEW c \in Contexts, NEW b \in Blocks, NEW e \in Events, Post(c, b, e)
      PROVE  Goal
  BY <1>2, <1>3, PostStep
<1>4. ASSUME NEW c \in Contexts, NEW o \in Observers, NEW e \in Events, AddObserver(c, o, e)
      PROVE  Goal
  BY <1>4, RegistrationStep DEF AddObserver, busVars
<1>5. ASSUME NEW c \in Contexts, NEW o \in Observers, MayManage(c, o),
             NEW gone \in SUBSET EntriesOf(o), entries' = entries \ gone,
             UNCHANGED <<busVars, event, todo, life>>
      PROVE  Goal
  <2>1. CASE o \in UIObservers
    <3>1. frames[MainQueue] = <<>>  BY <1>5, <2>1 DEF MayManage, IsMainThread
    <3> QED  BY <1>5, <3>1, RegistrationStep DEF busVars
  <2>2. CASE o \notin UIObservers
    <3>1. \A x \in entries : x.observer \in UIObservers => x \in entries'
      BY <1>5, <2>2 DEF EntriesOf
    <3> QED  BY <1>5, <3>1, RegistrationStep DEF busVars
  <2> QED  BY <2>1, <2>2
<1>6. ASSUME NEW c \in Contexts, NEW o \in Observers, RemoveObserver(c, o) PROVE Goal
  BY <1>5, <1>6 DEF RemoveObserver, Forget
<1>7. ASSUME NEW c \in Contexts, NEW o \in Observers, NEW e \in Events,
             RemoveObserverFor(c, o, e)
      PROVE  Goal
  <2> DEFINE gone == {x \in EntriesOf(o) : NameOf(e) \in {AnyName, x.name}}
  <2>1. gone \in SUBSET EntriesOf(o)  OBVIOUS
  <2>2. /\ entries' = entries \ gone /\ MayManage(c, o)
        /\ UNCHANGED <<busVars, event, todo, life>>
    BY <1>7 DEF RemoveObserverFor, Forget
  <2> HIDE DEF gone
  <2> QED  BY <1>5, <2>1, <2>2
<1>8. ASSUME NEW c \in Contexts, Copy(c) \/ CallHandler(c) PROVE Goal
  BY <1>8, CopyStep
<1>9. ASSUME NEW c \in Contexts, BlockReturns(c) \/ BusStep(c) PROVE Goal
  <2>1. UNCHANGED <<entries, event, todo, life, addr, retargets>>
    BY <1>9 DEF BlockReturns, BusStep, centerVars, Return, Dispatch, Run
  <2> QED  BY <1>2, <2>1, StacksOnly DEF CenterInv
<1>10. ASSUME NEW c \in Contexts, NEW o \in Observers, BeginDealloc(c, o) PROVE Goal
  <2>1. \A x \in entries : life'[x.observer] = "gone" => life[x.observer] = "gone"
    BY <1>10 DEF BeginDealloc, CenterInv, CenterTypeOK, Entry
  <2> QED  BY <1>10, <2>1, RegistrationStep DEF BeginDealloc, busVars
<1>11. ASSUME NEW c \in Contexts, EndDealloc(c) PROVE Goal
  <2> DEFINE o == dropping[c]
  <2>1. /\ o \in Observers /\ life' = [life EXCEPT ![o] = "gone"]
        /\ entries' = IF Unregisters(o) THEN entries \ EntriesOf(o) ELSE entries
        /\ UNCHANGED <<busVars, event, todo>>
    BY <1>11 DEF EndDealloc, CenterInv, CenterTypeOK
  <2> HIDE DEF o
  <2>2. \A x \in entries' : x.observer \in Modules => x.observer # o
    BY <2>1 DEF Unregisters, EntriesOf
  <2>3. \A x \in entries' : x \in entries /\ x.observer \in Observers
    BY <2>1 DEF CenterInv, CenterTypeOK, Entry
  <2>4. \A x \in entries' :
          x.observer \in Modules /\ life'[x.observer] = "gone" => life[x.observer] = "gone"
    BY <2>1, <2>2, <2>3 DEF CenterInv, CenterTypeOK
  <2>5. \A x \in entries : x.observer \in UIObservers => x \in entries'
    BY <2>1, NotificationAssumption DEF Unregisters, EntriesOf
  <2> QED  BY <2>1, <2>3, <2>4, <2>5, RegistrationStep DEF busVars
<1>12. ASSUME Setup \/ \E c \in Contexts : HandlerReturns(c) PROVE Goal
  <2>1. UNCHANGED <<entries, event, todo, life, addr, retargets>>
    BY <1>12 DEF Setup, HandlerReturns, busVars
  <2> QED  BY <1>2, <2>1, StacksOnly DEF CenterInv
<1>13. ASSUME UNCHANGED vars PROVE Goal
  <2>1. UNCHANGED <<entries, event, todo, life, addr, retargets>>
    BY <1>13 DEF vars, centerVars, busVars
  <2> QED  BY <1>2, <2>1, StacksOnly DEF CenterInv
<1> QED
  BY <1>1, <1>3, <1>4, <1>6, <1>7, <1>8, <1>9, <1>10, <1>11, <1>12, <1>13
     DEF NextNotification, CenterInv

(* The notification center uses the bus as the bus is meant to be used. *)
THEOREM CenterUsesBus == NotificationSpec => Spec
<1>1. Init => BusInit  BY DEF Init
<1>2. Init => CenterTypeOK  BY CenterInvInit DEF CenterInv
<1>3. CenterTypeOK /\ [NextNotification]_vars => [Next]_busVars
  BY CenterStepOnBus DEF CenterTypeOK
<1> QED  BY <1>1, <1>2, <1>3, CenterTypeStep, PTL DEF NotificationSpec, Spec

(* Both invariants hold in every state: the center's from the bus's. *)
LEMMA CenterAlways == NotificationSpec => []CenterInv /\ []IInv
  BY CenterUsesBus, IInvAlways, OnePlaceAlways, CenterInvInit, CenterInvStep, PTL
     DEF NotificationSpec

(* The registrations, the copies of them and the lives of observers keep their
   types, and no observer is deallocated twice. *)
THEOREM CenterTypes == NotificationSpec => []CenterTypeOK
<1>1. CenterInv => CenterTypeOK  BY DEF CenterInv
<1> QED  BY <1>1, CenterAlways, PTL

(* No module that is gone is still registered. *)
THEOREM ModulesUnregister == NotificationSpec => []NoDanglingModule
<1>1. CenterInv => NoDanglingModule  BY DEF CenterInv
<1> QED  BY <1>1, CenterAlways, PTL

(* A block that posts a known event is on the queue of its thread. *)
LEMMA PostedRunsThere ==
    ASSUME CenterInv, IInv, NEW c \in Contexts, NEW b \in Elements(frames[c]),
           event[b] # AnyName
    PROVE  b \in Blocks /\ event[b] \in Events /\ c = QueueAt[EventThread[event[b]]]
<1>1. b \in Blocks /\ addr[b] \in Threads  BY DEF IInv, TypeOK, Elements
<1>2. event[b] \in Events
  BY <1>1, BusAssumption DEF CenterInv, CenterTypeOK, Posted
<1>3. addr[b] = EventThread[event[b]] /\ addr[b] # ThreadWhatEver
  BY <1>1, <1>2, NotificationAssumption DEF CenterInv, Posted
<1>4. \A q : HadQueue(addr[b], q, since[b]) => q = QueueAt[addr[b]]
  <2>1. since[b] \in Nat /\ since[b] <= 0  BY <1>1 DEF CenterInv, IInv, TypeOK
  <2>2. 1..since[b] = {}  BY <2>1
  <2> QED  BY <2>2 DEF HadQueue
<1>5. QueueAt[ThreadMain] = MainQueue  BY BusAssumption
<1> QED  BY <1>1, <1>2, <1>3, <1>4, <1>5 DEF IInv, RunsOnItsThread

(* Every handler runs on the thread of its event. *)
THEOREM HandlersOnTheirThread == NotificationSpec => []HandlerOnEventThread
<1>1. CenterInv /\ IInv => HandlerOnEventThread
  BY PostedRunsThere DEF HandlerOnEventThread
<1> QED  BY <1>1, CenterAlways, PTL

(* Nothing reaches an observer of the user interface after its removal. *)
THEOREM RemovalIsFinal == NotificationSpec => NoLateHandler
<1> DEFINE Late(b) ==
        ( /\ event[b] \in Events /\ EventThread[event[b]] = ThreadMain
          /\ handling[b] = None /\ handling'[b] \in UIObservers )
        => \E x \in entries : x.observer = handling'[b] /\ Matches(x, event[b])
<1>1. ASSUME CenterInv, IInv, NextNotification, NEW b \in Blocks,
             event[b] \in Events, EventThread[event[b]] = ThreadMain,
             handling[b] = None, handling'[b] \in UIObservers
      PROVE  \E x \in entries : x.observer = handling'[b] /\ Matches(x, event[b])
  <2>1. handling'[b] # None /\ handling' # handling
    BY <1>1, NotificationAssumption DEF Observers
  <2>2. PICK c \in Contexts : CallHandler(c)
    <3>1. ASSUME NEW c \in Contexts, HandlerReturns(c) PROVE FALSE
      BY <1>1, <2>1, <3>1 DEF HandlerReturns, CenterInv, CenterTypeOK
    <3> QED
      BY <1>1, <2>1, <3>1 DEF NextNotification, Setup, Post, AddObserver, RemoveObserver,
         RemoveObserverFor, Copy, BlockReturns, BusStep, BeginDealloc, EndDealloc, centerVars
  <2>3. PICK x \in todo[b] : /\ b = Innermost(c) /\ frames[c] # <<>> /\ todo[b] # None
                              /\ handling'[b] = x.observer
    <3>1. PICK p, x : /\ p = Innermost(c) /\ frames[c] # <<>> /\ todo[p] # None
                      /\ x \in todo[p] /\ handling' = [handling EXCEPT ![p] = x.observer]
      BY <2>1, <2>2 DEF CallHandler
    <3>2. b = p  BY <1>1, <2>1, <3>1 DEF CenterInv, CenterTypeOK
    <3> QED  BY <1>1, <3>1, <3>2 DEF CenterInv, CenterTypeOK
  <2>4. b \in Elements(frames[c])
    <3>1. frames[c] \in Seq(Blocks)  BY <1>1 DEF IInv, TypeOK
    <3> QED  BY <2>3, <3>1 DEF Innermost, Elements
  <2>5. c = MainQueue
    <3>1. event[b] # AnyName  BY <1>1, NotificationAssumption
    <3> QED  BY <1>1, <2>4, <3>1, PostedRunsThere, BusAssumption
  <2>6. Matches(x, event[b]) /\ (x.observer \in UIObservers => x \in entries)
    BY <1>1, <2>3, <2>4, <2>5 DEF CenterInv, StillRegistered
  <2> QED  BY <1>1, <2>3, <2>6
<1>2. CenterInv /\ IInv /\ [NextNotification]_vars => [\A b \in Blocks : Late(b)]_vars
  BY <1>1
<1>3. NotificationSpec => [][\A b \in Blocks : Late(b)]_vars
  BY <1>2, CenterAlways, PTL DEF NotificationSpec
<1> QED  BY <1>3 DEF NoLateHandler
=============================================================================
