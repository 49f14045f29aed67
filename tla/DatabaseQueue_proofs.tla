------------------------ MODULE DatabaseQueue_proofs ------------------------
(***************************************************************************)
(* What becomes of the rows that the blocks of a queue write: for any      *)
(* number of blocks, of failures and of closes, what is rolled back is not *)
(* durable and what is committed is, but for the levels that are left      *)
(* open.                                                                   *)
(***************************************************************************)
EXTENDS DatabaseQueue, FMDatabase_proofs

(* The rows a connection holds back. *)
Rows(c) == IF c = None THEN {} ELSE AllWrites(c)

IsOpen == conn # None /\ conn # <<>>

LeftOpen == \E s \in Tasks : LeavesOpen(s)

(* Blocks run in the order in which they are submitted. *)
Order ==
    /\ \A s, t \in Tasks : s < t /\ kind[t] # None => kind[s] # None
    /\ \A i, j \in 1..Len(queue) :
           i < j /\ queue[i] \in Tasks /\ queue[j] \in Tasks => queue[i] < queue[j]
    /\ \A i \in 1..Len(queue) : queue[i] \in Tasks =>
           /\ running # None => running < queue[i]
           /\ \A s \in finished : s < queue[i]
    /\ running # None => \A s \in finished : s < running

(* What a block has asked for and what has failed at each of its steps. *)
Steps ==
    /\ \A t \in Tasks \ finished : t # running => asked[t] = None /\ failed[t] = {}
    /\ running # None =>
           /\ running \notin finished
           /\ step = "begin" => asked[running] = None /\ failed[running] = {}
           /\ step = "body" => asked[running] = None /\ failed[running] \subseteq {"begin"}
           /\ step = "end" =>
                 /\ asked[running] \in {"commit", "rollback"} /\ kind[running] \in {"tx", "sp"}
                 /\ failed[running] \subseteq {"begin", "body"}

(* Rows are of blocks whose body has run. *)
Written == finished \cup (IF running # None /\ step \in {"end", "done"} THEN {running} ELSE {})

Known == disk \cup Rows(conn) \subseteq Written

(* The level a savepoint block works in is the one on top. *)
OwnLevel ==
    /\ "begin" \notin failed[running] /\ IsOpen
    /\ conn[Len(conn)].name = running
    /\ Len(conn) # 1 => LeftOpen

(* Why there are levels: an earlier block has left them open, or the block that
   runs has opened one and, when done, leaves it. *)
Levels ==
    /\ running = None \/ step = "begin" => (IsOpen => LeftOpen)
    /\ running # None /\ step \in {"body", "end"} =>
           /\ kind[running] = "db" => (IsOpen => LeftOpen)
           /\ kind[running] = "tx" => (IsOpen => LeftOpen \/ "begin" \notin failed[running])
           /\ kind[running] = "sp" => OwnLevel
    /\ running # None /\ step = "done" /\ IsOpen =>
           \/ LeftOpen
           \/ /\ kind[running] \in {"tx", "sp"} /\ "begin" \notin failed[running]
              /\ \/ "end" \in failed[running]
                 \/ kind[running] = "sp" /\ asked[running] = "rollback"

(* Where the row of a block is before its last statement. *)
OwnRow ==
    running # None /\ step = "end" =>
        /\ running \in disk => ~IsOpen
        /\ "body" \notin failed[running] => running \in disk \cup Rows(conn)
        /\ kind[running] = "sp" => \A i \in 1..(Len(conn) - 1) : running \notin conn[i].writes

(* What was rolled back will not become durable, what was committed is. *)
Settled(t) ==
    /\ asked[t] = "rollback" /\ "end" \notin failed[t] => t \notin disk \cup Rows(conn)
    /\ asked[t] = "commit" /\ failed[t] \cap {"body", "end"} = {}
           => t \in disk \/ \E s \in Tasks : s < t /\ LeavesOpen(s)

AllSettled ==
    /\ \A t \in finished : Settled(t)
    /\ running # None /\ step = "done" => Settled(running)

QInv == TypeOK /\ closes \in Nat /\ Order /\ Steps /\ Known /\ Levels /\ OwnRow /\ AllSettled

-----------------------------------------------------------------------------
(* What is added to the queue. *)
LEMMA Queued ==
    ASSUME NEW S, NEW q \in Seq(S), NEW x \in S
    PROVE  LET l == Append(q, x)
           IN  /\ l \in Seq(S) /\ Len(l) = Len(q) + 1 /\ Len(q) \in Nat
               /\ \A i \in 1..Len(q) : l[i] = q[i]
               /\ l[Len(l)] = x
               /\ Elements(l) = Elements(q) \cup {x}
<1> DEFINE l == Append(q, x)
<1>1. /\ l \in Seq(S) /\ Len(l) = Len(q) + 1 /\ Len(q) \in Nat
      /\ \A i \in 1..Len(q) : l[i] = q[i]
      /\ l[Len(l)] = x
  BY AppendProperties, LenProperties
<1> HIDE DEF l
<1>2. DOMAIN l = 1..Len(l) /\ DOMAIN q = 1..Len(q)  BY <1>1, LenProperties
<1>3. \A i \in 1..Len(l) : i \in 1..Len(q) \/ i = Len(l)  BY <1>1
<1>4. \A i \in 1..Len(q) : i \in 1..Len(l)  BY <1>1
<1>5. Len(l) \in 1..Len(l)  BY <1>1
<1>6. Elements(l) = Elements(q) \cup {x}
  BY <1>1, <1>2, <1>3, <1>4, <1>5 DEF Elements
<1> QED  BY <1>1, <1>6 DEF l

(* What is taken from it. *)
LEMMA Dequeued ==
    ASSUME NEW S, NEW q \in Seq(S), q # <<>>
    PROVE  /\ Tail(q) \in Seq(S) /\ Len(Tail(q)) = Len(q) - 1 /\ Len(q) \in Nat
           /\ Head(q) \in S /\ Head(q) = q[1] /\ 1 \in 1..Len(q)
           /\ \A i \in 1..Len(Tail(q)) : Tail(q)[i] = q[i + 1] /\ i + 1 \in 1..Len(q)
           /\ Elements(q) = Elements(Tail(q)) \cup {Head(q)}
<1> DEFINE t == Tail(q)
<1>1. Len(q) \in Nat /\ Len(q) # 0
  <2>1. Len(q) \in Nat \ {0}  BY EmptySeq
  <2> QED  BY <2>1
<1>2. /\ t \in Seq(S) /\ Len(t) = Len(q) - 1 /\ Head(q) \in S /\ Head(q) = q[1]
      /\ \A i \in 1..Len(t) : t[i] = q[i + 1]
  BY HeadTailProperties
<1> HIDE DEF t
<1>3. DOMAIN t = 1..Len(t) /\ DOMAIN q = 1..Len(q)  BY <1>2, LenProperties
<1>4. 1 \in 1..Len(q) /\ \A i \in 1..Len(t) : i + 1 \in 1..Len(q)  BY <1>1, <1>2
<1>5. \A i \in 1..Len(q) : i = 1 \/ (i - 1 \in 1..Len(t) /\ (i - 1) + 1 = i)  BY <1>1, <1>2
<1>6. Elements(q) = Elements(t) \cup {Head(q)}
  <2>1. ASSUME NEW x \in Elements(q) PROVE x \in Elements(t) \cup {Head(q)}
    <3>1. PICK i \in 1..Len(q) : x = q[i]  BY <1>3, <2>1 DEF Elements
    <3>2. CASE i = 1  BY <1>2, <3>1, <3>2
    <3>3. CASE i # 1
      <4>1. i - 1 \in 1..Len(t) /\ t[i - 1] = q[i]  BY <1>2, <1>5, <3>3
      <4> QED  BY <1>3, <3>1, <4>1 DEF Elements
    <3> QED  BY <3>2, <3>3
  <2>2. \A x \in Elements(t) : x \in Elements(q)  BY <1>2, <1>3, <1>4 DEF Elements
  <2>3. Head(q) \in Elements(q)  BY <1>2, <1>3, <1>4 DEF Elements
  <2> QED  BY <2>1, <2>2, <2>3
<1> QED  BY <1>1, <1>2, <1>4, <1>6 DEF t

(* Blocks are positive, closes negative. *)
LEMMA TasksAndCloses ==
    /\ Tasks \cap Closes = {} /\ Names = Tasks /\ None \notin Tasks /\ None \notin Kinds
    /\ Tasks \subseteq Int /\ \A t \in Tasks : t # None
    /\ None \notin {"commit", "rollback"} /\ None \notin Seq(Level) /\ None # <<>>
<1>1. Tasks \cap Closes = {} /\ Tasks \subseteq Int  BY QueueAssumption DEF Tasks, Closes
<1>2. None \notin Seq(Level) /\ None \notin {"commit", "rollback"}  BY QueueAssumption
<1>3. None # <<>>  BY <1>2, NoLevels
<1>4. None \notin Tasks /\ None \notin Kinds /\ Names = Tasks  BY QueueAssumption DEF Kinds
<1> QED  BY <1>1, <1>2, <1>3, <1>4

(* A queue begins with nothing. *)
LEMMA QInvInit == Init => QInv
<1> SUFFICES ASSUME Init PROVE QInv  OBVIOUS
<1>1. queue \in Seq(Tasks \cup Closes) /\ Len(queue) = 0 /\ Elements(queue) = {}
  BY DEF Init, Elements
<1>2. TypeOK  BY <1>1, NoLevels, TasksAndCloses DEF Init, TypeOK
<1>3. Order  BY <1>1, TasksAndCloses DEF Init, Order
<1>4. Rows(conn) = {}  BY NoLevels DEF Init, Rows
<1>5. Steps /\ Known  BY <1>4 DEF Init, Steps, Known
<1>6. Levels /\ OwnRow /\ AllSettled  BY DEF Init, Levels, OwnRow, AllSettled, IsOpen
<1> QED  BY <1>2, <1>3, <1>5, <1>6 DEF QInv, Init

(* Which blocks leave a level open is settled when they are done. *)
LEMMA LeftStays ==
    ASSUME UNCHANGED finished,
           \A s \in finished : kind'[s] = kind[s] /\ asked'[s] = asked[s] /\ failed'[s] = failed[s]
    PROVE  (\A s \in Tasks : LeavesOpen(s)' <=> LeavesOpen(s)) /\ (LeftOpen' <=> LeftOpen)
BY DEF LeavesOpen, LeftOpen

(* A block or a close is put into the queue. *)
LEMMA QInvQueued ==
    ASSUME QInv,
           NEW x \in Tasks \cup Closes, queue' = Append(queue, x),
           kind' \in [Tasks -> Kinds \cup {None}],
           inside' \in [Tasks -> Tasks \cup {None}],
           closes' \in Nat,
           \A t \in Tasks : t # x => kind'[t] = kind[t],
           x \in Tasks => /\ kind[x] = None /\ kind'[x] # None
                          /\ \A s \in 1..(x - 1) : kind[s] # None,
           UNCHANGED <<conn, disk, running, step, asked, failed, finished>>
    PROVE  QInv'
<1>1. TypeOK /\ Order  BY DEF QInv
<1>2. /\ queue' \in Seq(Tasks \cup Closes) /\ Len(queue') = Len(queue) + 1 /\ Len(queue) \in Nat
      /\ \A i \in 1..Len(queue) : queue'[i] = queue[i]
      /\ queue'[Len(queue')] = x
      /\ Elements(queue') = Elements(queue) \cup {x}
  BY <1>1, Queued DEF TypeOK
<1> DEFINE made == {t \in Tasks : kind[t] # None}
<1>3. made = (Elements(queue) \cap Tasks) \cup ({running} \ {None}) \cup finished
  BY <1>1 DEF TypeOK
<1>4. x \in Tasks => x \notin made /\ x # running /\ x \notin finished
  BY <1>3, TasksAndCloses
<1>5. {t \in Tasks : kind'[t] # None} = made \cup ({x} \cap Tasks)
  BY <1>4
<1>6. TypeOK'
  <2>1. {t \in Tasks : kind'[t] # None}
            = (Elements(queue') \cap Tasks) \cup ({running} \ {None}) \cup finished
    BY <1>2, <1>3, <1>5
  <2> QED  BY <1>1, <1>2, <2>1 DEF TypeOK
<1>7. \A i \in 1..Len(queue') : i \in 1..Len(queue) \/ i = Len(queue')  BY <1>2
<1>8. \A s \in made : x \in Tasks => s < x
  <2> SUFFICES ASSUME NEW s \in made, x \in Tasks, ~(s < x) PROVE FALSE  OBVIOUS
  <2>1. s # x /\ s \in Tasks /\ x < s  BY <1>4, TasksAndCloses
  <2>2. kind[x] # None  BY <1>1, <2>1 DEF Order
  <2> QED  BY <1>4, <2>2
<1>9. \A i \in 1..Len(queue) : queue[i] \in Tasks => queue[i] \in made
  <2>1. \A i \in 1..Len(queue) : queue[i] \in Elements(queue)
    BY <1>1 DEF TypeOK, Elements
  <2> QED  BY <1>3, <2>1
<1>10. Order'
  <2>1. ASSUME NEW s \in Tasks, NEW t \in Tasks, s < t, kind'[t] # None
        PROVE  kind'[s] # None
    <3>1. CASE t = x
      <4>1. s \in 1..(x - 1)  BY <2>1, <3>1 DEF Tasks
      <4> QED  BY <2>1, <3>1, <4>1
    <3>2. CASE t # x
      <4>1. kind[t] # None  BY <2>1, <3>2
      <4>2. kind[s] # None  BY <1>1, <2>1, <4>1 DEF Order
      <4> QED  BY <2>1, <4>2
    <3> QED  BY <3>1, <3>2
  <2>2. ASSUME NEW i \in 1..Len(queue'), NEW j \in 1..Len(queue'), i < j,
               queue'[i] \in Tasks, queue'[j] \in Tasks
        PROVE  queue'[i] < queue'[j]
    <3>1. i \in 1..Len(queue)  BY <1>2, <1>7, <2>2
    <3>2. CASE j \in 1..Len(queue)  BY <1>1, <1>2, <2>2, <3>1, <3>2 DEF Order
    <3>3. CASE j = Len(queue')
      <4>1. queue[i] \in made /\ queue'[i] = queue[i]  BY <1>2, <1>9, <2>2, <3>1
      <4> QED  BY <1>2, <1>8, <2>2, <3>3, <4>1
    <3> QED  BY <1>7, <3>2, <3>3
  <2>3. ASSUME NEW i \in 1..Len(queue'), queue'[i] \in Tasks
        PROVE  /\ running # None => running < queue'[i]
               /\ \A s \in finished : s < queue'[i]
    <3>1. CASE i \in 1..Len(queue)  BY <1>1, <1>2, <2>3, <3>1 DEF Order
    <3>2. CASE i = Len(queue')
      <4>1. queue'[i] = x /\ x \in Tasks  BY <1>2, <2>3, <3>2
      <4>2. (running # None => running \in made) /\ finished \subseteq made  BY <1>3
      <4> QED  BY <1>8, <4>1, <4>2
    <3> QED  BY <1>7, <3>1, <3>2
  <2>4. running # None => \A s \in finished : s < running  BY <1>1 DEF Order
  <2> QED  BY <2>1, <2>2, <2>3, <2>4 DEF Order
<1>11. /\ running # None => running \in Tasks /\ kind'[running] = kind[running]
       /\ \A s \in finished : s \in Tasks /\ kind'[s] = kind[s]
  BY <1>1, <1>4 DEF TypeOK
<1>12. (\A s \in Tasks : LeavesOpen(s)' <=> LeavesOpen(s)) /\ (LeftOpen' <=> LeftOpen)
  BY <1>11, LeftStays
<1>13. Steps'  BY <1>11 DEF QInv, Steps
<1>14. Known'  BY DEF QInv, Known, Rows, Written
<1>15. Levels'  BY <1>11, <1>12 DEF QInv, Levels, OwnLevel, IsOpen
<1>16. OwnRow'  BY <1>11 DEF QInv, OwnRow, IsOpen, Rows
<1>17. AllSettled'  BY <1>12 DEF QInv, AllSettled, Settled, Rows
<1> QED  BY <1>6, <1>10, <1>13, <1>14, <1>15, <1>16, <1>17 DEF QInv

(* A block or a close is taken from it. *)
LEMMA QInvTaken ==
    ASSUME QInv, running = None, queue # <<>>, queue' = Tail(queue),
           \/ /\ Head(queue) \in Tasks /\ running' = Head(queue) /\ step' = "begin" /\ conn' = conn
           \/ /\ Head(queue) \in Closes /\ running' = None /\ step' = step /\ conn' = None,
           UNCHANGED <<disk, kind, inside, asked, failed, finished, closes>>
    PROVE  QInv'
<1> DEFINE h == Head(queue)
<1>1. TypeOK /\ Order /\ Steps  BY DEF QInv
<1>2. /\ queue' \in Seq(Tasks \cup Closes) /\ Len(queue') = Len(queue) - 1 /\ Len(queue) \in Nat
      /\ h \in Tasks \cup Closes /\ h = queue[1] /\ 1 \in 1..Len(queue)
      /\ \A i \in 1..Len(queue') : queue'[i] = queue[i + 1] /\ i + 1 \in 1..Len(queue)
      /\ Elements(queue) = Elements(queue') \cup {h}
  BY <1>1, Dequeued DEF TypeOK
<1> HIDE DEF h
<1>3. h \in Tasks => running' = h /\ step' = "begin" /\ conn' = conn
  BY TasksAndCloses DEF h
<1>4. h \notin Tasks => running' = None /\ step' = step /\ conn' = None
  BY TasksAndCloses DEF h
<1>5. TypeOK'
  <2>1. (Elements(queue) \cap Tasks) \cup ({running} \ {None}) \cup finished
            = (Elements(queue') \cap Tasks) \cup ({running'} \ {None}) \cup finished
    BY <1>2, <1>3, <1>4, TasksAndCloses
  <2>2. conn' # None => conn' \in Seq(Level)  BY <1>1, <1>3, <1>4 DEF TypeOK
  <2>3. running' \in Tasks \cup {None} /\ step' \in {"begin", "body", "end", "done"}
    BY <1>1, <1>3, <1>4 DEF TypeOK
  <2> QED  BY <1>1, <1>2, <2>1, <2>2, <2>3 DEF TypeOK
<1>6. h \in Tasks => h \notin finished
  <2>1. h \in Tasks => \A s \in finished : s < h  BY <1>1, <1>2 DEF Order
  <2> QED  BY <2>1, TasksAndCloses
<1>7. Order'
  <2>1. \A i \in 1..Len(queue') : 1 < i + 1  BY <1>2
  <2>2. \A i, j \in 1..Len(queue') : i < j => i + 1 < j + 1  BY <1>2
  <2>3. \A i, j \in 1..Len(queue') :
            i < j /\ queue'[i] \in Tasks /\ queue'[j] \in Tasks => queue'[i] < queue'[j]
    BY <1>1, <1>2, <2>2 DEF Order
  <2>4. ASSUME NEW i \in 1..Len(queue'), queue'[i] \in Tasks
        PROVE  /\ running' # None => running' < queue'[i]
               /\ \A s \in finished : s < queue'[i]
    <3>1. i + 1 \in 1..Len(queue) /\ queue'[i] = queue[i + 1] /\ 1 < i + 1  BY <1>2, <2>1
    <3>2. h \in Tasks => h < queue[i + 1]  BY <1>1, <1>2, <2>4, <3>1 DEF Order
    <3> QED  BY <1>1, <1>3, <1>4, <2>4, <3>1, <3>2 DEF Order
  <2>5. running' # None => \A s \in finished : s < running'
    BY <1>1, <1>2, <1>3, <1>4 DEF Order
  <2> QED  BY <1>1, <2>3, <2>4, <2>5 DEF Order
<1>8. \A t \in Tasks : (t \notin finished) => asked[t] = None /\ failed[t] = {}
  BY <1>1, TasksAndCloses DEF Steps
<1>9. Steps'  BY <1>3, <1>4, <1>6, <1>8 DEF Steps
<1>10. Known'
  <2>1. Rows(conn') \subseteq Rows(conn)  BY <1>3, <1>4 DEF Rows
  <2>2. Written' = Written  BY <1>3, <1>4 DEF Written
  <2> QED  BY <2>1, <2>2 DEF QInv, Known
<1>11. (\A s \in Tasks : LeavesOpen(s)' <=> LeavesOpen(s)) /\ (LeftOpen' <=> LeftOpen)
  BY LeftStays
<1>12. Levels'
  <2>1. IsOpen => LeftOpen  BY DEF QInv, Levels
  <2>2. IsOpen' => IsOpen  BY <1>3, <1>4 DEF IsOpen
  <2>3. running' = None \/ step' = "begin"  BY <1>3, <1>4
  <2> QED  BY <1>11, <2>1, <2>2, <2>3 DEF Levels
<1>13. OwnRow'  BY <1>3, <1>4 DEF OwnRow
<1>14. AllSettled'
  <2>1. Rows(conn') \subseteq Rows(conn)  BY <1>3, <1>4 DEF Rows
  <2>2. \A t \in finished : Settled(t)'  BY <1>11, <2>1 DEF QInv, AllSettled, Settled
  <2> QED  BY <1>3, <1>4, <2>2 DEF AllSettled
<1> QED  BY <1>5, <1>7, <1>9, <1>10, <1>12, <1>13, <1>14 DEF QInv

(* The block that runs returns. *)
LEMMA QInvFinish ==
    ASSUME QInv, Finish
    PROVE  QInv'
<1>1. TypeOK /\ Order /\ Steps /\ running # None /\ step = "done"
  BY DEF QInv, Finish
<1>2. /\ finished' = finished \cup {running} /\ running' = None
      /\ UNCHANGED <<queue, conn, disk, step, kind, inside, asked, failed, closes, failures>>
      /\ running \in Tasks
  BY <1>1 DEF Finish, TypeOK
<1>3. TypeOK'
  <2>1. (Elements(queue) \cap Tasks) \cup ({running} \ {None}) \cup finished
            = (Elements(queue') \cap Tasks) \cup ({running'} \ {None}) \cup finished'
    BY <1>1, <1>2
  <2> QED  BY <1>1, <1>2, <2>1 DEF TypeOK
<1>4. Order'  BY <1>1, <1>2 DEF Order
<1>5. Steps'  BY <1>1, <1>2 DEF Steps
<1>6. Known'  BY <1>1, <1>2 DEF QInv, Known, Written, Rows
<1>7. \A s \in Tasks : LeavesOpen(s) => LeavesOpen(s)'  BY <1>2 DEF LeavesOpen
<1>8. Levels'
  <2>1. PICK r \in Tasks : r = running  BY <1>2
  <2>2. IsOpen => LeftOpen \/ LeavesOpen(r)'
    BY <1>1, <1>2, <2>1 DEF QInv, Levels, LeavesOpen
  <2>3. IsOpen => LeftOpen'  BY <1>7, <2>1, <2>2 DEF LeftOpen
  <2> QED  BY <1>2, <2>3 DEF Levels, IsOpen
<1>9. OwnRow'  BY <1>2 DEF OwnRow
<1>10. AllSettled'  BY <1>1, <1>2, <1>7 DEF QInv, AllSettled, Settled, Rows
<1> QED  BY <1>2, <1>3, <1>4, <1>5, <1>6, <1>8, <1>9, <1>10 DEF QInv

-----------------------------------------------------------------------------
(* The levels of the connection that a statement is sent to. *)
Sent == IF conn = None THEN <<>> ELSE conn

Does(o) ==
    /\ failed' = IF o.ok THEN failed ELSE [failed EXCEPT ![running] = @ \cup {step}]
    /\ conn' = o.levels
    /\ disk' = disk \cup o.saved

Refused ==
    /\ failed' = [failed EXCEPT ![running] = @ \cup {step}]
    /\ conn' \in {conn, Sent}
    /\ disk' = disk

(* What was sent to a connection that was closed is sent to one without levels. *)
LEMMA SentFacts ==
    ASSUME TypeOK
    PROVE  /\ Sent \in Seq(Level) /\ Rows(conn) = AllWrites(Sent) /\ Rows(Sent) = AllWrites(Sent)
           /\ IsOpen <=> Sent # <<>>
           /\ conn # None => Sent = conn
BY NoLevels, TasksAndCloses DEF TypeOK, Sent, Rows, IsOpen

(* A statement has its effect or is refused. *)
LEMMA Executed ==
    ASSUME TypeOK, Execute
    PROVE  Does(Effect(Sent)) \/ Refused
<1>1. CASE \E D \in {<<>>, conn} \ {None} :
              /\ Database(D)
              /\ Report(Effect(D).ok)
              /\ conn' = Effect(D).levels
              /\ disk' = disk \cup Effect(D).saved
  <2>1. PICK D \in {<<>>, conn} \ {None} :
              /\ Database(D)
              /\ Report(Effect(D).ok)
              /\ conn' = Effect(D).levels
              /\ disk' = disk \cup Effect(D).saved
    BY <1>1
  <2>2. D = Sent  BY <2>1 DEF Database, Sent
  <2> QED  BY <2>1, <2>2 DEF Does, Report
<1>2. CASE \/ /\ Fails
              /\ Report(FALSE)
              /\ conn' = IF conn = None THEN <<>> ELSE conn
              /\ UNCHANGED disk
           \/ /\ Database(None)
              /\ Report(FALSE)
              /\ UNCHANGED <<conn, disk>>
  BY <1>2 DEF Report, Refused, Sent
<1> QED  BY <1>1, <1>2 DEF Execute

(* A step of the block that runs keeps the invariant, if it keeps what the
   invariant says of that block. *)
LEMMA QInvStep ==
    ASSUME QInv, NEW r \in Tasks, running = r,
           UNCHANGED <<queue, running, kind, inside, finished, closes>>,
           conn' # None => conn' \in Seq(Level),
           step' \in {"body", "end", "done"},
           NEW F \in SUBSET {"begin", "body", "end"}, failed' = [failed EXCEPT ![r] = F],
           NEW a \in {"commit", "rollback", None}, asked' = [asked EXCEPT ![r] = a],
           disk \subseteq disk',
           disk' \cup Rows(conn') \subseteq disk \cup Rows(conn) \cup {r},
           step' = "body" => disk' \cup Rows(conn') \subseteq disk \cup Rows(conn),
           step \in {"end", "done"} => step' # "body",
           step' = "body" => step = "begin" /\ a = None /\ F \subseteq {"begin"},
           step' = "end" => /\ a \in {"commit", "rollback"} /\ kind[r] \in {"tx", "sp"}
                            /\ F \subseteq {"begin", "body"},
           step' = "done" => Settled(r)',
           LeftOpen' = LeftOpen => Levels' /\ OwnRow'
    PROVE  QInv'
<1>1. TypeOK /\ Order /\ Steps /\ Known  BY DEF QInv
<1>2. r \notin finished /\ r # None  BY <1>1, TasksAndCloses DEF Steps
<1>3. /\ failed' \in [Tasks -> SUBSET {"begin", "body", "end"}] /\ failed'[r] = F
      /\ asked' \in [Tasks -> {"commit", "rollback", None}] /\ asked'[r] = a
      /\ \A t \in Tasks : t # r => failed'[t] = failed[t] /\ asked'[t] = asked[t]
  BY <1>1 DEF TypeOK
<1>4. finished \subseteq Tasks  BY <1>1 DEF TypeOK
<1>5. disk' \subseteq Tasks
  <2>1. Written \subseteq Tasks  BY <1>1, <1>4 DEF Written
  <2> QED  BY <1>1, <2>1 DEF Known
<1>6. TypeOK'  BY <1>1, <1>3, <1>5 DEF TypeOK
<1>7. Order'  BY <1>1 DEF Order
<1>8. Steps'  BY <1>1, <1>2, <1>3 DEF Steps
<1>9. Known'
  <2>1. CASE step' = "body"
    <3>1. Written' = finished /\ Written = finished  BY <2>1 DEF Written
    <3> QED  BY <1>1, <2>1, <3>1 DEF Known
  <2>2. CASE step' # "body"
    <3>1. Written' = finished \cup {r} /\ Written \subseteq finished \cup {r}
      BY <1>2, <2>2 DEF Written
    <3> QED  BY <1>1, <3>1 DEF Known
  <2> QED  BY <2>1, <2>2
<1>10. (\A s \in Tasks : LeavesOpen(s)' <=> LeavesOpen(s)) /\ (LeftOpen' <=> LeftOpen)
  BY <1>2, <1>3, <1>4, LeftStays
<1>11. LeftOpen' = LeftOpen  BY <1>10 DEF LeftOpen
<1>12. Levels' /\ OwnRow'  BY <1>11
<1>13. AllSettled'
  <2>1. ASSUME NEW t \in finished PROVE Settled(t)'
    <3>1. t \in Tasks /\ t # r /\ Settled(t)  BY <1>2, <1>4, <2>1 DEF QInv, AllSettled
    <3>2. t \in disk' \cup Rows(conn') => t \in disk \cup Rows(conn)  BY <3>1
    <3> QED  BY <1>3, <1>10, <3>1, <3>2 DEF Settled
  <2>2. step' = "done" => Settled(running)'  BY DEF Settled
  <2> QED  BY <2>1, <2>2 DEF AllSettled
<1> QED  BY <1>6, <1>7, <1>8, <1>9, <1>12, <1>13 DEF QInv

(* Levels are left open by earlier blocks only, and stay so in a step of the
   block that runs. *)
LEMMA LeftEarlier ==
    ASSUME QInv, NEW r \in Tasks, running = r, UNCHANGED <<kind, finished>>,
           \A t \in Tasks : t # r => failed'[t] = failed[t] /\ asked'[t] = asked[t]
    PROVE  /\ \A s \in Tasks : LeavesOpen(s)' <=> LeavesOpen(s)
           /\ LeftOpen => \E s \in Tasks : s < r /\ LeavesOpen(s)'
<1>1. /\ r \notin finished /\ finished \subseteq Tasks /\ \A s \in finished : s < r
  BY TasksAndCloses DEF QInv, Steps, TypeOK, Order
<1>2. \A s \in finished : failed'[s] = failed[s] /\ asked'[s] = asked[s]
  BY <1>1
<1>3. \A s \in Tasks : LeavesOpen(s)' <=> LeavesOpen(s)
  BY <1>2, LeftStays
<1>4. LeftOpen => \E s \in Tasks : s < r /\ LeavesOpen(s)
  BY <1>1 DEF LeftOpen, LeavesOpen
<1> QED  BY <1>3, <1>4

(* The first step of a block. *)
LEMMA QInvBegin ==
    ASSUME QInv, BeginStep
    PROVE  QInv'
<1>1. TypeOK /\ Steps  BY DEF QInv
<1>2. PICK r \in Tasks : running = r  BY <1>1 DEF BeginStep, TypeOK
<1>3. /\ step = "begin" /\ UNCHANGED <<queue, running, kind, inside, asked, finished, closes>>
      /\ asked[r] = None /\ failed[r] = {} /\ r # None /\ r \notin finished
  BY <1>1, <1>2, TasksAndCloses DEF BeginStep, Steps
<1>4. asked' = [asked EXCEPT ![r] = None]  BY <1>1, <1>3 DEF TypeOK
<1>5. (IsOpen => LeftOpen) /\ r \notin disk \cup Rows(conn)
  BY <1>2, <1>3 DEF QInv, Levels, Known, Written
<1>6. /\ Sent \in Seq(Level) /\ Rows(conn) = AllWrites(Sent) /\ Rows(Sent) = AllWrites(Sent)
      /\ IsOpen <=> Sent # <<>>
  BY <1>1, SentFacts
<1>7. None # <<>> /\ None \notin {"commit", "rollback"} /\ None \notin Seq(Level)
  BY TasksAndCloses
<1>8. CASE kind[r] = "db"
  <2>1. /\ conn' \in {conn, Sent} /\ step' = "body" /\ disk' = disk /\ failed' = failed
    BY <1>2, <1>3, <1>8 DEF BeginStep, Database, Sent, Execute
  <2>2. failed' = [failed EXCEPT ![r] = {}]  BY <1>1, <1>3, <2>1 DEF TypeOK
  <2>3. Rows(conn') = Rows(conn) /\ (IsOpen' <=> IsOpen)
    BY <1>6, <1>7, <2>1 DEF Rows, IsOpen, Sent
  <2>4. conn' # None => conn' \in Seq(Level)  BY <1>1, <1>6, <2>1 DEF TypeOK
  <2>5. LeftOpen' = LeftOpen => Levels' /\ OwnRow'
    BY <1>2, <1>3, <1>5, <1>8, <2>1, <2>3 DEF Levels, OwnRow
  <2> QED  BY <1>2, <1>3, <1>4, <2>1, <2>2, <2>3, <2>4, <2>5, QInvStep
<1>9. ASSUME Refused, kind[r] \in {"tx", "sp"},
             step' = (IF kind[r] = "sp" THEN "done" ELSE "body")
      PROVE  QInv'
  <2>1. failed' = [failed EXCEPT ![r] = {"begin"}] /\ disk' = disk /\ conn' \in {conn, Sent}
    BY <1>1, <1>2, <1>3, <1>9 DEF Refused, TypeOK
  <2>2. failed'[r] = {"begin"}  BY <1>1, <2>1 DEF TypeOK
  <2>3. Rows(conn') = Rows(conn) /\ (IsOpen' <=> IsOpen)
    BY <1>6, <1>7, <2>1 DEF Rows, IsOpen, Sent
  <2>4. conn' # None => conn' \in Seq(Level)  BY <1>1, <1>6, <2>1 DEF TypeOK
  <2>5. LeftOpen' = LeftOpen => Levels' /\ OwnRow'
    BY <1>2, <1>3, <1>5, <1>9, <2>1, <2>3 DEF Levels, OwnRow
  <2>6. step' = "done" => Settled(r)'  BY <1>3, <1>7 DEF Settled
  <2> QED  BY <1>2, <1>3, <1>4, <1>9, <2>1, <2>3, <2>4, <2>5, <2>6, QInvStep
<1>10. CASE kind[r] = "tx"
  <2>1. step' = "body" /\ (Does(Begin(Sent)) \/ Refused)
    BY <1>1, <1>2, <1>3, <1>10, Executed DEF BeginStep, Effect
  <2>2. CASE Refused  BY <1>9, <1>10, <2>1, <2>2
  <2>3. CASE Does(Begin(Sent))
    <3> DEFINE o == Begin(Sent)
    <3>1. /\ o.ok <=> Sent = <<>>
          /\ o.ok \in BOOLEAN /\ o.levels \in Seq(Level) /\ o.saved = {}
          /\ AllWrites(o.levels) = AllWrites(Sent) /\ (~o.ok => o.levels = Sent)
      BY <1>6, BeginOutcome
    <3> HIDE DEF o
    <3>2. /\ conn' = o.levels /\ disk' = disk
          /\ failed' = IF o.ok THEN failed ELSE [failed EXCEPT ![running] = @ \cup {step}]
      BY <2>3, <3>1 DEF Does, o
    <3>3. CASE ~o.ok
      <4>1. Refused  BY <3>1, <3>2, <3>3 DEF Refused
      <4> QED  BY <1>9, <1>10, <2>1, <4>1
    <3>4. CASE o.ok
      <4>1. failed' = [failed EXCEPT ![r] = {}] /\ failed'[r] = {}
        BY <1>1, <1>3, <3>2, <3>4 DEF TypeOK
      <4>2. Rows(conn') \subseteq Rows(conn)  BY <1>6, <3>1, <3>2 DEF Rows
      <4>3. LeftOpen' = LeftOpen => Levels' /\ OwnRow'
        BY <1>2, <1>3, <1>10, <2>1, <4>1 DEF Levels, OwnRow
      <4> QED  BY <1>2, <1>3, <1>4, <2>1, <3>1, <3>2, <4>1, <4>2, <4>3, QInvStep
    <3> QED  BY <3>3, <3>4, <3>1
  <2> QED  BY <2>1, <2>2, <2>3
<1>11. CASE kind[r] = "sp"
  <2>1. /\ step' = (IF "begin" \in failed'[r] THEN "done" ELSE "body")
        /\ Does(StartSavePoint(Sent, r)) \/ Refused
    BY <1>1, <1>2, <1>3, <1>11, Executed DEF BeginStep, Effect
  <2>2. CASE Refused
    <3>1. "begin" \in failed'[r]  BY <1>1, <1>2, <1>3, <2>2 DEF Refused, TypeOK
    <3> QED  BY <1>9, <1>11, <2>1, <2>2, <3>1
  <2>3. CASE Does(StartSavePoint(Sent, r))
    <3> DEFINE l == Append(Sent, Open(r))
    <3>1. /\ conn' = l /\ disk' = disk /\ failed' = failed
      BY <2>3 DEF Does, StartSavePoint, Outcome
    <3>2. /\ l \in Seq(Level) /\ Len(l) = Len(Sent) + 1 /\ l # <<>>
          /\ l[Len(l)].name = r /\ AllWrites(l) = AllWrites(Sent)
      BY <1>6, TasksAndCloses, Deepened
    <3> HIDE DEF l
    <3>3. failed' = [failed EXCEPT ![r] = {}] /\ failed'[r] = {}
      BY <1>1, <1>3, <3>1 DEF TypeOK
    <3>4. step' = "body"  BY <2>1, <3>3
    <3>5. Rows(conn') \subseteq Rows(conn)  BY <1>6, <3>1, <3>2 DEF Rows
    <3>6. Len(l) # 1 => LeftOpen
      <4>1. Len(Sent) # 0 => Sent # <<>>  BY EmptySeq
      <4>2. Len(Sent) \in Nat  BY <1>6, LenProperties
      <4> QED  BY <1>5, <1>6, <3>2, <4>1, <4>2
    <3>7. IsOpen'  BY <1>7, <3>1, <3>2 DEF IsOpen
    <3>8. LeftOpen' = LeftOpen => Levels' /\ OwnRow'
      BY <1>2, <1>3, <1>11, <3>1, <3>2, <3>3, <3>4, <3>6, <3>7 DEF Levels, OwnLevel, OwnRow
    <3> QED  BY <1>2, <1>3, <1>4, <3>1, <3>2, <3>3, <3>4, <3>5, <3>8, QInvStep
  <2> QED  BY <2>1, <2>2, <2>3
<1>12. kind[r] \in {"db", "tx", "sp"}
  BY <1>2, <1>3 DEF BeginStep
<1> QED  BY <1>8, <1>10, <1>11, <1>12

(* The body of a block. *)
LEMMA QInvBody ==
    ASSUME QInv, Body
    PROVE  QInv'
<1>1. TypeOK /\ Steps  BY DEF QInv
<1>2. PICK r \in Tasks : running = r  BY <1>1 DEF Body, TypeOK
<1>3. /\ step = "body" /\ UNCHANGED <<queue, running, kind, inside, finished, closes>>
      /\ asked[r] = None /\ failed[r] \subseteq {"begin"} /\ r # None /\ r \notin finished
  BY <1>1, <1>2, TasksAndCloses DEF Body, Steps
<1>4. r \notin disk \cup Rows(conn)
  BY <1>2, <1>3 DEF QInv, Known, Written
<1>5. /\ Sent \in Seq(Level) /\ Rows(conn) = AllWrites(Sent) /\ Rows(Sent) = AllWrites(Sent)
      /\ IsOpen <=> Sent # <<>>
      /\ conn # None => Sent = conn
  BY <1>1, SentFacts
<1>6. None # <<>> /\ None \notin {"commit", "rollback"} /\ None \notin Seq(Level)
  BY TasksAndCloses
<1>7. PICK a \in {"commit", "rollback"} :
          /\ asked' = [asked EXCEPT ![r] = a]
          /\ \/ kind[r] = "db" /\ a = "commit" /\ step' = "done"
             \/ kind[r] \in {"tx", "sp"} /\ step' = "end"
  <2>1. kind[r] \in Kinds
    <3>1. r \in {t \in Tasks : kind[t] # None}  BY <1>1, <1>2, <1>3 DEF TypeOK
    <3> QED  BY <1>1, <3>1 DEF TypeOK
  <2> QED  BY <1>2, <2>1 DEF Body, Kinds
<1>8. Does(Update(Sent, r)) \/ Refused
  <2>1. CASE Execute  BY <1>1, <1>2, <1>3, <2>1, Executed DEF Effect
  <2>2. CASE Report(FALSE) /\ UNCHANGED <<conn, disk>>  BY <2>2 DEF Report, Refused
  <2> QED  BY <2>1, <2>2 DEF Body
<1>9. asked'[r] = a /\ \A t \in Tasks : t # r => asked'[t] = asked[t]
  BY <1>1, <1>7 DEF TypeOK
<1>10. /\ kind[r] = "db" => (IsOpen => LeftOpen)
       /\ kind[r] = "tx" => (IsOpen => LeftOpen \/ "begin" \notin failed[r])
       /\ kind[r] = "sp" => OwnLevel
  BY <1>2, <1>3 DEF QInv, Levels
<1>11. CASE Does(Update(Sent, r))
  <2> DEFINE o == Update(Sent, r)
  <2>1. /\ o.ok /\ o.levels \in Seq(Level) /\ Len(o.levels) = Len(Sent)
        /\ Sent = <<>> => o.levels = <<>> /\ o.saved = {r}
        /\ Sent # <<>> =>
              /\ o.levels # <<>> /\ o.saved = {}
              /\ o.levels[Len(Sent)].name = Sent[Len(Sent)].name
              /\ r \in o.levels[Len(Sent)].writes /\ r \in AllWrites(o.levels)
              /\ \A i \in 1..Len(Sent) : i # Len(Sent) => o.levels[i] = Sent[i]
        /\ AllWrites(o.levels) \subseteq AllWrites(Sent) \cup {r}
    BY <1>5, TasksAndCloses, UpdateOutcome
  <2>2. conn' = o.levels /\ disk' = disk \cup o.saved /\ failed' = failed
    BY <1>11, <2>1 DEF Does
  <2> HIDE DEF o
  <2>3. failed' = [failed EXCEPT ![r] = failed[r]] /\ failed[r] \in SUBSET {"begin", "body", "end"}
    BY <1>1, <2>2 DEF TypeOK
  <2>4. /\ IsOpen' <=> IsOpen
        /\ Rows(conn') = AllWrites(o.levels) /\ conn' \in Seq(Level) /\ conn' # None
    BY <1>5, <1>6, <2>1, <2>2 DEF IsOpen, Rows
  <2>5. disk \subseteq disk' /\ disk' \cup Rows(conn') \subseteq disk \cup Rows(conn) \cup {r}
    BY <1>5, <2>1, <2>2, <2>4
  <2>6. CASE kind[r] = "db"
    <3>1. LeftOpen' = LeftOpen => Levels' /\ OwnRow'
      BY <1>2, <1>3, <1>7, <1>10, <2>4, <2>6 DEF Levels, OwnRow
    <3>2. LeftOpen => \E s \in Tasks : s < r /\ LeavesOpen(s)'
      BY <1>2, <1>3, <1>9, <2>2, LeftEarlier
    <3>3. Settled(r)'
      <4>1. IsOpen \/ r \in disk'  BY <1>5, <2>1, <2>2
      <4>2. asked'[r] = "commit"  BY <1>7, <1>9, <2>6
      <4> QED  BY <1>10, <2>6, <3>2, <4>1, <4>2 DEF Settled
    <3> QED  BY <1>2, <1>3, <1>7, <2>3, <2>4, <2>5, <2>6, <3>1, <3>3, QInvStep
  <2>7. CASE kind[r] \in {"tx", "sp"}
    <3>1. step' = "end"  BY <1>7, <2>7
    <3>2. OwnRow'
      <4>1. r \in disk' => ~IsOpen'  BY <1>4, <1>5, <2>1, <2>2, <2>4
      <4>2. r \in disk' \cup Rows(conn')  BY <1>5, <2>1, <2>2, <2>4
      <4>3. ASSUME kind[r] = "sp", NEW i \in 1..(Len(conn') - 1) PROVE r \notin conn'[i].writes
        <5>1. Sent # <<>>  BY <1>5, <1>10, <4>3 DEF OwnLevel
        <5>2. i \in 1..Len(Sent) /\ i # Len(Sent)
          <6>1. Len(Sent) \in Nat  BY <1>5, LenProperties
          <6> QED  BY <2>1, <2>2, <4>3, <6>1
        <5>3. conn'[i] = Sent[i]  BY <2>1, <2>2, <5>1, <5>2
        <5> QED  BY <1>4, <1>5, <5>2, <5>3, WritesOf
      <4> QED  BY <1>2, <1>3, <4>1, <4>2, <4>3 DEF OwnRow
    <3>3. ASSUME LeftOpen' = LeftOpen PROVE Levels'
      <4>1. CASE kind[r] = "tx"
        BY <1>2, <1>3, <1>10, <2>2, <2>4, <3>1, <3>3, <4>1 DEF Levels
      <4>2. CASE kind[r] = "sp"
        <5>1. OwnLevel  BY <1>10, <4>2
        <5>2. Sent = conn /\ Sent # <<>>  BY <1>5, <5>1 DEF OwnLevel, IsOpen
        <5>3. Len(conn') = Len(conn) /\ conn'[Len(conn')].name = conn[Len(conn)].name
          BY <2>1, <2>2, <5>2
        <5>4. OwnLevel'  BY <1>2, <1>3, <2>2, <2>4, <3>3, <5>1, <5>3 DEF OwnLevel
        <5> QED  BY <1>2, <1>3, <3>1, <4>2, <5>4 DEF Levels
      <4> QED  BY <2>7, <4>1, <4>2
    <3> QED  BY <1>2, <1>3, <1>7, <2>3, <2>4, <2>5, <2>7, <3>1, <3>2, <3>3, QInvStep
  <2> QED  BY <1>7, <2>6, <2>7
<1>12. CASE Refused
  <2> DEFINE F == failed[r] \cup {"body"}
  <2>1. /\ disk' = disk /\ conn' \in {conn, Sent}
        /\ failed' = [failed EXCEPT ![r] = F] /\ failed'[r] = F
        /\ \A t \in Tasks : t # r => failed'[t] = failed[t]
    BY <1>1, <1>2, <1>3, <1>12 DEF Refused, TypeOK
  <2>2. F \subseteq {"begin", "body"} /\ "body" \in F /\ ("begin" \in F <=> "begin" \in failed[r])
    BY <1>3
  <2> HIDE DEF F
  <2>3. Rows(conn') = Rows(conn) /\ (IsOpen' <=> IsOpen)
    BY <1>5, <1>6, <2>1 DEF Rows, IsOpen, Sent
  <2>4. conn' # None => conn' \in Seq(Level)  BY <1>1, <1>5, <2>1 DEF TypeOK
  <2>5. CASE kind[r] = "db"
    <3>1. LeftOpen' = LeftOpen => Levels' /\ OwnRow'
      BY <1>2, <1>3, <1>7, <1>10, <2>3, <2>5 DEF Levels, OwnRow
    <3>2. Settled(r)'  BY <1>7, <1>9, <2>1, <2>2, <2>5 DEF Settled
    <3> QED  BY <1>2, <1>3, <1>7, <2>1, <2>2, <2>3, <2>4, <2>5, <3>1, <3>2, QInvStep
  <2>6. CASE kind[r] \in {"tx", "sp"}
    <3>1. step' = "end"  BY <1>7, <2>6
    <3>2. OwnRow'
      <4>1. r \notin disk' /\ r \notin Rows(conn')  BY <1>4, <2>1, <2>3
      <4>2. ASSUME kind[r] = "sp", NEW i \in 1..(Len(conn') - 1) PROVE r \notin conn'[i].writes
        <5>1. conn # None  BY <1>10, <4>2 DEF OwnLevel, IsOpen
        <5>2. conn' = Sent /\ Len(Sent) \in Nat  BY <1>5, <2>1, <5>1, LenProperties
        <5>3. i \in 1..Len(Sent)  BY <4>2, <5>2
        <5> QED  BY <1>4, <1>5, <5>2, <5>3, WritesOf
      <4> QED  BY <1>2, <1>3, <2>1, <2>2, <4>1, <4>2 DEF OwnRow
    <3>3. ASSUME LeftOpen' = LeftOpen PROVE Levels'
      <4>1. CASE kind[r] = "tx"
        BY <1>2, <1>3, <1>10, <2>1, <2>2, <2>3, <3>1, <3>3, <4>1 DEF Levels
      <4>2. CASE kind[r] = "sp"
        <5>1. OwnLevel  BY <1>10, <4>2
        <5>2. conn' = conn  BY <1>5, <2>1, <5>1 DEF OwnLevel, IsOpen
        <5>3. OwnLevel'  BY <1>2, <1>3, <2>1, <2>2, <2>3, <3>3, <5>1, <5>2 DEF OwnLevel
        <5> QED  BY <1>2, <1>3, <3>1, <4>2, <5>3 DEF Levels
      <4> QED  BY <2>6, <4>1, <4>2
    <3> QED  BY <1>2, <1>3, <1>7, <2>1, <2>2, <2>3, <2>4, <2>6, <3>1, <3>2, <3>3, QInvStep
  <2> QED  BY <1>7, <2>5, <2>6
<1> QED  BY <1>8, <1>11, <1>12

(* The last statement of a block. *)
LEMMA QInvEnd ==
    ASSUME QInv, EndStep
    PROVE  QInv'
<1>1. TypeOK /\ Steps  BY DEF QInv
<1>2. PICK r \in Tasks : running = r  BY <1>1 DEF EndStep, TypeOK
<1>3. /\ step = "end" /\ UNCHANGED <<queue, running, kind, inside, asked, finished, closes>>
      /\ step' = "done" /\ r # None /\ r \notin finished
      /\ asked[r] \in {"commit", "rollback"} /\ kind[r] \in {"tx", "sp"}
      /\ failed[r] \subseteq {"begin", "body"}
  BY <1>1, <1>2, TasksAndCloses DEF EndStep, Steps
<1>4. /\ r \in disk => ~IsOpen
      /\ "body" \notin failed[r] => r \in disk \cup Rows(conn)
      /\ kind[r] = "sp" => \A i \in 1..(Len(conn) - 1) : r \notin conn[i].writes
  BY <1>2, <1>3 DEF QInv, OwnRow
<1>5. /\ Sent \in Seq(Level) /\ Rows(conn) = AllWrites(Sent) /\ Rows(Sent) = AllWrites(Sent)
      /\ IsOpen <=> Sent # <<>>
      /\ conn # None => Sent = conn
  BY <1>1, SentFacts
<1>6. None # <<>> /\ None \notin {"commit", "rollback"} /\ None \notin Seq(Level)
  BY TasksAndCloses
<1>7. Does(Ending(Sent)) \/ Refused
  BY <1>1, <1>2, <1>3, Executed DEF EndStep, Effect
<1>8. /\ kind[r] = "tx" => (IsOpen => LeftOpen \/ "begin" \notin failed[r])
      /\ kind[r] = "sp" => OwnLevel
  BY <1>2, <1>3 DEF QInv, Levels
<1>9. asked' = [asked EXCEPT ![r] = asked[r]] /\ asked'[r] = asked[r]
  BY <1>1, <1>3 DEF TypeOK
<1>10. OwnRow'  BY <1>3 DEF OwnRow
<1>11. ASSUME Refused PROVE QInv'
  <2> DEFINE F == failed[r] \cup {"end"}
  <2>1. /\ disk' = disk /\ conn' \in {conn, Sent}
        /\ failed' = [failed EXCEPT ![r] = F] /\ failed'[r] = F
    BY <1>1, <1>2, <1>3, <1>11 DEF Refused, TypeOK
  <2>2. F \subseteq {"begin", "body", "end"} /\ "end" \in F /\ ("begin" \in F <=> "begin" \in failed[r])
    BY <1>3
  <2> HIDE DEF F
  <2>3. Rows(conn') = Rows(conn) /\ (IsOpen' <=> IsOpen)
    BY <1>5, <1>6, <2>1 DEF Rows, IsOpen, Sent
  <2>4. conn' # None => conn' \in Seq(Level)  BY <1>1, <1>5, <2>1 DEF TypeOK
  <2>5. Settled(r)'  BY <1>9, <2>1, <2>2 DEF Settled
  <2>6. LeftOpen' = LeftOpen => Levels'
    BY <1>2, <1>3, <1>8, <2>1, <2>2, <2>3 DEF Levels, OwnLevel
  <2> QED  BY <1>2, <1>3, <1>9, <1>10, <2>1, <2>2, <2>3, <2>4, <2>5, <2>6, QInvStep
(* The statement succeeds. *)
<1>12. ASSUME NEW o, Does(o), o.ok, o.levels \in Seq(Level), o.saved \subseteq AllWrites(Sent),
              AllWrites(o.levels) \subseteq AllWrites(Sent),
              o.levels # <<>> => LeftOpen \/ (kind[r] = "sp" /\ asked[r] = "rollback"),
              asked[r] = "rollback" => r \notin disk /\ o.saved = {} /\ r \notin AllWrites(o.levels),
              asked[r] = "commit" => LeftOpen \/ AllWrites(Sent) \subseteq o.saved
       PROVE  QInv'
  <2>1. conn' = o.levels /\ disk' = disk \cup o.saved /\ failed' = failed
    BY <1>12 DEF Does
  <2>2. failed' = [failed EXCEPT ![r] = failed[r]] /\ failed[r] \in SUBSET {"begin", "body", "end"}
    BY <1>1, <2>1 DEF TypeOK
  <2>3. Rows(conn') = AllWrites(o.levels) /\ conn' \in Seq(Level) /\ conn' # None
    BY <1>6, <1>12, <2>1 DEF Rows
  <2>4. disk \subseteq disk' /\ disk' \cup Rows(conn') \subseteq disk \cup Rows(conn)
    BY <1>5, <1>12, <2>1, <2>3
  <2>5. LeftOpen => \E s \in Tasks : s < r /\ LeavesOpen(s)'
    BY <1>2, <1>3, <2>1, LeftEarlier
  <2>6. Settled(r)'
    <3>1. CASE asked[r] = "rollback"
      BY <1>9, <1>12, <2>1, <2>3, <3>1 DEF Settled
    <3>2. CASE asked[r] = "commit"
      <4>1. "body" \notin failed[r] => r \in disk' \/ LeftOpen  BY <1>4, <1>5, <1>12, <2>1, <3>2
      <4> QED  BY <1>9, <2>1, <2>5, <3>2, <4>1 DEF Settled
    <3> QED  BY <1>3, <3>1, <3>2
  <2>7. LeftOpen' = LeftOpen => Levels'
    <3>1. IsOpen' => LeftOpen \/ (kind[r] = "sp" /\ asked[r] = "rollback")
      BY <1>12, <2>1 DEF IsOpen
    <3>2. kind[r] = "sp" => "begin" \notin failed[r]  BY <1>2, <1>8 DEF OwnLevel
    <3> QED  BY <1>2, <1>3, <2>1, <3>1, <3>2 DEF Levels
  <2> QED  BY <1>2, <1>3, <1>9, <1>10, <2>1, <2>2, <2>3, <2>4, <2>6, <2>7, QInvStep
<1>13. ASSUME NEW o, Does(o), o.ok = FALSE, o.levels = <<>>, o.saved = {}, Sent = <<>> PROVE Refused
  BY <1>13 DEF Does, Refused
<1>14. CASE Does(Ending(Sent)) /\ kind[r] = "tx" /\ asked[r] = "commit"
  <2> DEFINE o == Commit(Sent)
  <2>1. Does(o)  BY <1>2, <1>14 DEF Ending
  <2>2. /\ (o.ok <=> Sent # <<>>) /\ o.ok \in BOOLEAN /\ o.levels = <<>>
        /\ o.saved = AllWrites(Sent)
    BY <1>5, WholeOutcome
  <2> HIDE DEF o
  <2>3. CASE o.ok  BY <1>12, <1>14, <2>1, <2>2, <2>3, NoLevels
  <2>4. CASE ~o.ok
    <3>1. Refused  BY <1>13, <2>1, <2>2, <2>4, NoLevels
    <3> QED  BY <1>11, <3>1
  <2> QED  BY <2>3, <2>4
<1>15. CASE Does(Ending(Sent)) /\ kind[r] = "tx" /\ asked[r] = "rollback"
  <2> DEFINE o == Rollback(Sent)
  <2>1. Does(o)  BY <1>2, <1>15 DEF Ending
  <2>2. (o.ok <=> Sent # <<>>) /\ o.ok \in BOOLEAN /\ o.levels = <<>> /\ o.saved = {}
    BY DEF Rollback, Failure, Outcome
  <2> HIDE DEF o
  <2>3. CASE o.ok
    <3>1. r \notin disk  BY <1>4, <1>5, <2>2, <2>3
    <3> QED  BY <1>12, <1>15, <2>1, <2>2, <2>3, <3>1, NoLevels
  <2>4. CASE ~o.ok
    <3>1. Refused  BY <1>13, <2>1, <2>2, <2>4
    <3> QED  BY <1>11, <3>1
  <2> QED  BY <2>3, <2>4
<1>16. CASE Does(Ending(Sent)) /\ kind[r] = "sp"
  <2>1. /\ Sent # <<>> /\ Sent = conn /\ Sent[Len(Sent)].name = r /\ (Len(Sent) # 1 => LeftOpen)
        /\ r \notin disk
    BY <1>2, <1>4, <1>5, <1>8, <1>16 DEF OwnLevel, IsOpen
  <2>2. CASE asked[r] = "commit"
    <3> DEFINE o == ReleaseSavePoint(Sent, r)
    <3>1. Does(o)  BY <1>2, <1>16, <2>2 DEF Ending
    <3>2. /\ o.ok /\ o.levels \in Seq(Level)
          /\ Len(Sent) = 1 => o.levels = <<>> /\ o.saved = AllWrites(Sent)
          /\ Len(Sent) # 1 => o.saved = {} /\ AllWrites(o.levels) \subseteq AllWrites(Sent)
      BY <1>5, <2>1, ReleaseOutcome
    <3> HIDE DEF o
    <3> QED  BY <1>12, <2>1, <2>2, <3>1, <3>2, NoLevels
  <2>3. CASE asked[r] = "rollback"
    <3> DEFINE o == RollbackToSavePoint(Sent, r)
    <3>1. Does(o)  BY <1>2, <1>16, <2>3 DEF Ending
    <3>2. /\ o.ok /\ o.levels \in Seq(Level) /\ o.saved = {}
          /\ AllWrites(o.levels) \subseteq AllWrites(Sent)
          /\ \A x : (\A i \in 1..(Len(Sent) - 1) : x \notin Sent[i].writes)
                        => x \notin AllWrites(o.levels)
      BY <1>5, <2>1, TasksAndCloses, RollbackToOutcome
    <3> HIDE DEF o
    <3>3. r \notin AllWrites(o.levels)  BY <1>4, <1>16, <2>1, <3>2
    <3> QED  BY <1>12, <1>16, <2>1, <2>3, <3>1, <3>2, <3>3
  <2> QED  BY <1>3, <2>2, <2>3
<1> QED  BY <1>3, <1>7, <1>11, <1>14, <1>15, <1>16

-----------------------------------------------------------------------------
(* Every step of a queue keeps the invariant. *)
LEMMA QInvNext == QInv /\ [Next]_vars => QInv'
<1> SUFFICES ASSUME QInv, [Next]_vars PROVE QInv'  OBVIOUS
<1>1. TypeOK  BY DEF QInv
<1>2. ASSUME NEW t \in Tasks, NEW k \in Kinds, NEW from \in Tasks \cup {None}, Submit(t, k, from)
      PROVE  QInv'
  <2>1. /\ kind' \in [Tasks -> Kinds \cup {None}] /\ kind'[t] # None
        /\ \A s \in Tasks : s # t => kind'[s] = kind[s]
        /\ inside' \in [Tasks -> Tasks \cup {None}]
    BY <1>1, <1>2, TasksAndCloses DEF Submit, TypeOK
  <2> QED  BY <1>2, <2>1, QInvQueued DEF Submit, QInv
<1>3. CASE CallClose
  <2>1. closes' \in Nat /\ -closes' \in Closes
    BY <1>3, QueueAssumption DEF CallClose, QInv, Closes
  <2>2. -closes' \notin Tasks  BY <2>1, TasksAndCloses
  <2> QED  BY <1>1, <1>3, <2>1, <2>2, QInvQueued DEF CallClose, TypeOK
<1>4. CASE RunClose  BY <1>4, QInvTaken DEF RunClose
<1>5. CASE Take  BY <1>5, QInvTaken DEF Take
<1>6. CASE BeginStep  BY <1>6, QInvBegin
<1>7. CASE Body  BY <1>7, QInvBody
<1>8. CASE EndStep  BY <1>8, QInvEnd
<1>9. CASE Finish  BY <1>9, QInvFinish
<1>10. CASE UNCHANGED vars
  BY <1>10 DEF vars, QInv, TypeOK, Order, Steps, Known, Written, Rows, Levels, OwnLevel, IsOpen,
               LeftOpen, LeavesOpen, OwnRow, AllSettled, Settled
<1> QED  BY <1>2, <1>3, <1>4, <1>5, <1>6, <1>7, <1>8, <1>9, <1>10 DEF Next

(* The invariant holds in every state. *)
LEMMA QInvAlways == Spec => []QInv
<1>1. Init => QInv  BY QInvInit
<1>2. QInv /\ [Next]_vars => QInv'  BY QInvNext
<1> QED  BY <1>1, <1>2, PTL DEF Spec

(* Every block that is submitted is queued, running or finished. *)
THEOREM BlocksAccountedFor == Spec => []TypeOK
<1>1. QInv => TypeOK  BY DEF QInv
<1> QED  BY <1>1, QInvAlways, PTL

(* Between two blocks the connection is in autocommit mode, unless an earlier
   one has left its level open. *)
THEOREM AutocommitBetween == Spec => []OpenOnlyIfLeft
<1>1. QInv => OpenOnlyIfLeft
  BY DEF QInv, Levels, OpenOnlyIfLeft, IsOpen, LeftOpen
<1> QED  BY <1>1, QInvAlways, PTL

(* No failure and no order of blocks makes durable what a block rolls back,
   unless the rollback itself reported NO. *)
THEOREM RolledBackIsUndone == Spec => []RollbackUndoes
<1>1. QInv => RollbackUndoes  BY DEF QInv, AllSettled, Settled, RollbackUndoes
<1> QED  BY <1>1, QInvAlways, PTL

(* What a block commits with no failure is durable when it returns, unless it
   ran in a level that an earlier block left open. *)
THEOREM CommittedIsDurable == Spec => []CommitIsDurable
<1>1. QInv => CommitIsDurable  BY DEF QInv, AllSettled, Settled, CommitIsDurable
<1> QED  BY <1>1, QInvAlways, PTL

=============================================================================
