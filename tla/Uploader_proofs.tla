--------------------------- MODULE Uploader_proofs ---------------------------
(***************************************************************************)
(* That an uploader implements Upload: it ends once, it ends with success  *)
(* only if the server has every part, and then it is silent.  Neither what *)
(* the server and the network do nor when the client lets go plays a part  *)
(* in it.  No counting of requests is needed: after the closing request    *)
(* is made the count is no longer positive, and it only falls.             *)
(*                                                                         *)
(* Then the count itself, which is that of the parts yet to report; from   *)
(* it follow when the closing request is made, and what can go wrong.      *)
(***************************************************************************)
EXTENDS Uploader, Integers, SequenceTheorems, FiniteSetTheorems, TLAPS

(* What the request thread can have the main thread do. *)
Messages == [what : {"opened", "no dictionary", "no zone", "accepted", "refused",
                     "sent", "finished", "failed"}, req : Requests]

(* The places in the main thread's queue. *)
Waiting == 1..Len(main)

(* As much of TypeOK as the promise needs. *)
Types ==
    /\ parts \in 0..MaxParts
    /\ request \in {None, Opening, Closing}
    /\ life \in {"alive", "dying", "dead"}
    /\ state \in [Requests -> {"none", "waiting", "running", "complete"}]
    /\ main \in Seq(Messages)
    /\ requestsCount \in Int
    /\ stored \subseteq Parts
    /\ outcome \in {"none", "success", "fail"}
    /\ undefined \in BOOLEAN

(* Nothing but the opening request has been made. *)
Quiet ==
    /\ \A r \in Requests \ {Opening} : state[r] = "none"
    /\ request # Closing
    /\ outcome = "none"

(* Until the end of the opening request has been seen to, it is all there is. *)
OpeningFirst ==
    /\ request = None => state[Opening] = "none"
    /\ state[Opening] # "complete" => main = <<>> /\ Quiet
    /\ \A i \in Waiting : main[i].req = Opening => Len(main) = 1 /\ Quiet

(* A request that reports is complete. *)
Reported == \A i \in Waiting : state[main[i].req] = "complete"

(* The closing request names the parts of the file, and is made once. *)
PartsCounted ==
    /\ \A r \in Requests \ {Opening, Closing} : state[r] # "none" => partCount = parts
    /\ state[Closing] # "none" => request = Closing
    /\ request = Closing => requestsCount <= 0 /\ partCount = parts

(* It reports once, and the server accepts whole files only. *)
ClosingOnce ==
    /\ \A i, j \in Waiting : main[i].req = Closing /\ main[j].req = Closing => i = j
    /\ \A i \in Waiting : main[i].req = Closing /\ main[i].what = "accepted" => stored = Parts

(* When the client has been called back, nothing is left that would call it. *)
OutcomeLast ==
    outcome # "none" =>
        \/ state[Closing] = "complete" /\ \A i \in Waiting : main[i].req # Closing
        \/ /\ main = <<>> /\ state[Opening] = "complete"
           /\ \A r \in Requests \ {Opening} : state[r] = "none"

(* The client holds no uploader that has gone. *)
HeldAlive == held => life = "alive"

(* The inductive invariant behind the promise. *)
UInv ==
    Types /\ OpeningFirst /\ Reported /\ PartsCounted /\ ClosingOnce /\ OutcomeLast /\ HeldAlive

-----------------------------------------------------------------------------
(* The requests are told apart by their kinds. *)
LEMMA RequestFacts ==
    /\ Opening \in Requests /\ Closing \in Requests /\ Opening # Closing
    /\ \A p \in 0..(MaxParts - 1) : Part(p) \in Requests \ {Opening, Closing}
    /\ \A r \in Requests : r[1] = "opening" => r = Opening
    /\ \A r \in Requests : r[1] = "closing" => r = Closing
    /\ \A r \in Requests : r[1] = "part" => r \notin {Opening, Closing}
BY DEF Opening, Closing, Part, Requests

(* The parts of a file are among the parts there may be. *)
LEMMA PartFacts ==
    ASSUME Types
    PROVE  \A p \in Parts : Part(p) \in Requests \ {Opening, Closing}
BY UploaderAssumption, RequestFacts DEF Types, Parts

(* Messages that are left for the main thread. *)
LEMMA AppendedFacts ==
    ASSUME NEW s \in Seq(Messages), NEW t \in Seq(Messages), NEW q, \A i \in 1..Len(t) : t[i].req = q
    PROVE  /\ s \o t \in Seq(Messages)
           /\ Len(s) \in Nat /\ Len(t) \in Nat /\ Len(s \o t) = Len(s) + Len(t)
           /\ \A i \in 1..Len(s) : (s \o t)[i] = s[i]
           /\ \A i \in 1..Len(s \o t) : i \notin 1..Len(s) => (s \o t)[i] = t[i - Len(s)] /\ (s \o t)[i].req = q
<1>1. Len(s) \in Nat /\ Len(t) \in Nat  BY LenProperties
<1>2. /\ s \o t \in Seq(Messages) /\ Len(s \o t) = Len(s) + Len(t)
      /\ \A i \in 1..(Len(s) + Len(t)) : (s \o t)[i] = IF i <= Len(s) THEN s[i] ELSE t[i - Len(s)]
  BY ConcatProperties
<1>3. \A i \in 1..Len(s) : (s \o t)[i] = s[i]  BY <1>1, <1>2
<1>4. ASSUME NEW i \in 1..Len(s \o t), i \notin 1..Len(s)
      PROVE  (s \o t)[i] = t[i - Len(s)] /\ (s \o t)[i].req = q
  <2>1. i - Len(s) \in 1..Len(t) /\ ~(i <= Len(s)) /\ i \in 1..(Len(s) + Len(t))  BY <1>1, <1>2, <1>4
  <2> QED  BY <2>1, <1>2
<1> QED  BY <1>1, <1>2, <1>3, <1>4

(* The main thread has taken the first. *)
LEMMA TakenFacts ==
    ASSUME NEW s \in Seq(Messages), s # <<>>
    PROVE  /\ Tail(s) \in Seq(Messages) /\ Head(s) \in Messages
           /\ Len(s) \in Nat /\ 1 \in 1..Len(s) /\ Head(s) = s[1] /\ Len(Tail(s)) = Len(s) - 1
           /\ \A i \in 1..Len(Tail(s)) : i + 1 \in 1..Len(s) /\ Tail(s)[i] = s[i + 1]
           /\ Len(s) = 1 => Tail(s) = <<>>
<1>1. Len(s) \in Nat /\ Len(s) # 0  BY LenProperties, EmptySeq
<1>2. Tail(s) \in Seq(Messages) /\ Len(Tail(s)) = Len(s) - 1
      /\ \A i \in 1..Len(Tail(s)) : Tail(s)[i] = s[i + 1]
  BY HeadTailProperties
<1>3. Head(s) \in Messages /\ Head(s) = s[1]  BY HeadTailProperties
<1>4. ASSUME Len(s) = 1  PROVE Tail(s) = <<>>
  <2>1. Len(Tail(s)) = 0  BY <1>2, <1>4
  <2>2. Tail(s) # <<>> => Len(Tail(s)) \in Nat \ {0}
    <3> HIDE <1>4
    <3> DEFINE u == Tail(s)
    <3>1. u \in Seq(Messages)  BY <1>2
    <3> HIDE DEF u
    <3>2. u # <<>> => Len(u) \in Nat \ {0}  BY ONLY <3>1, EmptySeq
    <3> QED  BY <3>2 DEF u
  <2> QED  BY <2>1, <2>2
<1> QED  BY <1>1, <1>2, <1>3, <1>4

-----------------------------------------------------------------------------
(* A request ends, and leaves messages of its own for the main thread. *)
LEMMA RequestEnds ==
    ASSUME UInv, NEW r \in Requests, state[r] \in {"waiting", "running"},
           NEW t \in Seq(Messages), \A i \in 1..Len(t) : t[i].req = r,
           r \in {Opening, Closing} => Len(t) = 1,
           r = Closing /\ t[1].what = "accepted" => stored = Parts,
           state' = [state EXCEPT ![r] = "complete"], main' = main \o t,
           stored \subseteq stored', stored' \subseteq Parts,
           UNCHANGED <<parts, request, life, requestsCount, partCount, outcome, held, undefined>>
    PROVE  UInv'
<1> DEFINE old == 1..Len(main)
           new == 1..Len(main')
<1>1. /\ main \in Seq(Messages) /\ state \in [Requests -> {"none", "waiting", "running", "complete"}]
  BY DEF UInv, Types
<1>2. /\ main' \in Seq(Messages)
      /\ Len(main) \in Nat /\ Len(t) \in Nat /\ Len(main') = Len(main) + Len(t)
      /\ \A i \in old : i \in new /\ main'[i] = main[i]
      /\ \A i \in new : i \notin old => main'[i] = t[i - Len(main)] /\ main'[i].req = r
  BY <1>1, AppendedFacts
<1>3. /\ state'[r] = "complete" /\ \A q \in Requests : q # r => state'[q] = state[q]
      /\ state' \in [Requests -> {"none", "waiting", "running", "complete"}]
  BY <1>1
<1>4. \A i \in old : main[i] \in Messages /\ main[i].req \in Requests /\ main[i].req # r
  <2>1. \A i \in old : main[i] \in Messages  BY <1>1, ElementOfSeq
  <2> QED  BY <2>1 DEF UInv, Reported, Waiting, Messages
<1>5. Parts' = Parts  BY DEF Parts
<1> HIDE DEF old, new
<1>6. Types'  BY <1>2, <1>3, <1>5 DEF UInv, Types
<1>7. r # Opening => state[Opening] = "complete" /\ \A i \in old : main[i].req # Opening
  BY DEF UInv, OpeningFirst, Quiet, Waiting, old
<1>8. OpeningFirst'
  <2>1. CASE r = Opening
    <3>1. main = <<>> /\ Quiet /\ request # None
      BY <2>1 DEF UInv, OpeningFirst
    <3>2. Len(main') = 1  BY <2>1, <3>1, <1>2
    <3>3. Quiet'  BY <2>1, <3>1, <1>3 DEF Quiet
    <3> QED  BY <2>1, <3>1, <3>2, <3>3, <1>3 DEF OpeningFirst
  <2>2. CASE r # Opening
    <3>1. state'[Opening] = "complete" /\ request # None
      BY <2>2, <1>3, <1>7, RequestFacts DEF UInv, OpeningFirst
    <3>2. \A i \in new : main'[i].req # Opening  BY <2>2, <1>2, <1>7
    <3> QED  BY <3>1, <3>2 DEF OpeningFirst, Waiting, new
  <2> QED  BY <2>1, <2>2
<1>9. Reported'
  <2> SUFFICES ASSUME NEW i \in new PROVE state'[main'[i].req] = "complete"
    BY DEF Reported, Waiting, new
  <2>1. CASE i \in old  BY <2>1, <1>2, <1>3, <1>4 DEF UInv, Reported, Waiting, old
  <2>2. CASE i \notin old  BY <2>2, <1>2, <1>3
  <2> QED  BY <2>1, <2>2
<1>10. PartsCounted'
  <2>1. \A q \in Requests : state'[q] # "none" => state[q] # "none"  BY <1>3
  <2> QED  BY <2>1, RequestFacts DEF UInv, PartsCounted
<1>11. ClosingOnce'
  <2>1. \A i \in new : main'[i].req = Closing /\ main'[i].what = "accepted" => stored' = Parts'
    <3> SUFFICES ASSUME NEW i \in new, main'[i].req = Closing, main'[i].what = "accepted"
                 PROVE  stored = Parts
      BY <1>5
    <3>1. CASE i \in old  BY <3>1, <1>2 DEF UInv, ClosingOnce, Waiting, old
    <3>2. CASE i \notin old
      <4>1. r = Closing /\ Len(t) = 1 /\ main'[i] = t[i - Len(main)]  BY <3>2, <1>2
      <4>2. i - Len(main) = 1  BY <3>2, <4>1, <1>2 DEF old, new
      <4> QED  BY <4>1, <4>2
    <3> QED  BY <3>1, <3>2
  <2>2. ASSUME NEW i \in new, NEW j \in new, main'[i].req = Closing, main'[j].req = Closing
        PROVE  i = j
    <3>1. CASE r = Closing
      <4>1. i \notin old /\ j \notin old  BY <2>2, <3>1, <1>2, <1>4
      <4>2. Len(t) = 1  BY <3>1
      <4> QED  BY <4>1, <4>2, <1>2 DEF old, new
    <3>2. CASE r # Closing
      <4>1. i \in old /\ j \in old  BY <2>2, <3>2, <1>2
      <4>2. main[i].req = Closing /\ main[j].req = Closing  BY <2>2, <4>1, <1>2
      <4> QED  BY <4>1, <4>2 DEF UInv, ClosingOnce, Waiting, old
    <3> QED  BY <3>1, <3>2
  <2> QED  BY <2>1, <2>2 DEF ClosingOnce, Waiting, new
<1>12. OutcomeLast'
  <2> SUFFICES ASSUME outcome # "none" PROVE OutcomeLast'  BY DEF OutcomeLast
  <2>1. CASE state[Closing] = "complete" /\ \A i \in old : main[i].req # Closing
    <3>1. r # Closing /\ state'[Closing] = "complete"  BY <2>1, <1>3, RequestFacts
    <3>2. \A i \in new : main'[i].req # Closing  BY <2>1, <3>1, <1>2
    <3> QED  BY <3>1, <3>2 DEF OutcomeLast, Waiting, new
  <2>2. CASE /\ state[Opening] = "complete"
             /\ \A q \in Requests \ {Opening} : state[q] = "none"
    BY <2>2
  <2> QED  BY <2>1, <2>2 DEF UInv, OutcomeLast, Waiting, old
<1>13. HeldAlive'  BY DEF UInv, HeldAlive
<1> QED  BY <1>6, <1>8, <1>9, <1>10, <1>11, <1>12, <1>13 DEF UInv

(* What the main thread can rely on when it takes a message. *)
LEMMA Took ==
    ASSUME UInv, main # <<>>, main' = Tail(main)
    PROVE  /\ main' \in Seq(Messages)
           /\ \A i \in 1..Len(main') : i + 1 \in Waiting /\ main'[i] = main[i + 1]
           /\ 1 \in Waiting /\ Head(main) = main[1] /\ Head(main) \in Messages
           /\ Head(main).req \in Requests /\ state[Head(main).req] = "complete"
           /\ state[Opening] = "complete" /\ request # None
           /\ Head(main).req = Opening => main' = <<>> /\ Quiet
           /\ \A i \in 1..Len(main') : main'[i].req # Opening
           /\ Head(main).req = Closing => \A i \in 1..Len(main') : main'[i].req # Closing
           /\ outcome # "none" =>
                 /\ state[Closing] = "complete" /\ Head(main).req # Closing
                 /\ \A i \in 1..Len(main') : main'[i].req # Closing
<1>1. main \in Seq(Messages)  BY DEF UInv, Types
<1>2. /\ main' \in Seq(Messages) /\ Head(main) \in Messages
      /\ Len(main) \in Nat /\ 1 \in Waiting /\ Head(main) = main[1] /\ Len(main') = Len(main) - 1
      /\ \A i \in 1..Len(main') : i + 1 \in Waiting /\ main'[i] = main[i + 1]
      /\ Len(main) = 1 => main' = <<>>
  BY <1>1, TakenFacts DEF Waiting
<1>3. Head(main).req \in Requests /\ state[Head(main).req] = "complete"
  BY <1>2 DEF Messages, UInv, Reported
<1>4. state[Opening] = "complete" /\ request # None
  BY DEF UInv, OpeningFirst
<1>5. Head(main).req = Opening => main' = <<>> /\ Quiet
  BY <1>2 DEF UInv, OpeningFirst
<1>6. ASSUME NEW i \in 1..Len(main') PROVE main'[i].req # Opening
  <2> SUFFICES ASSUME main'[i].req = Opening PROVE FALSE  OBVIOUS
  <2>1. i + 1 \in Waiting /\ main[i + 1].req = Opening  BY <1>2, <1>6
  <2>2. Len(main) = 1  BY <2>1 DEF UInv, OpeningFirst
  <2> QED  BY <2>1, <2>2, <1>2, <1>6 DEF Waiting
<1>7. ASSUME Head(main).req = Closing, NEW i \in 1..Len(main') PROVE main'[i].req # Closing
  <2> SUFFICES ASSUME main'[i].req = Closing PROVE FALSE  OBVIOUS
  <2>1. i + 1 \in Waiting /\ main[i + 1].req = Closing  BY <1>2, <1>7
  <2>2. i + 1 = 1  BY <2>1, <1>2, <1>7 DEF UInv, ClosingOnce
  <2> QED  BY <2>2, <1>2, <1>7
<1>8. ASSUME outcome # "none"
      PROVE  /\ state[Closing] = "complete" /\ Head(main).req # Closing
             /\ \A i \in 1..Len(main') : main'[i].req # Closing
  BY <1>8, <1>2 DEF UInv, OutcomeLast
<1> QED  BY <1>2, <1>3, <1>4, <1>5, <1>6, <1>7, <1>8

(* The main thread takes a message, and the requests stay as they are. *)
LEMMA MessageTaken ==
    ASSUME UInv, main # <<>>, main' = Tail(main), undefined' \in BOOLEAN,
           requestsCount' \in Int, requestsCount' <= requestsCount,
           outcome' \in {"none", "success", "fail"},
           outcome' # outcome => Head(main).req \in {Opening, Closing} /\ outcome' # "none",
           UNCHANGED <<parts, stored, request, life, held, state, partCount>>
    PROVE  UInv'
<1> DEFINE new == 1..Len(main')
<1>1. Parts' = Parts  BY DEF Parts
<1>2. /\ main' \in Seq(Messages)
      /\ \A i \in new : i + 1 \in Waiting /\ main'[i] = main[i + 1] /\ main'[i].req # Opening
      /\ state[Opening] = "complete" /\ request # None
      /\ Head(main).req = Opening => main' = <<>> /\ Quiet
      /\ Head(main).req = Closing => \A i \in new : main'[i].req # Closing
      /\ outcome # "none" =>
            state[Closing] = "complete" /\ \A i \in new : main'[i].req # Closing
      /\ state[Head(main).req] = "complete"
  BY Took
<1> HIDE DEF new
<1>3. Types'  BY <1>1, <1>2 DEF UInv, Types
<1>4. OpeningFirst'  BY <1>2 DEF OpeningFirst, Waiting, new
<1>5. Reported'
  <2> SUFFICES ASSUME NEW i \in new PROVE state[main'[i].req] = "complete"
    BY DEF Reported, Waiting, new
  <2> QED  BY <1>2 DEF UInv, Reported
<1>6. PartsCounted'
  <2>1. requestsCount \in Int  BY DEF UInv, Types
  <2>2. requestsCount <= 0 => requestsCount' <= 0  BY <2>1
  <2> QED  BY <2>2 DEF UInv, PartsCounted
<1>7. ClosingOnce'
  <2>1. ASSUME NEW i \in new, main'[i].req = Closing, main'[i].what = "accepted"
        PROVE  stored' = Parts'
    BY <1>1, <1>2, <2>1 DEF UInv, ClosingOnce
  <2>2. ASSUME NEW i \in new, NEW j \in new, main'[i].req = Closing, main'[j].req = Closing
        PROVE  i = j
    <3>1. i + 1 = j + 1  BY <1>2, <2>2 DEF UInv, ClosingOnce
    <3> QED  BY <3>1, <2>2 DEF new
  <2> QED  BY <2>1, <2>2 DEF ClosingOnce, Waiting, new
<1>8. OutcomeLast'
  <2>1. CASE outcome # "none"
    BY <2>1, <1>2 DEF OutcomeLast, Waiting, new
  <2>2. CASE outcome' # outcome /\ Head(main).req = Opening
    BY <2>2, <1>2 DEF OutcomeLast, Quiet
  <2>3. CASE outcome' # outcome /\ Head(main).req = Closing
    BY <2>3, <1>2 DEF OutcomeLast, Waiting, new
  <2> QED  BY <2>1, <2>2, <2>3 DEF OutcomeLast
<1>9. HeldAlive'  BY DEF UInv, HeldAlive
<1> QED  BY <1>3, <1>4, <1>5, <1>6, <1>7, <1>8, <1>9 DEF UInv

(* The uploader is opened, and puts the parts of the file into the queue. *)
LEMMA PartsQueued ==
    ASSUME UInv, main # <<>>, main' = Tail(main), Head(main).req = Opening, QueueParts,
           UNCHANGED <<parts, stored, request, life, held, outcome, undefined>>
    PROVE  UInv'
<1>1. main' = <<>> /\ Quiet /\ state[Opening] = "complete" /\ request # None
  BY Took
<1>2. Types  BY DEF UInv
<1>3. /\ \A r \in Requests : state'[r] \in {state[r], "waiting"}
      /\ state'[Opening] = "complete" /\ state'[Closing] = "none"
      /\ state' \in [Requests -> {"none", "waiting", "running", "complete"}]
  BY <1>1, <1>2, RequestFacts, PartFacts DEF QueueParts, Quiet, Types
<1>4. partCount' = parts  BY DEF QueueParts, PartCount
<1>5. requestsCount' \in Int
  BY <1>2, UploaderAssumption DEF QueueParts, Types
<1>6. main' \in Seq(Messages) /\ Waiting' = {}
  <2>1. main' \in Seq(Messages) /\ Len(main') = 0  BY <1>1, EmptySeq
  <2> QED  BY <2>1 DEF Waiting
<1>7. Types'  BY <1>2, <1>3, <1>5, <1>6 DEF Types, Parts
<1>8. OpeningFirst'  BY <1>1, <1>3, <1>6 DEF OpeningFirst
<1>9. Reported' /\ ClosingOnce'  BY <1>6 DEF Reported, ClosingOnce
<1>10. PartsCounted'  BY <1>1, <1>3, <1>4 DEF PartsCounted, Quiet
<1>11. OutcomeLast'  BY <1>1 DEF OutcomeLast, Quiet
<1>12. HeldAlive'  BY DEF UInv, HeldAlive
<1> QED  BY <1>7, <1>8, <1>9, <1>10, <1>11, <1>12 DEF UInv

(* The last part has reported, and the uploader makes the closing request. *)
LEMMA ClosingMade ==
    ASSUME UInv, main # <<>>, main' = Tail(main), Head(main).req \notin {Opening, Closing},
           requestsCount' = requestsCount - 1, requestsCount' = 0,
           request' = Closing, state' = [state EXCEPT ![Closing] = "waiting"],
           UNCHANGED <<parts, stored, life, held, partCount, outcome, undefined>>
    PROVE  UInv'
<1> DEFINE new == 1..Len(main')
<1>1. Types  BY DEF UInv
<1>2. /\ main' \in Seq(Messages)
      /\ \A i \in new : i + 1 \in Waiting /\ main'[i] = main[i + 1] /\ main'[i].req # Opening
      /\ state[Opening] = "complete"
      /\ Head(main).req \in Requests /\ state[Head(main).req] = "complete"
      /\ outcome # "none" => state[Closing] = "complete"
  BY Took
<1> HIDE DEF new
<1>3. partCount = parts  BY <1>2 DEF UInv, PartsCounted
<1>4. request # Closing /\ state[Closing] = "none"
  BY <1>1, RequestFacts DEF UInv, PartsCounted, Types
<1>5. outcome = "none"  BY <1>2, <1>4
<1>6. \A i \in new : main'[i].req # Closing /\ state[main'[i].req] = "complete"
  BY <1>2, <1>4 DEF UInv, Reported
<1>7. \A i \in new : main'[i].req \in Requests
  <2> SUFFICES ASSUME NEW i \in new PROVE main'[i].req \in Requests  OBVIOUS
  <2>1. main'[i] \in Messages  BY <1>2, ElementOfSeq DEF new
  <2> QED  BY <2>1 DEF Messages
<1>8. /\ state'[Closing] = "waiting" /\ \A r \in Requests : r # Closing => state'[r] = state[r]
      /\ state' \in [Requests -> {"none", "waiting", "running", "complete"}]
  BY <1>1, RequestFacts DEF Types
<1>9. Types'  BY <1>1, <1>2, <1>8 DEF Types, Parts
<1>10. OpeningFirst'
  <2>1. state'[Opening] = "complete"  BY <1>2, <1>8, RequestFacts
  <2>2. request' # None  BY UploaderAssumption, RequestFacts
  <2> QED  BY <2>1, <2>2, <1>2 DEF OpeningFirst, Waiting, new
<1>11. Reported'  BY <1>6, <1>7, <1>8 DEF Reported, Waiting, new
<1>12. PartsCounted'  BY <1>3, RequestFacts DEF PartsCounted
<1>13. ClosingOnce'  BY <1>6 DEF ClosingOnce, Waiting, new
<1>14. OutcomeLast' /\ HeldAlive'  BY <1>5 DEF OutcomeLast, UInv, HeldAlive
<1> QED  BY <1>9, <1>10, <1>11, <1>12, <1>13, <1>14 DEF UInv

(* An operation queue starts a request. *)
LEMMA RequestStarts ==
    ASSUME UInv, NEW r \in Requests, Start(r)
    PROVE  UInv'
<1>1. Types /\ state[r] = "waiting"  BY DEF UInv, Start
<1>2. UNCHANGED <<parts, request, life, requestsCount, partCount, outcome, held, undefined,
                  main, stored>>
  BY DEF Start, client, queue, result
<1>3. /\ state'[r] = "running" /\ \A q \in Requests : q # r => state'[q] = state[q]
      /\ state' \in [Requests -> {"none", "waiting", "running", "complete"}]
  BY <1>1 DEF Start, Types
<1>4. Types'  BY <1>1, <1>2, <1>3 DEF Types, Parts
<1>5. \A i \in Waiting : main[i].req \in Requests /\ main[i].req # r
  <2> SUFFICES ASSUME NEW i \in Waiting PROVE main[i].req \in Requests /\ main[i].req # r
    OBVIOUS
  <2>1. main[i] \in Messages  BY <1>1, ElementOfSeq DEF Types, Waiting
  <2> QED  BY <2>1, <1>1 DEF UInv, Reported, Messages
<1>6. Quiet => r = Opening  BY <1>1 DEF Quiet
<1>7. Quiet => Quiet'  BY <1>2, <1>3, <1>6 DEF Quiet
<1>8. OpeningFirst'
  <2>1. request = None => state'[Opening] = "none"
    BY <1>1, <1>3, <1>6, RequestFacts DEF UInv, OpeningFirst
  <2>2. state'[Opening] # "complete" => state[Opening] # "complete"
    BY <1>1, <1>3, RequestFacts
  <2> QED  BY <2>1, <2>2, <1>2, <1>7 DEF UInv, OpeningFirst, Waiting
<1>9. Reported'  BY <1>2, <1>3, <1>5 DEF UInv, Reported, Waiting
<1>10. PartsCounted'
  <2>1. \A q \in Requests : state'[q] # "none" => state[q] # "none"  BY <1>1, <1>3
  <2> QED  BY <2>1, <1>2, RequestFacts DEF UInv, PartsCounted
<1>11. ClosingOnce'  BY <1>2 DEF UInv, ClosingOnce, Waiting, Parts
<1>12. OutcomeLast'
  <2> SUFFICES ASSUME outcome # "none" PROVE OutcomeLast'  BY <1>2 DEF OutcomeLast
  <2>1. CASE state[Closing] = "complete" /\ \A i \in Waiting : main[i].req # Closing
    BY <2>1, <1>1, <1>2, <1>3, RequestFacts DEF OutcomeLast, Waiting
  <2>2. CASE state[Opening] = "complete" /\ \A q \in Requests \ {Opening} : state[q] = "none"
    BY <2>2, <1>1
  <2> QED  BY <2>1, <2>2 DEF UInv, OutcomeLast
<1>13. HeldAlive'  BY <1>2 DEF UInv, HeldAlive
<1> QED  BY <1>4, <1>8, <1>9, <1>10, <1>11, <1>12, <1>13 DEF UInv

-----------------------------------------------------------------------------
(* Whatever goes on, the client sees that the upload goes on or is abandoned. *)
LEMMA NoCallback ==
    ASSUME UInv, ~undefined, undefined' \in BOOLEAN, request = None <=> request' = None,
           UNCHANGED <<parts, stored, outcome, life>>
    PROVE  [Promise!Next]_(Promise!vars)
<1>1. CASE undefined' /\ outcome = "none" /\ life = "alive"
  <2>1. phase \in {"idle", "running"} /\ phase' = "abandoned"  BY <1>1 DEF phase
  <2> QED  BY <2>1 DEF Promise!Next, Promise!Abandon
<1>2. CASE ~(undefined' /\ outcome = "none" /\ life = "alive")
  <2>1. phase' = phase  BY <1>2 DEF phase
  <2> QED  BY <2>1 DEF Promise!vars
<1> QED  BY <1>1, <1>2

(* A callback ends a running upload. *)
LEMMA CallbackEnds ==
    ASSUME UInv, ~undefined, request # None, life = "alive", outcome = "none",
           NEW what \in {"success", "fail"}, what = "success" => stored = Parts,
           outcome' = what, UNCHANGED <<parts, stored>>
    PROVE  [Promise!Next]_(Promise!vars)
<1>1. phase = "running" /\ phase' = what  BY DEF phase
<1>2. Promise!End(what)  BY <1>1 DEF Promise!End, Parts
<1> QED  BY <1>2 DEF Promise!Next

(* An upload begins as one. *)
LEMMA Begins == Init => UInv /\ Promise!Init
<1> SUFFICES ASSUME Init PROVE UInv /\ Promise!Init  OBVIOUS
<1>1. main \in Seq(Messages) /\ Waiting = {}
  <2>1. main = <<>>  BY DEF Init
  <2>2. main \in Seq(Messages) /\ Len(main) = 0  BY <2>1, EmptySeq
  <2> QED  BY <2>2 DEF Waiting
<1>2. Types
  <2>1. state \in [Requests -> {"none", "waiting", "running", "complete"}] /\ requestsCount \in Int
    BY DEF Init
  <2> QED  BY <1>1, <2>1 DEF Init, Types
<1>3. Quiet  BY RequestFacts, UploaderAssumption DEF Init, Quiet
<1>4. OpeningFirst  BY <1>1, <1>3, RequestFacts DEF Init, OpeningFirst
<1>5. Reported /\ ClosingOnce  BY <1>1 DEF Reported, ClosingOnce
<1>6. PartsCounted  BY RequestFacts, UploaderAssumption DEF Init, PartsCounted
<1>7. OutcomeLast /\ HeldAlive  BY DEF Init, OutcomeLast, HeldAlive
<1>8. Promise!Init
  <2>1. phase = "idle"  BY DEF Init, phase
  <2> QED  BY <2>1 DEF Init, Promise!Init
<1> QED  BY <1>2, <1>4, <1>5, <1>6, <1>7, <1>8 DEF UInv

(* The client starts an upload, or lets go of the uploader. *)
LEMMA ClientStep ==
    ASSUME UInv, Go \/ (\E thread \in {"main", "another"} : Drop(thread)) \/ EndDealloc
    PROVE  UInv' /\ [Promise!Next]_(Promise!vars)
<1>1. Types /\ HeldAlive  BY DEF UInv
<1>2. CASE Go
  <2>1. /\ state[Opening] = "none" /\ main = <<>> /\ Quiet
        /\ held /\ request = None /\ ~undefined /\ request' = Opening
        /\ state' = [state EXCEPT ![Opening] = "waiting"]
        /\ UNCHANGED <<parts, held, life, requestsCount, partCount, main, stored, outcome,
                       undefined>>
    BY <1>2 DEF Go, UInv, OpeningFirst, client, queue, result
  <2>2. request' # None  BY <2>1, UploaderAssumption, RequestFacts
  <2>3. /\ state' \in [Requests -> {"none", "waiting", "running", "complete"}]
        /\ state'[Opening] = "waiting"
        /\ \A r \in Requests \ {Opening} : state'[r] = "none"
    BY <1>1, <2>1, RequestFacts DEF Types, Quiet
  <2>4. Waiting' = {}
    <3>1. Len(main') = 0  BY <2>1, EmptySeq
    <3> QED  BY <3>1 DEF Waiting
  <2>5. Types'  BY <1>1, <2>1, <2>3 DEF Types, Parts
  <2>6. Quiet'  BY <2>1, <2>3, RequestFacts DEF Quiet
  <2>7. OpeningFirst'  BY <2>1, <2>2, <2>4, <2>6 DEF OpeningFirst
  <2>8. Reported' /\ ClosingOnce'  BY <2>4 DEF Reported, ClosingOnce
  <2>9. PartsCounted'  BY <2>1, <2>3, RequestFacts DEF PartsCounted
  <2>10. OutcomeLast' /\ HeldAlive'  BY <1>1, <2>1 DEF Quiet, OutcomeLast, HeldAlive
  <2>11. UInv'  BY <2>5, <2>7, <2>8, <2>9, <2>10 DEF UInv
  <2>12. phase = "idle" /\ phase' = "running"
    BY <1>1, <2>1, <2>2 DEF Quiet, HeldAlive, phase
  <2>13. Promise!Begin  BY <2>1, <2>12 DEF Promise!Begin
  <2> QED  BY <2>11, <2>13 DEF Promise!Next
<1>3. CASE (\E thread \in {"main", "another"} : Drop(thread)) \/ EndDealloc
  <2> DEFINE gone == /\ life \in {"alive", "dying"} /\ life' \in {"dying", "dead"}
                     /\ held' = FALSE \/ (held' = held /\ life = "dying")
  <2>1. UNCHANGED <<parts, request, state, requestsCount, partCount, main, stored, outcome,
                    undefined>>
    BY <1>3 DEF Drop, EndDealloc, result
  <2>2. gone \/ (life' = life /\ held' = FALSE)
    <3>1. CASE EndDealloc  BY <3>1 DEF EndDealloc, Dealloc
    <3>2. ASSUME NEW thread \in {"main", "another"}, Drop(thread)
          PROVE  gone \/ (life' = life /\ held' = FALSE)
      <4>1. held' = FALSE /\ life = "alive"  BY <1>1, <3>2 DEF Drop, HeldAlive
      <4>2. life' \in {life, "dying", "dead"}  BY <3>2 DEF Drop, Dealloc
      <4> QED  BY <4>1, <4>2
    <3> QED  BY <1>3, <3>1, <3>2
  <2>3. UInv'
    <3>1. Types'  BY <1>1, <2>1, <2>2 DEF Types, Parts
    <3>2. OpeningFirst'  BY <2>1 DEF UInv, OpeningFirst, Quiet, Waiting
    <3>3. Reported' /\ PartsCounted'  BY <2>1 DEF UInv, Reported, PartsCounted, Waiting
    <3>4. ClosingOnce' /\ OutcomeLast'
      BY <2>1 DEF UInv, ClosingOnce, OutcomeLast, Waiting, Parts
    <3>5. HeldAlive'  BY <1>1, <2>2 DEF HeldAlive
    <3> QED  BY <3>1, <3>2, <3>3, <3>4, <3>5 DEF UInv
  <2>4. phase' = phase \/ (phase \in {"idle", "running"} /\ phase' = "abandoned")
    <3>1. CASE gone  BY <2>1, <3>1 DEF phase
    <3>2. CASE life' = life  BY <2>1, <3>2 DEF phase
    <3> QED  BY <2>2, <3>1, <3>2
  <2>5. [Promise!Next]_(Promise!vars)
    BY <2>1, <2>4 DEF Promise!Next, Promise!Abandon, Promise!vars
  <2> QED  BY <2>3, <2>5
<1> QED  BY <1>2, <1>3

(* A message on its own. *)
LEMMA OneMessage ==
    ASSUME NEW m \in Messages
    PROVE  /\ <<m>> \in Seq(Messages) /\ Len(<<m>>) = 1 /\ <<m>>[1] = m
           /\ \A i \in 1..Len(<<m>>) : <<m>>[i] = m
OBVIOUS

(* A step of the request thread. *)
LEMMA RequestThreadStep ==
    ASSUME UInv, RequestThread
    PROVE  UInv' /\ [Promise!Next]_(Promise!vars)
<1>1. Types  BY DEF UInv
<1> DEFINE kinds == {"opened", "no dictionary", "no zone", "accepted", "refused",
                     "sent", "finished", "failed"}
<1>2. ASSUME NEW what \in kinds, NEW r \in Requests
      PROVE  Message(what, r) \in Messages /\ Message(what, r).req = r /\ Message(what, r).what = what
  BY <1>2 DEF Message, Messages
<1> HIDE DEF kinds
<1>3. CASE \E r \in Requests : Start(r)
  <2>1. PICK r \in Requests : Start(r)  BY <1>3
  <2>2. UInv'  BY <2>1, RequestStarts
  <2>3. UNCHANGED <<parts, request, stored, life, outcome, undefined>> /\ ~undefined
    BY <2>1 DEF Start, client, result
  <2> QED  BY <1>1, <2>2, <2>3, NoCallback DEF Types
<1>4. CASE \E r \in Requests : CancelOnRequestThread(r)
  <2>1. PICK r \in Requests : CancelOnRequestThread(r)  BY <1>4
  <2>2. /\ UNCHANGED <<parts, request, life, requestsCount, partCount, outcome, held, undefined,
                       stored>>
        /\ ~undefined
    BY <2>1 DEF CancelOnRequestThread, client, queue, result
  <2>3. CASE r \in Unfinished
    <3> DEFINE t == <<Message("failed", r)>>
    <3>1. /\ t \in Seq(Messages) /\ Len(t) = 1 /\ t[1].what = "failed" /\ t[1].req = r
      BY <1>2, OneMessage DEF kinds
    <3>2. \A i \in 1..Len(t) : t[i].req = r  BY <3>1
    <3>3. /\ main' = main \o t
          /\ state' = [state EXCEPT ![r] = "complete"] /\ state[r] \in {"waiting", "running"}
      <4>1. main' = Append(main, Message("failed", r))
        BY <2>1, <2>3 DEF CancelOnRequestThread
      <4>2. main \in Seq(Messages) /\ Message("failed", r) \in Messages
        BY <1>1, <1>2 DEF Types, kinds
      <4>3. Append(main, Message("failed", r)) = main \o t  BY <4>2, AppendIsConcat
      <4>4. state' = [state EXCEPT ![r] = "complete"] /\ state[r] \in {"waiting", "running"}
        BY <2>1, <2>3 DEF CancelOnRequestThread, Unfinished
      <4> QED  BY <4>1, <4>3, <4>4
    <3> HIDE DEF t
    <3>4. UInv'  BY <1>1, <2>2, <3>1, <3>2, <3>3, RequestEnds DEF Types, Parts
    <3> QED  BY <1>1, <2>2, <3>4, NoCallback DEF Types
  <2>4. CASE r \notin Unfinished
    <3>1. UNCHANGED <<state, main>>  BY <2>1, <2>4 DEF CancelOnRequestThread
    <3>2. UInv'
      BY <2>2, <3>1 DEF UInv, Types, OpeningFirst, Quiet, Reported, PartsCounted, ClosingOnce,
                        OutcomeLast, HeldAlive, Waiting, Parts
    <3> QED  BY <1>1, <2>2, <3>2, NoCallback DEF Types
  <2> QED  BY <2>3, <2>4
<1>5. ASSUME NEW r \in Requests, NEW t \in Seq(Messages), Complete(r, t),
             \A i \in 1..Len(t) : t[i].req = r,
             r \in {Opening, Closing} => Len(t) = 1,
             r = Closing /\ t[1].what = "accepted" => stored = Parts,
             stored \subseteq stored', stored' \subseteq Parts
      PROVE  UInv' /\ (stored' = stored => [Promise!Next]_(Promise!vars))
  <2>1. /\ UNCHANGED <<parts, request, life, requestsCount, partCount, outcome, held, undefined>>
        /\ ~undefined
        /\ state' = [state EXCEPT ![r] = "complete"] /\ main' = main \o t
        /\ state[r] \in {"waiting", "running"}
    BY <1>5 DEF Complete, client, queue, result
  <2>2. UInv'  BY <1>5, <2>1, RequestEnds
  <2> QED  BY <1>1, <2>1, <2>2, NoCallback DEF Types
<1>6. CASE OpeningEnds
  <2>1. PICK what \in {"opened", "no dictionary", "no zone", "failed"} :
            Complete(Opening, <<Message(what, Opening)>>)
    BY <1>6 DEF OpeningEnds
  <2>2. stored' = stored  BY <1>6 DEF OpeningEnds
  <2> DEFINE t == <<Message(what, Opening)>>
  <2>3. t \in Seq(Messages) /\ Len(t) = 1 /\ \A i \in 1..Len(t) : t[i].req = Opening
    <3> DEFINE m == Message(what, Opening)
    <3>1. what \in kinds /\ Opening \in Requests  BY RequestFacts DEF kinds
    <3>2. m \in Messages /\ m.req = Opening  BY <1>2, <3>1
    <3> HIDE DEF m
    <3>3. /\ <<m>> \in Seq(Messages) /\ Len(<<m>>) = 1 /\ <<m>>[1] = m
          /\ \A i \in 1..Len(<<m>>) : <<m>>[i] = m
      BY ONLY <3>2, OneMessage
    <3> QED  BY <3>2, <3>3 DEF m
  <2>4. Complete(Opening, t)  BY <2>1
  <2> HIDE DEF t
  <2> QED  BY <1>1, <1>5, <2>2, <2>3, <2>4, RequestFacts DEF Types
<1>7. CASE ClosingEnds
  <2>1. PICK what \in {"accepted", "refused", "failed"} :
            /\ what = "accepted" => stored = 0..(partCount - 1)
            /\ Complete(Closing, <<Message(what, Closing)>>)
    BY <1>7 DEF ClosingEnds
  <2>2. stored' = stored  BY <1>7 DEF ClosingEnds
  <2> DEFINE t == <<Message(what, Closing)>>
  <2>3. t \in Seq(Messages) /\ Len(t) = 1 /\ t[1].what = what /\ \A i \in 1..Len(t) : t[i].req = Closing
    <3> DEFINE m == Message(what, Closing)
    <3>1. what \in kinds /\ Closing \in Requests  BY RequestFacts DEF kinds
    <3>2. m \in Messages /\ m.req = Closing /\ m.what = what  BY <1>2, <3>1
    <3> HIDE DEF m
    <3>3. /\ <<m>> \in Seq(Messages) /\ Len(<<m>>) = 1 /\ <<m>>[1] = m
          /\ \A i \in 1..Len(<<m>>) : <<m>>[i] = m
      BY ONLY <3>2, OneMessage
    <3> QED  BY <3>2, <3>3 DEF m
  <2>4. Complete(Closing, t)  BY <2>1
  <2>5. partCount = parts
    BY <2>1 DEF Complete, UInv, PartsCounted
  <2>6. t[1].what = "accepted" => stored = Parts  BY <2>1, <2>3, <2>5 DEF Parts
  <2> HIDE DEF t
  <2> QED  BY <1>1, <1>5, <2>2, <2>3, <2>4, <2>6, RequestFacts DEF Types
<1>8. CASE \E p \in Parts : PartEnds(p)
  <2>1. PICK p \in Parts : PartEnds(p)  BY <1>8
  <2>2. stored' \in {stored, stored \cup {p}}  BY <2>1 DEF PartEnds
  <2>3. Part(p) \in Requests /\ Part(p) \notin {Opening, Closing}  BY <1>1, PartFacts
  <2> DEFINE r == Part(p)
             s == <<Message("sent", r), Message("finished", r)>>
             f == <<Message("finished", r)>>
             x == <<Message("failed", r)>>
  <2>4. /\ Message("sent", r) \in Messages /\ Message("sent", r).req = r
        /\ Message("finished", r) \in Messages /\ Message("finished", r).req = r
        /\ Message("failed", r) \in Messages /\ Message("failed", r).req = r
    BY <1>2, <2>3 DEF kinds
  <2>5. /\ s \in Seq(Messages) /\ \A i \in 1..Len(s) : s[i].req = r
        /\ f \in Seq(Messages) /\ \A i \in 1..Len(f) : f[i].req = r
        /\ x \in Seq(Messages) /\ \A i \in 1..Len(x) : x[i].req = r
    BY <2>4
  <2>6. Complete(r, s) \/ Complete(r, f) \/ Complete(r, x)  BY <2>1 DEF PartEnds
  <2>7. /\ UNCHANGED <<parts, request, life, outcome, undefined>> /\ ~undefined
        /\ state[r] = "running"
    BY <2>6 DEF Complete, client, result
  <2> HIDE DEF r, s, f, x
  <2>8. UInv' /\ (stored' = stored => [Promise!Next]_(Promise!vars))
    <3>1. stored \subseteq stored' /\ stored' \subseteq Parts
      BY <1>1, <2>1, <2>2 DEF Types
    <3>2. r \in Requests /\ r \notin {Opening, Closing}  BY <2>3 DEF r
    <3> QED  BY <1>5, <2>5, <2>6, <3>1, <3>2
  <2>9. CASE stored' = stored \cup {p}
    <3>1. request # None
      BY <2>3, <2>7 DEF UInv, OpeningFirst, Quiet, r
    <3>2. phase # "idle"  BY <1>1, <3>1 DEF phase, Types
    <3>3. phase' = phase  BY <2>7 DEF phase
    <3>4. Promise!Store(p)  BY <2>7, <2>9, <3>2, <3>3 DEF Promise!Store
    <3> QED  BY <2>1, <2>8, <3>4 DEF Promise!Next, Parts
  <2> QED  BY <2>2, <2>8, <2>9
<1> QED  BY <1>3, <1>4, <1>6, <1>7, <1>8 DEF RequestThread

(* A step of the main thread. *)
LEMMA MainThreadStep ==
    ASSUME UInv, MainThread
    PROVE  UInv' /\ [Promise!Next]_(Promise!vars)
<1>1. Types /\ requestsCount \in Int /\ undefined \in BOOLEAN  BY DEF UInv, Types
<1>2. /\ main # <<>> /\ ~undefined /\ main' = Tail(main)
      /\ UNCHANGED <<parts, held, life, stored>>
  BY DEF MainThread, Opened, OpeningFails, PartSent, PartFinished, PartFailed, Closed, Take,
         client, network, QueueParts
<1>3. /\ Head(main).req \in Requests /\ request # None
      /\ Head(main).req = Opening => Quiet
      /\ outcome # "none" => Head(main).req # Closing
      /\ 1 \in Waiting /\ Head(main) = main[1]
  BY <1>2, Took
(* A step without a callback after which the requests are as before. *)
<1>4. ASSUME UNCHANGED <<request, state, partCount, outcome>>, undefined' \in BOOLEAN,
             requestsCount' \in {requestsCount, requestsCount - 1}
      PROVE  UInv' /\ [Promise!Next]_(Promise!vars)
  <2>1. requestsCount' \in Int /\ requestsCount' <= requestsCount /\ outcome' \in {"none", "success", "fail"}
    BY <1>1, <1>4 DEF Types
  <2>2. UInv'  BY <1>2, <1>4, <2>1, MessageTaken
  <2> QED  BY <1>2, <1>3, <1>4, <2>2, NoCallback
(* A callback of the client. *)
<1>5. ASSUME UNCHANGED <<request, state, partCount, requestsCount, undefined>>,
             Head(main).req \in {Opening, Closing}, life = "alive",
             NEW what \in {"success", "fail"}, outcome' = what,
             what = "success" => stored = Parts
      PROVE  UInv' /\ [Promise!Next]_(Promise!vars)
  <2>1. requestsCount' \in Int /\ requestsCount' <= requestsCount
    BY <1>1, <1>5
  <2>2. UInv'  BY <1>1, <1>2, <1>5, <2>1, MessageTaken
  <2>3. outcome = "none"  BY <1>3, <1>5 DEF Quiet
  <2> QED  BY <1>2, <1>3, <1>5, <2>2, <2>3, CallbackEnds
<1>6. CASE OpeningFails
  <2>1. UNCHANGED <<request, state, partCount, requestsCount>> /\ Head(main).req = Opening
    BY <1>3, <1>6, RequestFacts DEF OpeningFails, queue, network, Take
  <2>2. CASE Silent \/ Breaks  BY <1>1, <1>4, <2>1, <2>2 DEF Silent, Breaks
  <2>3. CASE Call("fail") /\ life = "alive"  BY <1>5, <2>1, <2>3 DEF Call
  <2> QED  BY <1>6, <2>2, <2>3 DEF OpeningFails, FailOpening
<1>7. CASE Opened
  <2>1. UNCHANGED request /\ Head(main).req = Opening
    BY <1>3, <1>7, RequestFacts DEF Opened, Take
  <2>2. CASE (Silent \/ Breaks) /\ UNCHANGED <<state, queue>>
    BY <1>1, <1>4, <2>1, <2>2 DEF Silent, Breaks, queue
  <2>3. CASE QueueParts /\ Silent
    <3>1. UInv'  BY <1>2, <2>1, <2>3, PartsQueued DEF Silent
    <3> QED  BY <1>1, <1>2, <1>3, <2>1, <2>3, <3>1, NoCallback DEF Silent
  <2> QED  BY <1>7, <2>2, <2>3 DEF Opened
<1>8. CASE PartSent
  <2>1. UNCHANGED <<request, state, partCount, requestsCount>> /\ (Silent \/ Breaks)
    BY <1>8 DEF PartSent, network
  <2> QED  BY <1>1, <1>4, <2>1 DEF Silent, Breaks
<1>9. CASE PartFinished \/ PartFailed
  <2>1. /\ requestsCount' = requestsCount - 1 /\ TellUploader /\ UNCHANGED partCount
        /\ Head(main).req \notin {Opening, Closing}
    BY <1>3, <1>9, RequestFacts DEF PartFinished, PartFailed, CountAfterFailure, Take
  <2>2. CASE (Silent \/ Breaks) /\ UNCHANGED <<request, blocks, state>>
    BY <1>1, <1>4, <2>1, <2>2 DEF Silent, Breaks
  <2>3. CASE /\ requestsCount' = 0 /\ request' = Closing
             /\ state' = [state EXCEPT ![Closing] = "waiting"] /\ Silent
    <3>1. UInv'  BY <1>2, <2>1, <2>3, ClosingMade DEF Silent
    <3>2. request' # None  BY <2>3, UploaderAssumption, RequestFacts
    <3> QED  BY <1>1, <1>2, <1>3, <2>3, <3>1, <3>2, NoCallback DEF Silent
  <2> QED  BY <2>1, <2>2, <2>3 DEF TellUploader, UploadFinish
<1>10. CASE Closed
  <2>1. UNCHANGED <<request, state, partCount, requestsCount>> /\ Head(main).req = Closing
    BY <1>3, <1>10, RequestFacts DEF Closed, queue, network, Take
  <2>2. CASE Silent  BY <1>1, <1>4, <2>1, <2>2 DEF Silent
  <2>3. CASE Call(IF Head(main).what = "accepted" THEN "success" ELSE "fail") /\ life = "alive"
    <3>1. Head(main).what = "accepted" => stored = Parts
      BY <1>3, <2>1 DEF UInv, ClosingOnce
    <3>2. CASE Head(main).what = "accepted"
      BY <1>5, <2>1, <2>3, <3>1, <3>2 DEF Call
    <3>3. CASE Head(main).what # "accepted"
      BY <1>5, <2>1, <2>3, <3>3 DEF Call
    <3> QED  BY <3>2, <3>3
  <2> QED  BY <1>10, <2>2, <2>3 DEF Closed
<1> QED  BY <1>6, <1>7, <1>8, <1>9, <1>10 DEF MainThread

-----------------------------------------------------------------------------
(* A step, or none, of the uploader is one, or none, of an upload. *)
LEMMA StepsMap == UInv /\ [Next]_vars => UInv' /\ [Promise!Next]_(Promise!vars)
<1> SUFFICES ASSUME UInv, [Next]_vars PROVE UInv' /\ [Promise!Next]_(Promise!vars)
  OBVIOUS
<1>1. CASE UNCHANGED vars
  <2>1. UNCHANGED <<parts, held, life, request, partCount, requestsCount, state, main, stored,
                    outcome, undefined>>
    BY <1>1 DEF vars, client, queue, network, result
  <2>2. UInv'
    BY <2>1 DEF UInv, Types, OpeningFirst, Quiet, Reported, PartsCounted, ClosingOnce,
                OutcomeLast, HeldAlive, Waiting, Parts
  <2>3. phase' = phase  BY <2>1 DEF phase
  <2> QED  BY <2>1, <2>2, <2>3 DEF Promise!vars
<1>2. CASE Next  BY <1>2, ClientStep, RequestThreadStep, MainThreadStep DEF Next
<1> QED  BY <1>1, <1>2

(* What the client of an uploader sees is an upload as Upload promises it: it   *)
(* ends once, with success only if the server has every part, and it is silent *)
(* after the client has let go, whatever fails (KeepsPromise).                  *)
THEOREM UploaderKeepsPromise == Spec => KeepsPromise
<1>1. Spec => []UInv
  <2>1. Init => UInv  BY Begins
  <2>2. UInv /\ [Next]_vars => UInv'  BY StepsMap
  <2> QED  BY <2>1, <2>2, PTL DEF Spec
<1>2. Init => Promise!Init  BY Begins
<1>3. UInv /\ [Next]_vars => [Promise!Next]_(Promise!vars)  BY StepsMap
<1> QED  BY <1>1, <1>2, <1>3, PTL DEF Spec, KeepsPromise, Promise!Spec

-----------------------------------------------------------------------------
(* Either message counts the request down. *)
Ends == {"finished", "failed"}

(* The requests that the queue counts. *)
IsPart(r) == r \notin {Opening, Closing}

(* The parts that may still have a message of these kinds for the main thread. *)
Due(whats) ==
    {p \in Parts :
        \/ state[Part(p)] \in {"waiting", "running"}
        \/ \E i \in 1..Len(main) : main[i].req = Part(p) /\ main[i].what \in whats}

(* No part has two. *)
OnceEach(whats) ==
    \A i, j \in 1..Len(main) :
        /\ main[i].what \in whats /\ main[j].what \in whats
        /\ main[i].req = main[j].req /\ IsPart(main[i].req)
        => i = j

(* Behind whatever else a part reports comes its end. *)
EndComes ==
    \A i \in 1..Len(main) : IsPart(main[i].req) =>
        \E j \in i..Len(main) : main[j].req = main[i].req /\ main[j].what \in Ends

(* The parts of the file are queued together, and none besides. *)
PartsTogether ==
    \A r \in Requests : IsPart(r) /\ state[r] # "none" =>
        /\ \E p \in Parts : r = Part(p)
        /\ \A p \in Parts : state[Part(p)] # "none"

(* The queue counts the parts that have not reported their end. *)
CountInv ==
    /\ requestsCount = Cardinality(Due(Ends))
    /\ OnceEach(Ends) /\ OnceEach({"sent"}) /\ EndComes /\ PartsTogether
    /\ request = Closing => requestsCount = 0 /\ \A p \in Parts : state[Part(p)] # "none"

(* How the uploader may have gone, and what its going leaves. *)
GoneInv ==
    /\ dropped \in {"no", "early", "parts", "elsewhere"}
    /\ life = "dying" => dropped = "elsewhere"
    /\ life = "dead" => blocks = {} /\ dropped # "no"
    /\ dropped = "early" => life = "dead" /\ requestsCount = 0

(* A progress is shown for a part that is in the total. *)
ProgressInv ==
    /\ sent \in Nat /\ total \in Nat
    /\ failures = {} /\ life # "dead" => sent + Cardinality(Due({"sent"})) <= total

(* Only a malformed answer has no zone. *)
AnswersInv == \A i \in 1..Len(main) : main[i].what = "no zone" => malformed

(* Why what is left undefined has a cause: inductive on top of UInv and CountInv. *)
HarmInv == GoneInv /\ ProgressInv /\ AnswersInv /\ NothingUndefined

-----------------------------------------------------------------------------
(* Parts are told apart by their index. *)
LEMMA PartsApart == \A p, q : Part(p) = Part(q) => p = q
BY DEF Part

(* Sets with the same elements. *)
LEMMA SetsEqual == ASSUME NEW S, NEW T, \A x : x \in S <=> x \in T PROVE S = T
OBVIOUS

(* There are finitely many parts that may report. *)
LEMMA DueFinite ==
    ASSUME Types, NEW whats
    PROVE  /\ IsFiniteSet(Parts) /\ Cardinality(Parts) = parts /\ parts \in Nat
           /\ Due(whats) \subseteq Parts /\ IsFiniteSet(Due(whats))
           /\ Cardinality(Due(whats)) \in Nat /\ Cardinality(Due(whats)) <= parts
<1>1. parts \in Nat  BY UploaderAssumption DEF Types
<1>2. IsFiniteSet(Parts) /\ Cardinality(Parts) = parts
  <2>1. 0 \in Int /\ parts - 1 \in Int  BY <1>1
  <2>2. IsFiniteSet(Parts) /\ Cardinality(Parts) = IF 0 > parts - 1 THEN 0 ELSE parts - 1 - 0 + 1
    BY <2>1, FS_Interval DEF Parts
  <2> QED  BY <1>1, <2>2
<1>3. Due(whats) \in SUBSET Parts  BY DEF Due
<1>4. IsFiniteSet(Due(whats)) /\ Cardinality(Due(whats)) <= Cardinality(Parts)
  BY <1>2, <1>3, FS_Subset
<1>5. Cardinality(Due(whats)) \in Nat  BY <1>4, FS_CardinalityType
<1> QED  BY <1>1, <1>2, <1>3, <1>4, <1>5

(* Starting a part, and whatever happens to other requests, changes nothing. *)
LEMMA DueSame ==
    ASSUME UNCHANGED <<main, parts>>, NEW whats,
           \A p \in Parts : state'[Part(p)] = state[Part(p)]
                            \/ {state[Part(p)], state'[Part(p)]} \subseteq {"waiting", "running"}
    PROVE  Due(whats)' = Due(whats) /\ (OnceEach(whats) => OnceEach(whats)') /\ (EndComes => EndComes')
<1>1. Parts' = Parts  BY DEF Parts
<1>2. OnceEach(whats) => OnceEach(whats)'  BY DEF OnceEach, IsPart
<1>3. EndComes => EndComes'  BY DEF EndComes, IsPart
<1>4. \A p \in Parts : p \in Due(whats)' <=> p \in Due(whats)  BY <1>1 DEF Due
<1>5. Due(whats)' \subseteq Parts /\ Due(whats) \subseteq Parts  BY <1>1 DEF Due
<1> QED  BY <1>2, <1>3, <1>4, <1>5

(* A request that ends may report less than it could have, never more. *)
LEMMA DueEnds ==
    ASSUME UInv, NEW r \in Requests, state[r] \in {"waiting", "running"},
           NEW t \in Seq(Messages), \A i \in 1..Len(t) : t[i].req = r,
           state' = [state EXCEPT ![r] = "complete"], main' = main \o t, parts' = parts,
           NEW whats, OnceEach(whats),
           \A i, j \in 1..Len(t) : t[i].what \in whats /\ t[j].what \in whats => i = j
    PROVE  /\ OnceEach(whats)'
           /\ Due(whats)' \subseteq Due(whats)
           /\ ~IsPart(r) \/ (\E i \in 1..Len(t) : t[i].what \in whats) => Due(whats)' = Due(whats)
<1> DEFINE old == 1..Len(main)
           new == 1..Len(main')
           own == 1..Len(t)
<1>1. /\ main \in Seq(Messages) /\ state \in [Requests -> {"none", "waiting", "running", "complete"}]
  BY DEF UInv, Types
<1>2. /\ Len(main) \in Nat /\ Len(t) \in Nat /\ Len(main') = Len(main) + Len(t)
      /\ \A i \in old : i \in new /\ main'[i] = main[i]
      /\ \A i \in new : i \notin old =>
            i - Len(main) \in own /\ main'[i] = t[i - Len(main)] /\ main'[i].req = r
      /\ \A i \in own : Len(main) + i \in new /\ Len(main) + i \notin old
  BY <1>1, AppendedFacts
<1>3. state'[r] = "complete" /\ \A q \in Requests : q # r => state'[q] = state[q]
  BY <1>1
<1>4. \A i \in old : main[i].req # r
  BY DEF UInv, Reported, Waiting
<1>5. Parts' = Parts  BY DEF Parts
<1>6. \A p \in Parts : Part(p) \in Requests /\ IsPart(Part(p))
  BY PartFacts DEF UInv, IsPart
<1>7. OnceEach(whats)'
  <2> SUFFICES ASSUME NEW i \in new, NEW j \in new,
                      main'[i].what \in whats, main'[j].what \in whats,
                      main'[i].req = main'[j].req, IsPart(main'[i].req)
               PROVE  i = j
    BY DEF OnceEach, IsPart
  <2>1. CASE i \in old /\ j \in old  BY <2>1, <1>2 DEF OnceEach
  <2>2. CASE i \notin old /\ j \notin old
    <3> DEFINE k == i - Len(main)
               l == j - Len(main)
    <3>1. k \in own /\ l \in own /\ t[k].what \in whats /\ t[l].what \in whats
      BY <2>2, <1>2
    <3>2. k = l  BY <3>1
    <3> QED  BY <3>2, <1>2
  <2>3. CASE ~(i \in old <=> j \in old)  BY <2>3, <1>2, <1>4
  <2> QED  BY <2>1, <2>2, <2>3
<1> HIDE DEF old, new, own
<1>8. \A p \in Parts : Part(p) # r => (p \in Due(whats)' <=> p \in Due(whats))
  <2> SUFFICES ASSUME NEW p \in Parts, Part(p) # r
               PROVE  p \in Due(whats)' <=> p \in Due(whats)
    OBVIOUS
  <2>1. state'[Part(p)] = state[Part(p)]  BY <1>3, <1>6
  <2>2. (\E i \in new : main'[i].req = Part(p) /\ main'[i].what \in whats)
            <=> \E i \in old : main[i].req = Part(p) /\ main[i].what \in whats
    BY <1>2
  <2> QED  BY <1>5, <2>1, <2>2 DEF Due, old, new
<1>9. \A p \in Parts : Part(p) = r => p \in Due(whats)  BY DEF Due
<1>10. Due(whats)' \subseteq Due(whats)
  BY <1>5, <1>8, <1>9 DEF Due
<1>11. ASSUME ~IsPart(r) \/ \E i \in own : t[i].what \in whats
       PROVE  Due(whats) \subseteq Due(whats)'
  <2> SUFFICES ASSUME NEW p \in Parts, p \in Due(whats), Part(p) = r PROVE p \in Due(whats)'
    BY <1>8 DEF Due
  <2>1. PICK i \in own : t[i].what \in whats  BY <1>6, <1>11
  <2>2. Len(main) + i \in new /\ Len(main) + i \notin old  BY <1>2
  <2>3. /\ main'[Len(main) + i] = t[(Len(main) + i) - Len(main)]
        /\ main'[Len(main) + i].req = r
    BY <1>2, <2>2
  <2>4. (Len(main) + i) - Len(main) = i  BY <1>2 DEF own
  <2>5. main'[Len(main) + i].req = Part(p) /\ main'[Len(main) + i].what \in whats
    BY <2>1, <2>3, <2>4
  <2> QED  BY <1>5, <2>2, <2>5 DEF Due, new
<1> QED  BY <1>7, <1>10, <1>11 DEF own

(* A part that ends reports its end last. *)
LEMMA EndEnds ==
    ASSUME UInv, EndComes, NEW r \in Requests,
           NEW t \in Seq(Messages), \A i \in 1..Len(t) : t[i].req = r,
           main' = main \o t,
           IsPart(r) => Len(t) > 0 /\ t[Len(t)].what \in Ends
    PROVE  EndComes'
<1> DEFINE old == 1..Len(main)
           new == 1..Len(main')
<1>1. main \in Seq(Messages)  BY DEF UInv, Types
<1>2. /\ Len(main) \in Nat /\ Len(t) \in Nat /\ Len(main') = Len(main) + Len(t)
      /\ \A i \in old : i \in new /\ main'[i] = main[i]
      /\ \A i \in new : i \notin old => main'[i] = t[i - Len(main)] /\ main'[i].req = r
  BY <1>1, AppendedFacts
<1> SUFFICES ASSUME NEW i \in new, IsPart(main'[i].req)
             PROVE  \E j \in i..Len(main') : main'[j].req = main'[i].req /\ main'[j].what \in Ends
  BY DEF EndComes, IsPart
<1>3. CASE i \in old
  <2>1. PICK j \in i..Len(main) : main[j].req = main[i].req /\ main[j].what \in Ends
    BY <1>2, <1>3 DEF EndComes
  <2>2. j \in old /\ j \in i..Len(main')  BY <1>2, <1>3, <2>1
  <2> QED  BY <1>2, <1>3, <2>1, <2>2
<1>4. CASE i \notin old
  <2>1. main'[i].req = r /\ IsPart(r)  BY <1>2, <1>4
  <2>2. Len(main') \in new /\ Len(main') \notin old /\ Len(main') \in i..Len(main')
    BY <1>2, <2>1
  <2>3. Len(main') - Len(main) = Len(t)  BY <1>2
  <2>4. main'[Len(main')].req = r /\ main'[Len(main')].what \in Ends
    BY <1>2, <2>1, <2>2, <2>3
  <2> QED  BY <2>1, <2>2, <2>4
<1> QED  BY <1>3, <1>4

(* A message taken is one a part has no longer to come. *)
LEMMA DueTakes ==
    ASSUME UInv, main # <<>>, main' = Tail(main), parts' = parts,
           \A p \in Parts : state'[Part(p)] = state[Part(p)],
           NEW whats, OnceEach(whats)
    PROVE  /\ OnceEach(whats)'
           /\ Head(main).what \notin whats \/ ~IsPart(Head(main).req) => Due(whats)' = Due(whats)
           /\ \A p \in Parts : Head(main).req = Part(p) /\ Head(main).what \in whats =>
                 p \in Due(whats) /\ Due(whats)' = Due(whats) \ {p}
<1> DEFINE old == 1..Len(main)
           new == 1..Len(main')
           Has(p) == \E i \in old : main[i].req = Part(p) /\ main[i].what \in whats
           HasLeft(p) == \E i \in new : main'[i].req = Part(p) /\ main'[i].what \in whats
<1>1. main \in Seq(Messages)  BY DEF UInv, Types
<1>2. /\ Len(main) \in Nat /\ 1 \in old /\ Head(main) = main[1] /\ Len(main') = Len(main) - 1
      /\ \A i \in new : i + 1 \in old /\ main'[i] = main[i + 1]
      /\ \A i \in old : i # 1 => i - 1 \in new /\ main'[i - 1] = main[i]
  <2>1. /\ Len(main) \in Nat /\ 1 \in old /\ Head(main) = main[1] /\ Len(main') = Len(main) - 1
        /\ \A i \in new : i + 1 \in old /\ main'[i] = main[i + 1]
    BY <1>1, TakenFacts
  <2>2. ASSUME NEW i \in old, i # 1 PROVE i - 1 \in new /\ main'[i - 1] = main[i]
    <3>1. i - 1 \in new  BY <2>1, <2>2
    <3>2. main'[i - 1] = main[(i - 1) + 1] /\ (i - 1) + 1 = i  BY <2>1, <2>2, <3>1
    <3> QED  BY <3>1, <3>2
  <2> QED  BY <2>1, <2>2
<1>3. Parts' = Parts  BY DEF Parts
<1>4. \A p \in Parts : Part(p) \in Requests /\ IsPart(Part(p))
  BY PartFacts DEF UInv, IsPart
<1>5. OnceEach(whats)'
  <2> SUFFICES ASSUME NEW i \in new, NEW j \in new,
                      main'[i].what \in whats, main'[j].what \in whats,
                      main'[i].req = main'[j].req, IsPart(main'[i].req)
               PROVE  i = j
    BY DEF OnceEach, IsPart
  <2>1. i + 1 = j + 1  BY <1>2 DEF OnceEach
  <2> QED  BY <2>1
<1> HIDE DEF old, new
<1>6. ASSUME NEW p \in Parts
      PROVE  /\ HasLeft(p) => Has(p)
             /\ Has(p) /\ ~(Head(main).req = Part(p) /\ Head(main).what \in whats) => HasLeft(p)
  <2>1. ASSUME NEW i \in new, main'[i].req = Part(p), main'[i].what \in whats
        PROVE  Has(p)
    <3>1. i + 1 \in old /\ main'[i] = main[i + 1]  BY <1>2
    <3> QED  BY <2>1, <3>1
  <2>2. ASSUME NEW i \in old, main[i].req = Part(p), main[i].what \in whats,
               ~(Head(main).req = Part(p) /\ Head(main).what \in whats)
        PROVE  HasLeft(p)
    <3>1. i # 1  BY <1>2, <2>2
    <3>2. i - 1 \in new /\ main'[i - 1] = main[i]  BY <1>2, <3>1
    <3> QED  BY <2>2, <3>2
  <2> QED  BY <2>1, <2>2
<1>7. ASSUME NEW p \in Parts, Head(main).req = Part(p), Head(main).what \in whats
      PROVE  Has(p) /\ ~HasLeft(p)
  <2>1. Has(p)  BY <1>2, <1>7
  <2>2. ASSUME NEW i \in new, main'[i].req = Part(p), main'[i].what \in whats PROVE FALSE
    <3>1. i + 1 \in old /\ main[i + 1].req = main[1].req /\ main[i + 1].what \in whats
          /\ main[1].what \in whats /\ IsPart(main[1].req)
      BY <1>2, <1>4, <1>7, <2>2
    <3>2. i + 1 = 1  BY <1>2, <3>1 DEF OnceEach, old
    <3> QED  BY <3>2, <1>2 DEF new
  <2> QED  BY <2>1, <2>2
<1>8. \A p : /\ p \in Due(whats) <=> p \in Parts /\ (state[Part(p)] \in {"waiting", "running"} \/ Has(p))
             /\ p \in Due(whats)' <=> p \in Parts /\ (state[Part(p)] \in {"waiting", "running"} \/ HasLeft(p))
  BY <1>3 DEF Due, old, new
<1>9. ASSUME NEW p \in Parts, Head(main).req = Part(p) PROVE state[Part(p)] = "complete"
  BY <1>2, <1>9 DEF UInv, Reported, Waiting, old
<1> HIDE DEF Has, HasLeft
<1>10. ASSUME Head(main).what \notin whats \/ ~IsPart(Head(main).req)
       PROVE  Due(whats)' = Due(whats)
  <2>1. \A p \in Parts : HasLeft(p) <=> Has(p)  BY <1>4, <1>6, <1>10
  <2>2. \A p : p \in Due(whats)' <=> p \in Due(whats)  BY <1>8, <2>1
  <2> QED  BY <2>2, SetsEqual
<1>11. ASSUME NEW p \in Parts, Head(main).req = Part(p), Head(main).what \in whats
       PROVE  p \in Due(whats) /\ Due(whats)' = Due(whats) \ {p}
  <2>1. Has(p) /\ ~HasLeft(p) /\ state[Part(p)] = "complete"  BY <1>7, <1>9, <1>11
  <2>2. \A q \in Parts : q # p => (HasLeft(q) <=> Has(q))  BY <1>6, <1>11, PartsApart
  <2>3. \A q : q \in Due(whats)' <=> q \in Due(whats) \ {p}  BY <1>8, <2>1, <2>2
  <2> QED  BY <1>8, <2>1, <2>3, SetsEqual
<1> QED  BY <1>5, <1>10, <1>11

(* The ends behind the messages left are left. *)
LEMMA EndTakes ==
    ASSUME UInv, main # <<>>, main' = Tail(main), EndComes
    PROVE  EndComes'
<1> DEFINE old == 1..Len(main)
           new == 1..Len(main')
<1>1. main \in Seq(Messages)  BY DEF UInv, Types
<1>2. /\ Len(main) \in Nat /\ Len(main') = Len(main) - 1
      /\ \A i \in new : i + 1 \in old /\ main'[i] = main[i + 1]
  BY <1>1, TakenFacts
<1> SUFFICES ASSUME NEW i \in new, IsPart(main'[i].req)
             PROVE  \E j \in i..Len(main') : main'[j].req = main'[i].req /\ main'[j].what \in Ends
  BY DEF EndComes, IsPart
<1>3. i + 1 \in old /\ main'[i] = main[i + 1]  BY <1>2
<1>4. PICK j \in (i + 1)..Len(main) : main[j].req = main[i + 1].req /\ main[j].what \in Ends
  BY <1>3 DEF EndComes
<1>5. j - 1 \in new /\ j - 1 \in i..Len(main') /\ (j - 1) + 1 = j  BY <1>2, <1>4
<1>6. main'[j - 1] = main[j]  BY <1>2, <1>5
<1> QED  BY <1>3, <1>4, <1>5, <1>6

(* What holds of the count when a part reports. *)
LEMMA PartReports ==
    ASSUME UInv, CountInv, NEW i \in 1..Len(main), IsPart(main[i].req)
    PROVE  /\ requestsCount \in Nat /\ requestsCount > 0 /\ request # Closing
           /\ \E p \in Parts : main[i].req = Part(p)
           /\ \A p \in Parts : state[Part(p)] # "none"
<1>1. Types /\ main \in Seq(Messages)  BY DEF UInv, Types
<1>2. main[i] \in Messages  BY <1>1, ElementOfSeq
<1>3. main[i].req \in Requests /\ state[main[i].req] = "complete"
  BY <1>2 DEF Messages, UInv, Reported, Waiting
<1>4. /\ \E p \in Parts : main[i].req = Part(p)
      /\ \A p \in Parts : state[Part(p)] # "none"
  BY <1>3 DEF CountInv, PartsTogether
<1>5. PICK j \in i..Len(main) : main[j].req = main[i].req /\ main[j].what \in Ends
  BY DEF CountInv, EndComes
<1>6. j \in 1..Len(main)
  <2>1. Len(main) \in Nat  BY <1>1, LenProperties
  <2> QED  BY <2>1, <1>5
<1>7. Due(Ends) # {}  BY <1>4, <1>5, <1>6 DEF Due
<1>8. IsFiniteSet(Due(Ends)) /\ Cardinality(Due(Ends)) \in Nat  BY <1>1, DueFinite
<1>9. Cardinality(Due(Ends)) # 0  BY <1>7, <1>8, FS_EmptySet
<1>10. requestsCount \in Nat /\ requestsCount > 0  BY <1>8, <1>9 DEF CountInv
<1>11. request # Closing  BY <1>10 DEF CountInv
<1> QED  BY <1>4, <1>10, <1>11

(* Nothing is counted at first. *)
LEMMA CountInit == Init => CountInv
<1> SUFFICES ASSUME Init PROVE CountInv  OBVIOUS
<1>1. Len(main) = 0  BY DEF Init
<1>2. 1..Len(main) = {}  BY <1>1
<1>3. OnceEach(Ends) /\ OnceEach({"sent"})  BY <1>2 DEF OnceEach
<1>4. EndComes  BY <1>2 DEF EndComes
<1>5. \A r \in Requests : state[r] = "none"  BY DEF Init
<1>6. PartsTogether  BY <1>5 DEF PartsTogether
<1>7. Due(Ends) = {}
  <2>1. Types  BY Begins DEF UInv
  <2> QED  BY <1>2, <1>5, <2>1, PartFacts DEF Due
<1>8. requestsCount = Cardinality(Due(Ends))  BY <1>7, FS_EmptySet DEF Init
<1>9. request # Closing  BY UploaderAssumption, RequestFacts DEF Init
<1> QED  BY <1>3, <1>4, <1>6, <1>8, <1>9 DEF CountInv

(* Steps that send and take no message and end no request. *)
LEMMA CountSame ==
    ASSUME UInv, CountInv, UNCHANGED <<main, parts, requestsCount>>,
           request' = request \/ request' # Closing,
           \A r \in Requests : IsPart(r) =>
               \/ state'[r] = state[r]
               \/ state[r] = "waiting" /\ state'[r] = "running"
    PROVE  CountInv' /\ Due({"sent"})' = Due({"sent"})
<1>1. Parts' = Parts  BY DEF Parts
<1>2. \A p \in Parts : Part(p) \in Requests /\ IsPart(Part(p))
  BY PartFacts DEF UInv, IsPart
<1>3. \A p \in Parts : \/ state'[Part(p)] = state[Part(p)]
                       \/ {state[Part(p)], state'[Part(p)]} \subseteq {"waiting", "running"}
  BY <1>2
<1>4. /\ Due(Ends)' = Due(Ends) /\ OnceEach(Ends)'
      /\ Due({"sent"})' = Due({"sent"}) /\ OnceEach({"sent"})' /\ EndComes'
  BY <1>3, DueSame DEF CountInv
<1>5. \A r \in Requests : IsPart(r) => (state'[r] # "none" <=> state[r] # "none")
  OBVIOUS
<1>6. PartsTogether'
  BY <1>1, <1>2, <1>5 DEF CountInv, PartsTogether, IsPart
<1>7. request' = Closing =>
          requestsCount' = 0 /\ \A p \in Parts : state'[Part(p)] # "none"
  BY <1>2, <1>5 DEF CountInv
<1>8. requestsCount' = Cardinality(Due(Ends)')  BY <1>4 DEF CountInv
<1> QED  BY <1>1, <1>4, <1>6, <1>7, <1>8 DEF CountInv

(* A request ends and says so. *)
LEMMA CountEnds ==
    ASSUME UInv, CountInv, NEW r \in Requests, state[r] \in {"waiting", "running"},
           NEW t \in Seq(Messages), \A i \in 1..Len(t) : t[i].req = r,
           state' = [state EXCEPT ![r] = "complete"], main' = main \o t,
           UNCHANGED <<parts, requestsCount, request>>,
           IsPart(r) => Len(t) > 0 /\ t[Len(t)].what \in Ends,
           \A i, j \in 1..Len(t) : t[i].what \in Ends /\ t[j].what \in Ends => i = j,
           \A i, j \in 1..Len(t) : t[i].what \in {"sent"} /\ t[j].what \in {"sent"} => i = j
    PROVE  CountInv' /\ Due({"sent"})' \subseteq Due({"sent"})
<1>1. OnceEach(Ends)' /\ (~IsPart(r) \/ (\E i \in 1..Len(t) : t[i].what \in Ends) =>
                              Due(Ends)' = Due(Ends))
  BY DueEnds DEF CountInv
<1>2. OnceEach({"sent"})' /\ Due({"sent"})' \subseteq Due({"sent"})
  BY DueEnds DEF CountInv
<1>3. EndComes'  BY EndEnds DEF CountInv
<1>4. Due(Ends)' = Due(Ends)
  <2>1. Len(t) \in Nat  BY LenProperties
  <2>2. CASE IsPart(r)
    <3>1. Len(t) \in 1..Len(t)  BY <2>1, <2>2
    <3> QED  BY <1>1, <2>2, <3>1
  <2> QED  BY <1>1, <2>2
<1>5. \A q \in Requests : state'[q] # "none" <=> state[q] # "none"
  BY DEF UInv, Types
<1>6. Parts' = Parts  BY DEF Parts
<1>7. \A p \in Parts : Part(p) \in Requests  BY PartFacts DEF UInv
<1>8. PartsTogether'  BY <1>5, <1>6, <1>7 DEF CountInv, PartsTogether, IsPart
<1>9. request' = Closing => requestsCount' = 0 /\ \A p \in Parts : state'[Part(p)] # "none"
  BY <1>5, <1>7 DEF CountInv
<1>10. requestsCount' = Cardinality(Due(Ends)')  BY <1>4 DEF CountInv
<1> QED  BY <1>1, <1>2, <1>3, <1>6, <1>8, <1>9, <1>10 DEF CountInv

(* The main thread takes a message, and the requests of parts stay as they are. *)
LEMMA CountTakes ==
    ASSUME UInv, CountInv, main # <<>>, main' = Tail(main), parts' = parts,
           \A r \in Requests : IsPart(r) => state'[r] = state[r],
           requestsCount' = IF IsPart(Head(main).req) /\ Head(main).what \in Ends
                            THEN requestsCount - 1 ELSE requestsCount,
           request' = request \/ (IsPart(Head(main).req) /\ requestsCount' = 0)
    PROVE  /\ CountInv'
           /\ ~(IsPart(Head(main).req) /\ Head(main).what = "sent") => Due({"sent"})' = Due({"sent"})
           /\ IsPart(Head(main).req) /\ Head(main).what = "sent" =>
                 Cardinality(Due({"sent"}))' = Cardinality(Due({"sent"})) - 1
<1>1. Parts' = Parts  BY DEF Parts
<1>2. \A p \in Parts : Part(p) \in Requests /\ IsPart(Part(p))
  BY PartFacts DEF UInv, IsPart
<1>3. \A p \in Parts : state'[Part(p)] = state[Part(p)]  BY <1>2
<1>4. 1 \in 1..Len(main) /\ Head(main) = main[1]  BY Took DEF Waiting
<1>5. IsPart(Head(main).req) =>
          /\ request # Closing
          /\ \E p \in Parts : Head(main).req = Part(p)
          /\ \A p \in Parts : state[Part(p)] # "none"
  BY <1>4, PartReports
<1>6. OnceEach(Ends)' /\ OnceEach({"sent"})'  BY <1>3, DueTakes DEF CountInv
<1>7. EndComes'  BY EndTakes DEF CountInv
<1>8. PartsTogether'  BY <1>1, <1>2, <1>3 DEF CountInv, PartsTogether, IsPart
<1>9. ASSUME NEW whats, OnceEach(whats), IsPart(Head(main).req), Head(main).what \in whats
      PROVE  Cardinality(Due(whats)') = Cardinality(Due(whats)) - 1
  <2>1. PICK p \in Parts : Head(main).req = Part(p)  BY <1>5, <1>9
  <2>2. p \in Due(whats) /\ Due(whats)' = Due(whats) \ {p}  BY <1>3, <1>9, <2>1, DueTakes
  <2>3. IsFiniteSet(Due(whats))  BY DueFinite DEF UInv
  <2> QED  BY <2>2, <2>3, FS_RemoveElement
<1>10. ASSUME NEW whats, OnceEach(whats), ~(IsPart(Head(main).req) /\ Head(main).what \in whats)
       PROVE  Due(whats)' = Due(whats)
  BY <1>3, <1>10, DueTakes
<1>11. requestsCount' = Cardinality(Due(Ends)')
  <2>1. CASE IsPart(Head(main).req) /\ Head(main).what \in Ends
    BY <1>9, <2>1 DEF CountInv
  <2>2. CASE ~(IsPart(Head(main).req) /\ Head(main).what \in Ends)
    <3>1. Due(Ends)' = Due(Ends)  BY <1>10, <2>2 DEF CountInv
    <3> QED  BY <2>2, <3>1 DEF CountInv
  <2> QED  BY <2>1, <2>2
<1>12. request' = Closing => requestsCount' = 0 /\ \A p \in Parts : state'[Part(p)] # "none"
  <2>1. CASE request' = request  BY <1>3, <1>5, <2>1 DEF CountInv
  <2>2. CASE IsPart(Head(main).req) /\ requestsCount' = 0  BY <1>3, <1>5, <2>2
  <2> QED  BY <2>1, <2>2
<1>13. CountInv'
  BY <1>1, <1>6, <1>7, <1>8, <1>11, <1>12 DEF CountInv
<1>14. IsPart(Head(main).req) /\ Head(main).what = "sent" =>
           Cardinality(Due({"sent"}))' = Cardinality(Due({"sent"})) - 1
  BY <1>9 DEF CountInv
<1>15. ~(IsPart(Head(main).req) /\ Head(main).what = "sent") => Due({"sent"})' = Due({"sent"})
  BY <1>10 DEF CountInv
<1> QED  BY <1>13, <1>14, <1>15

(* The parts are queued, and counted. *)
LEMMA CountQueued ==
    ASSUME UInv, CountInv, main # <<>>, main' = Tail(main), Head(main).req = Opening, QueueParts,
           UNCHANGED <<parts, request>>
    PROVE  /\ CountInv'
           /\ Due({"sent"}) = {} /\ Cardinality(Due({"sent"}))' = parts
<1>1. main' = <<>> /\ Quiet /\ request # Closing  BY Took DEF Quiet
<1>2. /\ Types /\ main \in Seq(Messages) /\ 1..Len(main') = {}
      /\ \A i \in 1..Len(main) : ~IsPart(main[i].req)
  <2>1. main \in Seq(Messages) /\ Types  BY DEF UInv, Types
  <2>2. Len(main') = 0  BY <1>1, EmptySeq
  <2>3. Len(main) = 1
    <3>1. 1 \in Waiting /\ Head(main) = main[1]  BY Took
    <3> QED  BY <3>1 DEF UInv, OpeningFirst
  <2>4. main[1].req = Opening  BY Took
  <2> QED  BY <2>1, <2>2, <2>3, <2>4 DEF IsPart
<1>3. \A p \in Parts : Part(p) \in Requests /\ IsPart(Part(p))
  BY PartFacts DEF UInv, IsPart
<1>4. Parts' = Parts  BY DEF Parts
<1>5. \A whats : Due(whats) = {}
  <2> SUFFICES ASSUME NEW whats, NEW p \in Parts PROVE p \notin Due(whats)
    BY DEF Due
  <2>1. state[Part(p)] = "none"  BY <1>1, <1>3 DEF Quiet, IsPart
  <2>2. \A i \in 1..Len(main) : main[i].req # Part(p)  BY <1>2, <1>3
  <2> QED  BY <2>1, <2>2 DEF Due
<1>6. \A p \in Parts : state'[Part(p)] = "waiting"
  BY <1>3 DEF QueueParts
<1>7. \A whats : Due(whats)' = Parts
  <2> SUFFICES ASSUME NEW whats PROVE Due(whats)' = Parts  OBVIOUS
  <2>1. \A p \in Parts : p \in Due(whats)'  BY <1>4, <1>6 DEF Due
  <2>2. Due(whats)' \subseteq Parts  BY <1>4 DEF Due
  <2> QED  BY <2>1, <2>2
<1>8. Cardinality(Parts) = parts /\ parts \in Nat  BY <1>2, DueFinite
<1>9. requestsCount = 0
  <2>1. Due(Ends) = {}  BY <1>5
  <2> QED  BY <2>1, FS_EmptySet DEF CountInv
<1>10. requestsCount' = Cardinality(Due(Ends)')
  <2>1. Due(Ends)' = Parts  BY <1>7
  <2> QED  BY <1>8, <1>9, <2>1 DEF QueueParts
<1>11. OnceEach(Ends)' /\ OnceEach({"sent"})' /\ EndComes'
  BY <1>2 DEF OnceEach, EndComes
<1>12. PartsTogether'
  <2>1. ASSUME NEW r \in Requests, IsPart(r), state'[r] # "none" PROVE \E p \in Parts : r = Part(p)
    <3>1. state[r] = "none"  BY <1>1, <2>1 DEF Quiet, IsPart
    <3>2. state'[r] = IF r \in {Part(p) : p \in Parts} THEN "waiting" ELSE state[r]
      BY DEF QueueParts
    <3> QED  BY <2>1, <3>1, <3>2
  <2> QED  BY <1>4, <1>6, <2>1 DEF PartsTogether, IsPart
<1>13. CountInv'  BY <1>1, <1>10, <1>11, <1>12 DEF CountInv
<1>14. Due({"sent"}) = {} /\ Due({"sent"})' = Parts  BY <1>5, <1>7
<1> QED  BY <1>8, <1>13, <1>14

-----------------------------------------------------------------------------
(* Nothing has gone wrong at first. *)
LEMMA HarmInit == Init => HarmInv
<1> SUFFICES ASSUME Init PROVE HarmInv  OBVIOUS
<1>1. Len(main) = 0  BY DEF Init
<1>2. AnswersInv
  <2>1. 1..Len(main) = {}  BY <1>1
  <2> QED  BY <2>1 DEF AnswersInv
<1>3. GoneInv /\ NothingUndefined  BY DEF Init, GoneInv, NothingUndefined
<1>4. Due({"sent"}) = {}
  <2>1. Types  BY Begins DEF UInv
  <2>2. \A r \in Requests : state[r] = "none"  BY DEF Init
  <2>3. 1..Len(main) = {}  BY <1>1
  <2> QED  BY <2>1, <2>2, <2>3, PartFacts DEF Due
<1>5. ProgressInv
  <2>1. Cardinality(Due({"sent"})) = 0  BY <1>4, FS_EmptySet
  <2>2. sent = 0 /\ total = 0  BY DEF Init
  <2> QED  BY <2>1, <2>2 DEF ProgressInv
<1> QED  BY <1>2, <1>3, <1>5 DEF HarmInv

(* A step that neither changes the client nor shows progress does no harm. *)
LEMMA NoHarm ==
    ASSUME UInv, HarmInv, UNCHANGED <<parts, client, blocks, queue, result>>,
           malformed => malformed', AnswersInv', undefined => UNCHANGED state,
           Due({"sent"})' \subseteq Due({"sent"})
    PROVE  HarmInv'
<1>1. UNCHANGED <<callbacks, life, dropped, blocks, requestsCount, sent, total, undefined,
                  failures, wild>>
  BY DEF client, queue, result
<1>2. GoneInv' /\ NothingUndefined'
  BY <1>1 DEF HarmInv, GoneInv, NothingUndefined, OnlyOpening
<1>3. ProgressInv'
  <2>1. /\ IsFiniteSet(Due({"sent"})) /\ Cardinality(Due({"sent"})) \in Nat  BY DueFinite DEF UInv
  <2> DEFINE less == Due({"sent"})'
  <2>2. less \in SUBSET Due({"sent"})  OBVIOUS
  <2> HIDE DEF less
  <2>3. IsFiniteSet(less) /\ Cardinality(less) <= Cardinality(Due({"sent"}))
    BY <2>1, <2>2, FS_Subset
  <2>4. Cardinality(less) \in Nat  BY <2>3, FS_CardinalityType
  <2>5. sent \in Nat /\ total \in Nat
        /\ (failures = {} /\ life # "dead" => sent + Cardinality(less) <= total)
    BY <2>1, <2>3, <2>4 DEF HarmInv, ProgressInv
  <2> QED  BY <1>1, <2>5 DEF ProgressInv, less
<1> QED  BY <1>2, <1>3 DEF HarmInv

(* The client starts an upload, or lets go of the uploader. *)
LEMMA ClientHarm ==
    ASSUME UInv, CountInv, HarmInv,
           Go \/ (\E thread \in {"main", "another"} : Drop(thread)) \/ EndDealloc
    PROVE  CountInv' /\ HarmInv'
<1>1. Types /\ HeldAlive  BY DEF UInv
<1>2. CASE Go
  <2>1. /\ UNCHANGED <<parts, callbacks, life, dropped, queue, requestsCount, sent, total, main,
                       undefined, failures, wild, malformed>>
        /\ ~undefined
        /\ held /\ request' = Opening /\ state' = [state EXCEPT ![Opening] = "waiting"]
    BY <1>2 DEF Go, client, queue, result
  <2>2. /\ request' # Closing
        /\ \A r \in Requests : IsPart(r) => state'[r] = state[r]
    BY <1>1, <2>1, RequestFacts DEF Types, IsPart
  <2>3. CountInv' /\ Due({"sent"})' = Due({"sent"})  BY <2>1, <2>2, CountSame
  <2>4. GoneInv' /\ AnswersInv' /\ NothingUndefined' /\ ProgressInv'
    BY <1>1, <2>1, <2>3 DEF HarmInv, GoneInv, AnswersInv, NothingUndefined, ProgressInv, HeldAlive
  <2> QED  BY <2>3, <2>4 DEF HarmInv
<1>3. CASE (\E thread \in {"main", "another"} : Drop(thread)) \/ EndDealloc
  <2>1. /\ UNCHANGED <<parts, callbacks, request, state, requestsCount, main, undefined, wild,
                       failures, malformed>>
        /\ ~undefined
    BY <1>3 DEF Drop, EndDealloc, result
  <2>2. CountInv' /\ Due({"sent"})' = Due({"sent"})  BY <2>1, CountSame
  <2>3. requestsCount \in Nat  BY <1>1, DueFinite DEF CountInv
  <2>4. \/ UNCHANGED <<life, dropped, blocks, sent, total>>
        \/ /\ life = "alive" /\ life' = "dead" /\ blocks' = {} /\ sent' = 0 /\ total' = 0
           /\ dropped' = IF requestsCount > 0 THEN "parts" ELSE "early"
        \/ /\ life = "alive" /\ life' = "dying" /\ dropped' = "elsewhere"
           /\ UNCHANGED <<blocks, sent, total>>
        \/ /\ life = "dying" /\ life' = "dead" /\ blocks' = {} /\ sent' = 0 /\ total' = 0
           /\ dropped' = dropped
    <3>1. CASE Drop("main")
      BY <1>1, <3>1 DEF Drop, Dealloc, BlocksAfterDealloc, HeldAlive
    <3>2. CASE Drop("another")
      BY <1>1, <3>2 DEF Drop, HeldAlive
    <3>3. CASE EndDealloc  BY <3>3 DEF EndDealloc, Dealloc, BlocksAfterDealloc
    <3> QED  BY <1>3, <3>1, <3>2, <3>3
  <2>5. GoneInv'  BY <2>1, <2>3, <2>4 DEF HarmInv, GoneInv
  <2>6. AnswersInv' /\ NothingUndefined'
    BY <2>1 DEF HarmInv, AnswersInv, NothingUndefined
  <2>7. ProgressInv'  BY <2>1, <2>2, <2>4 DEF HarmInv, ProgressInv
  <2> QED  BY <2>2, <2>5, <2>6, <2>7 DEF HarmInv
<1> QED  BY <1>2, <1>3

(* A request ends without harm. *)
LEMMA EndsHarm ==
    ASSUME UInv, CountInv, HarmInv, ~undefined,
           NEW r \in Requests, state[r] \in {"waiting", "running"},
           NEW t \in Seq(Messages), \A i \in 1..Len(t) : t[i].req = r,
           state' = [state EXCEPT ![r] = "complete"], main' = main \o t,
           UNCHANGED <<parts, client, request, blocks, queue, result>>,
           malformed => malformed',
           \A i \in 1..Len(t) : t[i].what = "no zone" => malformed',
           IsPart(r) => Len(t) > 0 /\ t[Len(t)].what \in Ends,
           \A i, j \in 1..Len(t) : t[i].what \in Ends /\ t[j].what \in Ends => i = j,
           \A i, j \in 1..Len(t) : t[i].what \in {"sent"} /\ t[j].what \in {"sent"} => i = j
    PROVE  CountInv' /\ HarmInv'
<1>1. requestsCount' = requestsCount  BY DEF queue
<1>2. CountInv' /\ Due({"sent"})' \subseteq Due({"sent"})  BY <1>1, CountEnds
<1>3. AnswersInv'
  <2>1. main \in Seq(Messages)  BY DEF UInv, Types
  <2> DEFINE q == main \o t
  <2>2. /\ Len(main) \in Nat /\ Len(t) \in Nat /\ Len(q) = Len(main) + Len(t)
        /\ \A i \in 1..Len(main) : q[i] = main[i]
        /\ \A i \in 1..Len(q) : i \notin 1..Len(main) => q[i] = t[i - Len(main)]
    BY ONLY <2>1, t \in Seq(Messages), \A i \in 1..Len(t) : t[i].req = r, AppendedFacts
  <2> HIDE DEF q
  <2> SUFFICES ASSUME NEW i \in 1..Len(q), q[i].what = "no zone" PROVE malformed'
    BY DEF AnswersInv, q
  <2>3. CASE i \in 1..Len(main)
    <3>1. main[i].what = "no zone"  BY <2>2, <2>3
    <3>2. malformed  BY <2>3, <3>1 DEF HarmInv, AnswersInv
    <3> QED  BY <3>2
  <2>4. CASE i \notin 1..Len(main)
    <3> DEFINE k == i - Len(main)
    <3>1. k \in 1..Len(t)  BY ONLY <2>2, <2>4, i \in 1..Len(q)
    <3>2. q[i] = t[k]  BY <2>2, <2>4
    <3>3. t[k].what = "no zone"  BY <3>2
    <3> HIDE DEF k
    <3> QED  BY <3>1, <3>3
  <2> QED  BY <2>3, <2>4
<1> QED  BY <1>2, <1>3, NoHarm

(* A step of the request thread does no harm. *)
LEMMA RequestThreadHarm ==
    ASSUME UInv, CountInv, HarmInv, RequestThread
    PROVE  CountInv' /\ HarmInv'
<1>1. Types /\ main \in Seq(Messages)  BY DEF UInv, Types
<1>0. ~undefined
  BY DEF RequestThread, Start, CancelOnRequestThread, OpeningEnds, PartEnds, ClosingEnds, Complete
<1> DEFINE kinds == {"opened", "no dictionary", "no zone", "accepted", "refused",
                     "sent", "finished", "failed"}
<1>2. ASSUME NEW what \in kinds, NEW r \in Requests
      PROVE  Message(what, r) \in Messages /\ Message(what, r).req = r /\ Message(what, r).what = what
  BY <1>2 DEF Message, Messages
<1> HIDE DEF kinds
<1>3. CASE \E r \in Requests : Start(r)
  <2>1. PICK r \in Requests : Start(r)  BY <1>3
  <2>2. /\ UNCHANGED <<parts, client, request, blocks, queue, requestsCount, main, result, malformed>>
        /\ state[r] = "waiting" /\ state' = [state EXCEPT ![r] = "running"]
    BY <2>1 DEF Start, queue
  <2>3. \A q \in Requests : state'[q] = state[q] \/ (state[q] = "waiting" /\ state'[q] = "running")
    BY <1>1, <2>2 DEF Types
  <2>4. CountInv' /\ Due({"sent"})' = Due({"sent"})  BY <2>2, <2>3, CountSame
  <2>5. AnswersInv'  BY <2>2 DEF HarmInv, AnswersInv
  <2> QED  BY <1>0, <2>2, <2>4, <2>5, NoHarm
(* One message. *)
<1>4. ASSUME NEW r \in Requests, NEW what \in kinds, IsPart(r) => what \in Ends,
             state[r] \in {"waiting", "running"}, state' = [state EXCEPT ![r] = "complete"],
             main' = main \o <<Message(what, r)>>,
             UNCHANGED <<parts, client, request, blocks, queue, result>>,
             malformed => malformed', what = "no zone" => malformed'
      PROVE  CountInv' /\ HarmInv'
  <2> DEFINE m == Message(what, r)
             t == <<m>>
  <2>1. m \in Messages /\ m.req = r /\ m.what = what  BY <1>2
  <2> HIDE DEF m
  <2>2. t \in Seq(Messages) /\ Len(t) = 1 /\ t[1] = m /\ \A i \in 1..Len(t) : t[i] = m /\ i = 1
    BY <2>1
  <2>3. main' = main \o t  BY <1>4 DEF m
  <2> HIDE DEF t
  <2>4. /\ \A i \in 1..Len(t) : t[i].req = r /\ t[i].what = what
        /\ Len(t) > 0 /\ t[Len(t)].what = what
    BY <2>1, <2>2
  <2>6. \A i \in 1..Len(t) : t[i].what = "no zone" => malformed'
    BY <1>4, <2>4
  <2>5. \A i, j \in 1..Len(t) : i = j  BY <2>2
  <2> QED  BY <1>0, <1>4, <2>2, <2>3, <2>4, <2>5, <2>6, EndsHarm
<1>5. CASE \E r \in Requests : CancelOnRequestThread(r)
  <2>1. PICK r \in Requests : CancelOnRequestThread(r)  BY <1>5
  <2>2. UNCHANGED <<parts, client, request, blocks, queue, requestsCount, result, malformed>>
    BY <2>1 DEF CancelOnRequestThread, queue
  <2>3. CASE r \in Unfinished
    <3>1. /\ main' = Append(main, Message("failed", r))
          /\ state' = [state EXCEPT ![r] = "complete"] /\ state[r] \in {"waiting", "running"}
      BY <2>1, <2>3 DEF CancelOnRequestThread, Unfinished
    <3>2. main' = main \o <<Message("failed", r)>>
      <4>1. Message("failed", r) \in Messages  BY <1>2 DEF kinds
      <4> QED  BY <1>1, <3>1, <4>1, AppendIsConcat
    <3>3. "failed" \in kinds /\ "failed" \in Ends  BY DEF kinds, Ends
    <3>4. (malformed => malformed') /\ ("failed" = "no zone" => malformed')  BY <2>2
    <3> QED  BY <1>4, <2>2, <3>1, <3>2, <3>3, <3>4
  <2>4. CASE r \notin Unfinished
    <3>1. UNCHANGED <<state, main>>  BY <2>1, <2>4 DEF CancelOnRequestThread
    <3>2. CountInv' /\ Due({"sent"})' = Due({"sent"})  BY <2>2, <3>1, CountSame
    <3>3. AnswersInv'  BY <2>2, <3>1 DEF HarmInv, AnswersInv
    <3> QED  BY <1>0, <2>2, <3>2, <3>3, NoHarm
  <2> QED  BY <2>3, <2>4
<1>6. CASE OpeningEnds
  <2>1. PICK what \in {"opened", "no dictionary", "no zone", "failed"} :
            /\ Complete(Opening, <<Message(what, Opening)>>)
            /\ malformed' = (malformed \/ what = "no zone")
    BY <1>6 DEF OpeningEnds
  <2>2. what \in kinds /\ Opening \in Requests /\ ~IsPart(Opening)
    BY RequestFacts DEF kinds, IsPart
  <2>3. (malformed => malformed') /\ (what = "no zone" => malformed')  BY <2>1
  <2> QED  BY <1>4, <2>1, <2>2, <2>3 DEF Complete
<1>7. CASE ClosingEnds
  <2>1. PICK what \in {"accepted", "refused", "failed"} :
            Complete(Closing, <<Message(what, Closing)>>)
    BY <1>7 DEF ClosingEnds
  <2>2. what \in kinds /\ Closing \in Requests /\ ~IsPart(Closing) /\ what # "no zone"
    BY RequestFacts DEF kinds, IsPart
  <2>3. malformed => malformed'  BY <1>7 DEF ClosingEnds
  <2> QED  BY <1>4, <2>1, <2>2, <2>3 DEF Complete
<1>8. CASE \E p \in Parts : PartEnds(p)
  <2>1. PICK p \in Parts : PartEnds(p)  BY <1>8
  <2>2. Part(p) \in Requests /\ IsPart(Part(p))  BY <1>1, PartFacts DEF IsPart
  <2> DEFINE r == Part(p)
  <2>3. malformed => malformed'  BY <2>1 DEF PartEnds
  <2>4. CASE Complete(r, <<Message("finished", r)>>)
    <3>1. "finished" \in kinds /\ "finished" \in Ends  BY DEF kinds, Ends
    <3> QED  BY <1>4, <2>2, <2>3, <2>4, <3>1 DEF Complete
  <2>5. CASE Complete(r, <<Message("failed", r)>>)
    <3>1. "failed" \in kinds /\ "failed" \in Ends  BY DEF kinds, Ends
    <3> QED  BY <1>4, <2>2, <2>3, <2>5, <3>1 DEF Complete
  <2>6. CASE Complete(r, <<Message("sent", r), Message("finished", r)>>)
    <3> DEFINE m == Message("sent", r)
               n == Message("finished", r)
               t == <<m, n>>
    <3>1. /\ m \in Messages /\ m.req = r /\ m.what = "sent"
          /\ n \in Messages /\ n.req = r /\ n.what = "finished"
      BY <1>2, <2>2 DEF kinds
    <3>2. /\ UNCHANGED <<parts, client, request, blocks, queue, result>>
          /\ state[r] \in {"waiting", "running"} /\ state' = [state EXCEPT ![r] = "complete"]
          /\ main' = main \o t
      BY <2>6 DEF Complete
    <3> HIDE DEF m, n, r
    <3>3. t \in Seq(Messages) /\ Len(t) = 2 /\ t[1] = m /\ t[2] = n
      BY <3>1
    <3> HIDE DEF t
    <3>4. \A i \in 1..Len(t) : (i = 1 /\ t[i] = m) \/ (i = 2 /\ t[i] = n)  BY <3>3
    <3>5. /\ \A i \in 1..Len(t) : t[i].req = r
          /\ \A i \in 1..Len(t) : t[i].what # "no zone"
          /\ \A i \in 1..Len(t) : t[i].what \in Ends => i = 2
          /\ \A i \in 1..Len(t) : t[i].what \in {"sent"} => i = 1
      BY <3>1, <3>4 DEF Ends
    <3>6. Len(t) > 0 /\ t[Len(t)].what \in Ends  BY <3>1, <3>3 DEF Ends
    <3>7. r \in Requests  BY <2>2 DEF r
    <3>8. /\ \A i, j \in 1..Len(t) : t[i].what \in Ends /\ t[j].what \in Ends => i = j
          /\ \A i, j \in 1..Len(t) : t[i].what \in {"sent"} /\ t[j].what \in {"sent"} => i = j
          /\ \A i \in 1..Len(t) : t[i].what = "no zone" => malformed'
      BY <3>5
    <3> QED  BY <1>0, <2>3, <3>2, <3>3, <3>5, <3>6, <3>7, <3>8, EndsHarm
  <2> QED  BY <2>1, <2>4, <2>5, <2>6 DEF PartEnds
<1> QED  BY <1>3, <1>5, <1>6, <1>7, <1>8 DEF RequestThread

(* The answers that are left for the main thread are as they were. *)
LEMMA AnswersTaken ==
    ASSUME UInv, AnswersInv, main # <<>>, main' = Tail(main), malformed' = malformed
    PROVE  AnswersInv'
<1> SUFFICES ASSUME NEW i \in 1..Len(main'), main'[i].what = "no zone" PROVE malformed
  BY DEF AnswersInv
<1>1. i + 1 \in 1..Len(main) /\ main'[i] = main[i + 1]  BY Took DEF Waiting
<1>2. main[i + 1].what = "no zone"  BY <1>1
<1> QED  BY <1>1, <1>2 DEF AnswersInv

(* The causes of undefined behaviour, but for the callbacks that are not set. *)
Excused == malformed \/ dropped \in {"parts", "elsewhere"}

(* A part never reports to an uploader released when the queue was idle. *)
LEMMA GoneExcused ==
    ASSUME UInv, CountInv, HarmInv, life # "alive",
           life = "dying" \/ blocks # {} \/ (main # <<>> /\ IsPart(Head(main).req))
    PROVE  Excused
<1>1. life \in {"dying", "dead"}  BY DEF UInv, Types
<1>2. CASE life = "dying"  BY <1>2 DEF HarmInv, GoneInv, Excused
<1>3. CASE life = "dead"
  <2>1. blocks = {} /\ dropped # "no"  BY <1>3 DEF HarmInv, GoneInv
  <2>2. main # <<>> /\ IsPart(Head(main).req)  BY <1>3, <2>1
  <2>3. main \in Seq(Messages)  BY DEF UInv, Types
  <2>4. 1 \in 1..Len(main) /\ Head(main) = main[1]  BY <2>2, <2>3, TakenFacts
  <2>5. requestsCount \in Nat /\ requestsCount > 0  BY <2>2, <2>4, PartReports
  <2>6. dropped # "early"  BY <2>5 DEF HarmInv, GoneInv
  <2> QED  BY <2>1, <2>6 DEF HarmInv, GoneInv, Excused
<1> QED  BY <1>1, <1>2, <1>3

(* A step of the main thread does harm only with an excuse. *)
LEMMA MainThreadHarm ==
    ASSUME UInv, CountInv, HarmInv, MainThread
    PROVE  CountInv' /\ HarmInv'
<1>1. Types /\ requestsCount \in Nat  BY DueFinite DEF UInv, CountInv
<1>2. /\ main # <<>> /\ ~undefined /\ main' = Tail(main)
      /\ UNCHANGED <<parts, callbacks, held, life, dropped, stored, malformed>>
  BY DEF MainThread, Opened, OpeningFails, PartSent, PartFinished, PartFailed, Closed, Take,
         client, network
<1>3. /\ Head(main).req \in Requests /\ 1 \in 1..Len(main) /\ Head(main) = main[1]
  BY <1>2, Took DEF Waiting
<1>4. AnswersInv'  BY <1>2, AnswersTaken DEF HarmInv
<1>5. \A r \in Requests : /\ r[1] = "part" => IsPart(r)
                          /\ r[1] \in {"opening", "closing"} => ~IsPart(r)
  BY RequestFacts DEF IsPart
(* The end of the opening or of the closing request. *)
<1>6. ASSUME ~IsPart(Head(main).req), UNCHANGED <<request, state, queue, blocks, failures, wild>>,
             undefined' => undefined \/ Excused \/ (~callbacks /\ OnlyOpening)
      PROVE  CountInv' /\ HarmInv'
  <2>1. UNCHANGED <<requestsCount, sent, total>>  BY <1>6 DEF queue
  <2>2. CountInv' /\ Due({"sent"})' = Due({"sent"})
    <3>1. /\ parts' = parts
          /\ requestsCount' = IF IsPart(Head(main).req) /\ Head(main).what \in Ends
                              THEN requestsCount - 1 ELSE requestsCount
          /\ request' = request \/ (IsPart(Head(main).req) /\ requestsCount' = 0)
          /\ \A r \in Requests : IsPart(r) => state'[r] = state[r]
          /\ ~(IsPart(Head(main).req) /\ Head(main).what = "sent")
      BY <1>2, <1>6, <2>1
    <3> QED  BY <1>2, <3>1, CountTakes
  <2>3. GoneInv' /\ ProgressInv'
    BY <1>2, <1>6, <2>1, <2>2 DEF HarmInv, GoneInv, ProgressInv
  <2>4. NothingUndefined'
    BY <1>2, <1>6 DEF HarmInv, NothingUndefined, Excused, OnlyOpening
  <2> QED  BY <1>4, <2>2, <2>3, <2>4 DEF HarmInv
<1>7. CASE OpeningFails
  <2>1. /\ UNCHANGED <<request, state, queue, blocks, failures, wild>>
        /\ ~IsPart(Head(main).req)
    BY <1>3, <1>5, <1>7 DEF OpeningFails, network, Take
  <2>2. undefined' => undefined \/ Excused \/ (~callbacks /\ OnlyOpening)
    <3>1. CASE Silent \/ Call("fail")  BY <3>1 DEF Silent, Call
    <3>2. CASE Opening \in blocks /\ life # "alive"  BY <3>2, GoneExcused
    <3>3. CASE ~callbacks
      <4>1. Head(main).req = Opening  BY <1>3, <1>7, RequestFacts DEF OpeningFails, Take
      <4>2. Quiet  BY <1>3, <4>1 DEF UInv, OpeningFirst, Waiting
      <4> QED  BY <3>3, <4>2 DEF Quiet, OnlyOpening
    <3> QED  BY <1>7, <3>1, <3>2, <3>3 DEF OpeningFails, FailOpening
  <2> QED  BY <1>6, <2>1, <2>2
<1>8. CASE Opened
  <2>1. UNCHANGED <<request, blocks, failures, wild>> /\ ~IsPart(Head(main).req)
        /\ Head(main).req = Opening
    BY <1>3, <1>5, <1>8, RequestFacts DEF Opened, Take
  <2>2. CASE UNCHANGED <<state, queue>>
    <3>1. undefined' => undefined \/ Excused
      <4>1. CASE Silent  BY <4>1 DEF Silent
      <4>2. CASE Opening \in blocks /\ (life # "alive" \/ Head(main).what = "no zone")
        <5>1. Head(main).what = "no zone" => malformed  BY <1>3 DEF HarmInv, AnswersInv
        <5> QED  BY <4>2, <5>1, GoneExcused DEF Excused
      <4>3. CASE QueueParts /\ Silent  BY <4>3 DEF Silent
      <4> QED  BY <1>8, <4>1, <4>2, <4>3 DEF Opened
    <3> QED  BY <1>6, <2>1, <2>2, <3>1
  <2>3. CASE QueueParts /\ Silent /\ Opening \in blocks /\ life = "alive"
    <3>1. CountInv' /\ Due({"sent"}) = {} /\ Cardinality(Due({"sent"}))' = parts
      BY <1>2, <2>1, <2>3, CountQueued
    <3>2. sent' = sent /\ total' = total + parts  BY <2>3 DEF QueueParts, TotalAdded
    <3>3. parts \in Nat  BY <1>1, UploaderAssumption DEF Types
    <3>4. Cardinality(Due({"sent"})) = 0  BY <3>1, FS_EmptySet
    <3>5. ProgressInv'
      BY <1>2, <2>1, <3>1, <3>2, <3>3, <3>4 DEF HarmInv, ProgressInv
    <3>6. GoneInv' /\ NothingUndefined'
      BY <1>2, <2>1, <2>3 DEF HarmInv, GoneInv, NothingUndefined, Silent
    <3> QED  BY <1>4, <3>1, <3>5, <3>6 DEF HarmInv
  <2> QED  BY <1>8, <2>2, <2>3 DEF Opened
<1>9. CASE PartSent
  <2>1. /\ UNCHANGED <<request, state, blocks, requestsCount, total, failures>>
        /\ IsPart(Head(main).req) /\ Head(main).what = "sent" /\ sent' = sent + 1
    BY <1>3, <1>5, <1>9 DEF PartSent, network, Take
  <2>2. CountInv' /\ Cardinality(Due({"sent"}))' = Cardinality(Due({"sent"})) - 1
    <3>1. /\ parts' = parts
          /\ requestsCount' = IF IsPart(Head(main).req) /\ Head(main).what \in Ends
                              THEN requestsCount - 1 ELSE requestsCount
          /\ request' = request \/ (IsPart(Head(main).req) /\ requestsCount' = 0)
          /\ \A r \in Requests : IsPart(r) => state'[r] = state[r]
          /\ (IsPart(Head(main).req) /\ Head(main).what = "sent")
      BY <1>2, <2>1 DEF Ends
    <3> QED  BY <1>2, <3>1, CountTakes
  <2>3. /\ Cardinality(Due({"sent"})) \in Nat /\ Cardinality(Due({"sent"}))' \in Nat
    <3>2. IsFiniteSet(Due({"sent"}))  BY <1>1, DueFinite
    <3>3. Cardinality(Due({"sent"})) \in Nat  BY <1>1, DueFinite
    <3>4. Cardinality(Due({"sent"})) # 0
      <4>1. PICK p \in Parts : Head(main).req = Part(p)  BY <1>3, <2>1, PartReports
      <4>2. p \in Due({"sent"})  BY <1>3, <2>1, <4>1 DEF Due
      <4> QED  BY <3>2, <4>2, FS_EmptySet
    <3> QED  BY <2>2, <3>3, <3>4
  <2>4. ProgressInv'
    BY <1>2, <2>1, <2>2, <2>3 DEF HarmInv, ProgressInv
  <2>5. GoneInv'  BY <1>2, <2>1 DEF HarmInv, GoneInv
  <2>6. CASE life = "dead"
    <3>1. Excused /\ wild' = wild  BY <1>2, <1>9, <2>1, <2>6, GoneExcused DEF PartSent
    <3>2. NothingUndefined'
      BY <1>2, <2>1, <3>1 DEF HarmInv, NothingUndefined, Excused
    <3> QED  BY <1>4, <2>2, <2>4, <2>5, <3>2 DEF HarmInv
  <2>7. CASE life # "dead"
    <3>1. undefined' = undefined /\ wild' = (wild \/ sent' > total)
      BY <1>9, <2>7 DEF PartSent, Silent
    <3>2. failures = {} => ~(sent' > total)
      BY <2>1, <2>2, <2>3, <2>7 DEF HarmInv, ProgressInv
    <3>3. NothingUndefined'
      <4>1. wild' => failures # {}  BY <3>1, <3>2 DEF HarmInv, NothingUndefined
      <4> QED  BY <1>2, <2>1, <3>1, <4>1 DEF NothingUndefined
    <3> QED  BY <1>4, <2>2, <2>4, <2>5, <3>3 DEF HarmInv
  <2> QED  BY <2>6, <2>7
<1>10. CASE PartFinished \/ PartFailed
  <2>1. /\ UNCHANGED wild
        /\ IsPart(Head(main).req) /\ Head(main).what \in Ends /\ Head(main).what # "sent"
        /\ requestsCount' = requestsCount - 1 /\ TellUploader
    BY <1>3, <1>5, <1>10 DEF PartFinished, PartFailed, Take, CountAfterFailure, Ends
  <2>2. \A r \in Requests : IsPart(r) => state'[r] = state[r]
    BY <1>1, <2>1 DEF TellUploader, UploadFinish, Types, IsPart
  <2>3. request' = request \/ requestsCount' = 0
    BY <2>1 DEF TellUploader, UploadFinish
  <2>4. CountInv' /\ Due({"sent"})' = Due({"sent"})
    <3>1. /\ parts' = parts
          /\ requestsCount' = IF IsPart(Head(main).req) /\ Head(main).what \in Ends
                              THEN requestsCount - 1 ELSE requestsCount
          /\ request' = request \/ (IsPart(Head(main).req) /\ requestsCount' = 0)
          /\ \A r \in Requests : IsPart(r) => state'[r] = state[r]
          /\ ~(IsPart(Head(main).req) /\ Head(main).what = "sent")
      BY <1>2, <2>1, <2>2, <2>3
    <3> QED  BY <1>2, <3>1, CountTakes
  <2>5. life # "alive" => Excused  BY <1>2, <2>1, GoneExcused
  <2>6. /\ undefined' => Excused
        /\ blocks' = blocks \/ life = "alive"
    BY <1>2, <2>1, <2>5 DEF TellUploader, UploadFinish, Breaks, Silent
  <2>7. GoneInv'
    <3>1. requestsCount > 0  BY <1>3, <2>1, PartReports
    <3> QED  BY <1>2, <2>6, <3>1 DEF HarmInv, GoneInv
  <2>8. \/ UNCHANGED <<sent, total, failures>>
        \/ failures' # {} /\ sent' \in {0, sent} /\ total' \in {0, total}
    <3>1. CASE PartFinished  BY <3>1 DEF PartFinished
    <3>2. CASE PartFailed  BY <3>2 DEF PartFailed
    <3> QED  BY <1>10, <3>1, <3>2
  <2>9. ProgressInv'  BY <1>2, <2>4, <2>8 DEF HarmInv, ProgressInv
  <2>10. NothingUndefined'
    BY <1>2, <2>1, <2>6, <2>8 DEF HarmInv, NothingUndefined, Excused
  <2> QED  BY <1>4, <2>4, <2>7, <2>9, <2>10 DEF HarmInv
<1>11. CASE Closed
  <2>1. /\ UNCHANGED <<request, state, queue, blocks, failures, wild>>
        /\ ~IsPart(Head(main).req)
    BY <1>3, <1>5, <1>11 DEF Closed, network, Take
  <2>2. undefined' = undefined  BY <1>11 DEF Closed, Silent, Call
  <2> QED  BY <1>6, <2>1, <2>2
<1> QED  BY <1>7, <1>8, <1>9, <1>10, <1>11 DEF MainThread

-----------------------------------------------------------------------------
(* What holds of an uploader, its queue and its client at any time. *)
FullInv == UInv /\ CountInv /\ HarmInv

LEMMA FullInvStep == FullInv /\ [Next]_vars => FullInv'
<1> SUFFICES ASSUME FullInv, [Next]_vars PROVE FullInv'  OBVIOUS
<1>1. UInv'  BY StepsMap DEF FullInv
<1>2. CASE UNCHANGED vars
  <2>1. UNCHANGED <<parts, client, blocks, queue, requestsCount, request, state, main, malformed,
                    result>>
    BY <1>2 DEF vars, queue, network
  <2>2. CountInv' /\ Due({"sent"})' = Due({"sent"})
    BY <2>1, CountSame DEF FullInv
  <2>3. AnswersInv'  BY <2>1 DEF FullInv, HarmInv, AnswersInv
  <2>4. HarmInv'  BY <2>1, <2>2, <2>3, NoHarm DEF FullInv
  <2> QED  BY <1>1, <2>2, <2>4 DEF FullInv
<1>3. CASE Next
  BY <1>1, <1>3, ClientHarm, RequestThreadHarm, MainThreadHarm DEF FullInv, Next
<1> QED  BY <1>2, <1>3

LEMMA FullInvAlways == Spec => []FullInv
<1>1. Init => FullInv  BY Begins, CountInit, HarmInit DEF FullInv
<1> QED  BY <1>1, FullInvStep, PTL DEF Spec

(* The closing request is made when every part has ended and has been seen to
   (ClosesAfterParts): the count of the queue is exact, whatever fails and is
   cancelled, and passes 0 when the last part's report is taken. *)
THEOREM ClosingIsLast == Spec => []ClosesAfterParts
<1>1. FullInv => ClosesAfterParts
  <2> SUFFICES ASSUME FullInv, request = Closing PROVE ClosesAfterParts
    BY DEF ClosesAfterParts
  <2>1. /\ Types /\ CountInv /\ requestsCount = 0
        /\ \A p \in Parts : state[Part(p)] # "none"
    BY DEF FullInv, UInv, CountInv
  <2>2. Due(Ends) = {}
    <3>1. IsFiniteSet(Due(Ends))  BY <2>1, DueFinite
    <3> QED  BY <2>1, <3>1, FS_EmptySet DEF CountInv
  <2>3. \A p \in Parts : state[Part(p)] = "complete"
    BY <2>1, <2>2, PartFacts DEF Due, Types
  <2>4. ASSUME NEW i \in 1..Len(main) PROVE main[i].req[1] # "part"
    <3>1. main \in Seq(Messages)  BY <2>1 DEF Types
    <3>2. main[i] \in Messages  BY <3>1, ElementOfSeq
    <3>3. ~IsPart(main[i].req)  BY PartReports DEF FullInv
    <3> QED  BY <3>2, <3>3, RequestFacts DEF Messages, IsPart
  <2> QED  BY <2>1, <2>3, <2>4 DEF ClosesAfterParts
<1> QED  BY <1>1, FullInvAlways, PTL

(* No undefined behaviour without an excuse, and no progress above 1 before a
   part has failed (NothingUndefined). *)
THEOREM HarmHasACause == Spec => []NothingUndefined
<1>1. FullInv => NothingUndefined  BY DEF FullInv, HarmInv
<1> QED  BY <1>1, FullInvAlways, PTL

-----------------------------------------------------------------------------
(* The types that no other invariant needs. *)
RestTypes ==
    /\ callbacks \in BOOLEAN /\ held \in BOOLEAN
    /\ blocks \subseteq {Opening, Closing} /\ partCount \in Nat
    /\ cancelling \subseteq Requests /\ failures \subseteq Requests
    /\ malformed \in BOOLEAN /\ wild \in BOOLEAN

LEMMA RestTypesStep == FullInv /\ RestTypes /\ [Next]_vars => RestTypes'
<1> SUFFICES ASSUME FullInv, RestTypes, [Next]_vars PROVE RestTypes'  OBVIOUS
<1>1. Types  BY DEF FullInv, UInv
<1>2. UnfinishedParts \subseteq Requests /\ Unfinished \subseteq Requests
  BY DEF UnfinishedParts, Unfinished
<1>3. CASE UNCHANGED vars
  BY <1>3 DEF RestTypes, vars, client, queue, network, result
<1>4. CASE Go
  BY <1>4 DEF Go, RestTypes, client, queue, result
<1>5. CASE (\E thread \in {"main", "another"} : Drop(thread)) \/ EndDealloc
  <2>1. /\ UNCHANGED <<callbacks, partCount, malformed, wild, failures>>
        /\ held' \in {held, FALSE} /\ blocks' \in {blocks, {}}
        /\ cancelling' \in {cancelling, cancelling \cup (UnfinishedParts \cup (Unfinished \cap {request}))}
    BY <1>5 DEF Drop, EndDealloc, Dealloc, BlocksAfterDealloc, result
  <2> QED  BY <1>2, <2>1 DEF RestTypes
<1>6. CASE RequestThread
  <2>1. /\ UNCHANGED <<callbacks, held, blocks, partCount, failures, wild>>
        /\ cancelling' \subseteq cancelling
    BY <1>6 DEF RequestThread, Start, CancelOnRequestThread, OpeningEnds, PartEnds, ClosingEnds,
                Complete, client, queue, result
  <2>2. malformed' \in BOOLEAN
    <3>1. CASE malformed' = malformed  BY <3>1 DEF RestTypes
    <3>2. CASE OpeningEnds  BY <3>2 DEF OpeningEnds
    <3> QED
      BY <1>6, <3>1, <3>2 DEF RequestThread, Start, CancelOnRequestThread, PartEnds, ClosingEnds
  <2> QED  BY <2>1, <2>2 DEF RestTypes
<1>7. CASE MainThread
  <2>1. UNCHANGED <<callbacks, held, malformed>>
    BY <1>7 DEF MainThread, Opened, OpeningFails, PartSent, PartFinished, PartFailed, Closed, client
  <2>2. Head(main).req \in Requests
    <3>1. main # <<>> /\ main' = Tail(main)
      BY <1>7 DEF MainThread, Opened, OpeningFails, PartSent, PartFinished, PartFailed, Closed, Take
    <3> QED  BY <3>1, Took DEF FullInv
  <2>3. blocks' \in {blocks, blocks \cup {Closing}}
    BY <1>7 DEF MainThread, Opened, OpeningFails, PartSent, PartFinished, PartFailed, Closed,
                TellUploader, UploadFinish
  <2>4. partCount' \in {partCount, parts}
    BY <1>7 DEF MainThread, Opened, OpeningFails, PartSent, PartFinished, PartFailed, Closed,
                queue, QueueParts, PartCount
  <2>5. cancelling' \in {cancelling, cancelling \cup UnfinishedParts}
    BY <1>7 DEF MainThread, Opened, OpeningFails, PartSent, PartFinished, PartFailed, Closed, network
  <2>6. failures' \in {failures, failures \cup {Head(main).req}}
    BY <1>7 DEF MainThread, Opened, OpeningFails, PartSent, PartFinished, PartFailed, Closed
  <2>7. wild' \in BOOLEAN
    <3>1. CASE wild' = wild  BY <3>1 DEF RestTypes
    <3>2. CASE wild' = (wild \/ sent' > total)  BY <3>2
    <3> QED
      BY <1>7, <3>1, <3>2 DEF MainThread, Opened, OpeningFails, PartSent, PartFinished, PartFailed,
                              Closed
  <2>8. parts \in Nat  BY <1>1, DueFinite
  <2> QED  BY <1>2, <2>1, <2>2, <2>3, <2>4, <2>5, <2>6, <2>7, <2>8 DEF RestTypes
<1> QED  BY <1>3, <1>4, <1>5, <1>6, <1>7 DEF Next

(* The types of an uploader; the count of the queue is never below 0 or above
   the number of parts, which only counting the parts shows (TypeOK). *)
THEOREM UploaderTypes == Spec => []TypeOK
<1>1. Init => RestTypes
  <2> SUFFICES ASSUME Init PROVE RestTypes  OBVIOUS
  <2>1. blocks = {} /\ cancelling = {} /\ failures = {} /\ partCount = 0  BY DEF Init
  <2>2. malformed = FALSE /\ wild = FALSE /\ held = TRUE /\ callbacks \in BOOLEAN
    BY DEF Init
  <2> QED  BY <2>1, <2>2 DEF RestTypes
<1>2. FullInv /\ RestTypes => TypeOK
  <2> SUFFICES ASSUME FullInv, RestTypes PROVE TypeOK  OBVIOUS
  <2>1. Types /\ CountInv /\ GoneInv /\ ProgressInv  BY DEF FullInv, UInv, HarmInv
  <2>2. requestsCount \in 0..parts  BY <2>1, DueFinite DEF CountInv
  <2> QED  BY <2>1, <2>2 DEF TypeOK, Types, RestTypes, GoneInv, ProgressInv, Messages
<1> QED  BY <1>1, <1>2, FullInvAlways, RestTypesStep, PTL DEF Spec
=============================================================================
