---------------------------- MODULE Notification ----------------------------
(***************************************************************************)
(* FW/DNotification.m on top of FW/DThreadBus.m: events with a thread each *)
(* (DDef.inl.h), observers registered with the system's notification       *)
(* center, and the two ways the program unregisters them when they die:    *)
(* -[DModule dealloc] and DNotificationAutoKeeper.                         *)
(*                                                                         *)
(* A block of the bus is one posted notification.  Inside it the center    *)
(* copies the matching entries and calls the handlers one after another.   *)
(***************************************************************************)
EXTENDS ThreadBus

CONSTANTS
    Events,         \* DENotification
    EventThread,    \* the thread DDef.inl.h declares for each event
    ByDefault,      \* the events declared without one (Def_Notification)
    AnyName,        \* a nil name: the registration is for every notification
    UIObservers,    \* observers the main thread alone adds and removes
    Modules,        \* instances of DModule
    Kept,           \* observers that own a DNotificationAutoKeeper
    MaxEntries      \* bound on the registrations in force at one time

Observers == UIObservers \cup Modules \cup Kept

ASSUME NotificationAssumption ==
    /\ EventThread \in [Events -> Threads \ {ThreadWhatEver}]
    /\ ByDefault \subseteq Events
    /\ \A e \in ByDefault : EventThread[e] = ThreadMain
    /\ AnyName \notin Events
    /\ UIObservers \cap Modules = {}
    /\ (UIObservers \cup Modules) \cap Kept = {}
    /\ None \notin Observers \cup Events \cup {AnyName}
    /\ MaxEntries \in Nat

VARIABLES
    ready,      \* setup has built the table of events
    event,      \* the event a block posts; AnyName if posted before setup
    entries,    \* the center's registrations
    todo,       \* the entries a block has still to call, None before the copy
    handling,   \* the observer whose handler a block is calling
    life,       \* "alive", "dying" (references to it read nil) or "gone"
    dropping,   \* the observer a context is deallocating
    owed        \* observers a block must reach: alive and registered when it
                \* was posted and ever since

centerVars == <<ready, event, entries, todo, handling, life, dropping, owed>>
vars == <<busVars, centerVars>>

Entry == [observer : Observers, name : Events \cup {AnyName}]

Init ==
    /\ BusInit
    /\ ready = FALSE
    /\ event = [b \in Blocks |-> None]
    /\ entries = {}
    /\ todo = [b \in Blocks |-> None]
    /\ handling = [b \in Blocks |-> None]
    /\ life = [o \in Observers |-> "alive"]
    /\ dropping = [c \in Contexts |-> None]
    /\ owed = [b \in Blocks |-> {}]

-----------------------------------------------------------------------------
(* Mutant of ThreadOf: the initialiser with a thread ignores it. *)
ThreadOfDefault(e) == IF ready THEN ThreadMain ELSE ThreadWhatEver

(* The thread of id2Event(e); the thread of nil is 0, ThreadWhatEver. *)
ThreadOf(e) ==
    CASE ~ready                       -> ThreadWhatEver
      [] ready /\ e \in ByDefault     -> ThreadMain
      [] ready /\ e \notin ByDefault  -> EventThread[e]

(* Mutant of NameOf: the name of nil is no name at all. *)
NameOfNone(e) == IF ready THEN e ELSE None

(* The name of id2Event(e); the name of nil is nil. *)
NameOf(e) == IF ready THEN e ELSE AnyName

Matches(entry, name) == entry.name \in {AnyName, name}

Innermost(c) == frames[c][Len(frames[c])]

(* Client code runs in handlers, in the events of the main thread and on
   threads of its own; the center's own code is in between the handlers. *)
Acts(c) ==
    /\ RunsClientCode(c)
    /\ dropping[c] = None
    /\ frames[c] # <<>> => handling[Innermost(c)] # None

(* -[ViewController viewDidLoad] calls setup on the main thread. *)
Setup ==
    /\ Acts(MainQueue)
    /\ ~ready
    /\ ready' = TRUE
    /\ UNCHANGED <<busVars, event, entries, todo, handling, life, dropping, owed>>

(* postNotification: hands a block to callsafe:inThread:. *)
Post(c, b, e) ==
    /\ Acts(c)
    /\ \/ ThreadOf(e) = ThreadWhatEver /\ CallsafeWhatEver(c, b)
       \/ QueueOf(c, b, ThreadOf(e), "callsafe")
    /\ event' = [event EXCEPT ![b] = NameOf(e)]
    /\ owed' = [owed EXCEPT ![b] =
           {o \in Observers : /\ life[o] = "alive"
                             /\ \E x \in entries : x.observer = o /\ Matches(x, NameOf(e))}]
    /\ UNCHANGED <<ready, entries, todo, handling, life, dropping>>

(* An assumption about the client, on which NoLateHandler rests: an observer of
   the user interface is registered, removed and released by the main thread,
   and not from a block or a handler the bus has called. *)
MayManage(c, o) == o \in UIObservers => IsMainThread(c) /\ frames[c] = <<>>

AddObserver(c, o, e) ==
    /\ Acts(c) /\ MayManage(c, o)
    /\ life[o] = "alive"
    /\ Cardinality(entries) < MaxEntries
    /\ entries' = entries \cup {[observer |-> o, name |-> NameOf(e)]}
    /\ UNCHANGED <<busVars, ready, event, todo, handling, life, dropping, owed>>

EntriesOf(o) == {x \in entries : x.observer = o}

(* The center forgets some entries; a block one of them matches no longer owes
   its observer a call. *)
Forget(gone) ==
    /\ entries' = entries \ gone
    /\ owed' = [b \in Blocks |->
           {o \in owed[b] : \A x \in gone : x.observer = o => ~Matches(x, event[b])}]

RemoveObserver(c, o) ==
    /\ Acts(c) /\ MayManage(c, o)
    /\ life[o] = "alive"
    /\ Forget(EntriesOf(o))
    /\ UNCHANGED <<busVars, ready, event, todo, handling, life, dropping>>

(* removeObserver:name:object: with the name of e, or nil for every name. *)
RemoveObserverFor(c, o, e) ==
    /\ Acts(c) /\ MayManage(c, o)
    /\ life[o] = "alive"
    /\ Forget({x \in EntriesOf(o) : NameOf(e) \in {AnyName, x.name}})
    /\ UNCHANGED <<busVars, ready, event, todo, handling, life, dropping>>

(* The center copies the entries the posted name matches. *)
Copy(c) ==
    /\ frames[c] # <<>> /\ call[c] = None /\ dropping[c] = None
    /\ LET b == Innermost(c)
       IN  /\ todo[b] = None
           /\ todo' = [todo EXCEPT ![b] = {x \in entries : Matches(x, event[b])}]
    /\ UNCHANGED <<busVars, ready, event, entries, handling, life, dropping, owed>>

(* The center takes one of the entries it copied: it skips an observer that is
   dying, may skip one unregistered meanwhile, and calls any other. *)
CallHandler(c) ==
    /\ frames[c] # <<>> /\ call[c] = None /\ dropping[c] = None
    /\ LET b == Innermost(c)
       IN  /\ todo[b] # None /\ handling[b] = None
           /\ \E x \in todo[b] :
               /\ todo' = [todo EXCEPT ![b] = @ \ {x}]
               /\ \/ /\ life[x.observer] = "alive"
                     /\ handling' = [handling EXCEPT ![b] = x.observer]
                     /\ owed' = [owed EXCEPT ![b] = @ \ {x.observer}]
                  \/ /\ life[x.observer] # "alive" \/ x \notin entries
                     /\ UNCHANGED <<handling, owed>>
    /\ UNCHANGED <<busVars, ready, event, entries, life, dropping>>

HandlerReturns(c) ==
    /\ frames[c] # <<>> /\ call[c] = None /\ dropping[c] = None
    /\ handling[Innermost(c)] # None
    /\ handling' = [handling EXCEPT ![Innermost(c)] = None]
    /\ UNCHANGED <<busVars, ready, event, entries, todo, life, dropping, owed>>

BlockReturns(c) ==
    /\ frames[c] # <<>> /\ dropping[c] = None
    /\ todo[Innermost(c)] = {} /\ handling[Innermost(c)] = None
    /\ Return(c)
    /\ UNCHANGED centerVars

BusStep(c) ==
    /\ dropping[c] = None
    /\ Dispatch(c) \/ (c \in Queues /\ Run(c))
    /\ UNCHANGED centerVars

-----------------------------------------------------------------------------
(* The last reference to an observer goes.  The center holds one during a
   handler, so none of its handlers is running. *)
BeginDealloc(c, o) ==
    /\ Acts(c) /\ MayManage(c, o)
    /\ life[o] = "alive"
    /\ \A b \in Blocks : handling[b] # o
    /\ life' = [life EXCEPT ![o] = "dying"]
    /\ dropping' = [dropping EXCEPT ![c] = o]
    /\ owed' = [b \in Blocks |-> owed[b] \ {o}]
    /\ UNCHANGED <<busVars, ready, event, entries, todo, handling>>

(* Mutant of Unregisters: -[DModule dealloc] does not call removeObserver. *)
UnregistersNever(o) == FALSE

(* Whether the dealloc of o, or of the keeper it owns, removes its entries.
   DModule's does.  The keeper's dealloc reads its weak target, which is nil
   from the moment the target's own dealloc begins. *)
Unregisters(o) == o \in Modules \/ (o \in Kept /\ life[o] = "alive")

EndDealloc(c) ==
    /\ dropping[c] # None
    /\ LET o == dropping[c]
       IN  /\ life' = [life EXCEPT ![o] = "gone"]
           /\ entries' = IF Unregisters(o) THEN entries \ EntriesOf(o) ELSE entries
    /\ dropping' = [dropping EXCEPT ![c] = None]
    /\ UNCHANGED <<busVars, ready, event, todo, handling, owed>>

NextNotification ==
    \/ Setup
    \/ \E c \in Contexts, b \in Blocks, e \in Events : Post(c, b, e)
    \/ \E c \in Contexts, o \in Observers, e \in Events : AddObserver(c, o, e)
    \/ \E c \in Contexts, o \in Observers : RemoveObserver(c, o)
    \/ \E c \in Contexts, o \in Observers, e \in Events : RemoveObserverFor(c, o, e)
    \/ \E c \in Contexts : Copy(c)
    \/ \E c \in Contexts : CallHandler(c)
    \/ \E c \in Contexts : HandlerReturns(c)
    \/ \E c \in Contexts : BlockReturns(c)
    \/ \E c \in Contexts : BusStep(c)
    \/ \E c \in Contexts, o \in Observers : BeginDealloc(c, o)
    \/ \E c \in Contexts : EndDealloc(c)

(* Handlers return, and what the bus and the center have begun goes on. *)
Progress(c) ==
    \/ Copy(c) \/ CallHandler(c) \/ HandlerReturns(c)
    \/ BlockReturns(c) \/ BusStep(c) \/ EndDealloc(c)

NotificationSpec ==
    /\ Init
    /\ [][NextNotification]_vars
    /\ \A c \in Contexts : WF_vars(Progress(c))

-----------------------------------------------------------------------------
(* The types: every registration has a name of the table or none, and one
   context at most deallocates an observer. *)
CenterTypeOK ==
    /\ ready \in BOOLEAN
    /\ event \in [Blocks -> Events \cup {AnyName, None}]
    /\ entries \subseteq Entry
    /\ todo \in [Blocks -> {None} \cup SUBSET Entry]
    /\ handling \in [Blocks -> Observers \cup {None}]
    /\ life \in [Observers -> {"alive", "dying", "gone"}]
    /\ dropping \in [Contexts -> Observers \cup {None}]
    /\ owed \in [Blocks -> SUBSET Observers]
    /\ \A c, d \in Contexts : dropping[c] # None /\ dropping[c] = dropping[d] => c = d
    /\ \A c \in Contexts : dropping[c] # None => life[dropping[c]] = "dying"

(* A handler for an event runs on the thread DDef.inl.h declares for it,
   whatever thread posts: TestNotification on the main thread, where handlers
   touch views, TestNotificationThread in the background.  Only what was
   posted before setup has no thread. *)
HandlerOnEventThread ==
    \A c \in Contexts : \A b \in Elements(frames[c]) :
        handling[b] # None /\ event[b] # AnyName => c = QueueAt[EventThread[event[b]]]

(* An observer the main thread removes between two of its events gets no
   main-thread notification afterwards, whichever thread posts it: delivery
   and removal are both on the main thread, so none is half way through. *)
NoLateHandler ==
    [][\A b \in Blocks :
          ( /\ event[b] \in Events /\ EventThread[event[b]] = ThreadMain
            /\ handling[b] = None /\ handling'[b] \in UIObservers )
          => \E x \in entries : x.observer = handling'[b] /\ Matches(x, event[b])]_vars

(* Every entry of the center is of an observer that still exists, as far as
   the program's own dealloc methods can see to it. *)
NoDanglingModule ==
    \A x \in entries : x.observer \in Modules => life[x.observer] # "gone"

(* "auto release Notification" (DNotification.h:42, in Chinese): the keeper
   of a dead observer has removed it from the center. *)
KeeperUnregisters ==
    \A x \in entries : x.observer \in Kept => life[x.observer] # "gone"

(* Every observer registered when a notification is posted, and until its
   turn comes, is called. *)
EveryObserverNotified == \A b \in Blocks : owed[b] # {} ~> owed[b] = {}
=============================================================================
