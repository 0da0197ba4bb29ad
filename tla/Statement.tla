----------------------------- MODULE Statement -----------------------------
(***************************************************************************)
(* Statement objects (statement_impl in nanodbc.cpp) over connections that *)
(* come and go, and the statement handles the driver manager keeps for     *)
(* them.  A statement remembers what it asked of its handle: that it is    *)
(* open, that asynchronous mode is on, which event is signalled.  The hard *)
(* part is that these memories outlive the handle: the link is dropped, or *)
(* the statement moves to another connection, and they describe a handle   *)
(* that is gone, or one that now belongs to another statement.             *)
(*                                                                         *)
(* A method is a chain of driver calls, each of which may end it.  It is   *)
(* written as an operator from a situation (the object and the handles) to *)
(* the set of situations it may leave, and Then chains them.               *)
(***************************************************************************)
EXTENDS Naturals, FiniteSets

CONSTANTS
  Stmt,        \* the statement objects
  Conn,        \* the connection objects they are opened on
  StmtHandle,  \* values of statement handles; freed ones are reused
  Event,       \* events given to asynchronous calls
  NULL,        \* the null handle, event and connection
  Ops,         \* the methods the program uses
  PrepareTimeouts, \* has a prepare() a timeout, that is, one other than zero?
  KeepsStale,  \* does the program go on using a statement whose link is lost?
  Faults,      \* the driver calls that may fail of their own accord
  MaxLinks     \* bound: how often each connection is connected

AllOps == {"construct", "open", "close", "cancel", "prepare", "prepare on",
           "execute", "direct", "destroy"}

StatementFaults ==
  {"alloc", "free", "cancel", "setAsync", "setEvent", "setAttr", "closeCursor", "run"}

ASSUME NullAssumption ==
  NULL \notin Conn \cup StmtHandle \cup Event
ASSUME EventAssumption ==
  Event \cap {"unborn", "returned", "threw", "gone"} = {}
ASSUME BoundAssumption == MaxLinks \in Nat
ASSUME TimeoutAssumption == PrepareTimeouts \subseteq BOOLEAN
ASSUME StaleAssumption == KeepsStale \in BOOLEAN

VARIABLES
  connected,  \* of each connection: connected_
  links,      \* how often it was connected
  obj,        \* of each statement: the members of statement_impl
  drv,        \* driver manager: the state of each statement handle
  told        \* of each statement: unborn; returned or threw, as its last
              \* method did; the event its caller was told to wait for; or gone

connVars == <<connected, links>>
vars     == <<connVars, obj, drv, told>>

\* The members of a statement that is not open; async_enabled_ and
\* async_event_ are not among those that closing resets.
NewObject == [open |-> FALSE, handle |-> NULL, conn |-> NULL,
              async |-> FALSE, enabled |-> FALSE, event |-> NULL]

\* A handle: its connection, the call in progress (busy: no, executing, done
\* but not completed), its attributes, and what was prepared and opened.
NewHandle(c) == [on |-> c, busy |-> "no", mode |-> FALSE, event |-> NULL,
                 prepared |-> FALSE, cursor |-> FALSE]

Free == NewHandle(NULL)

Init ==
  /\ connected = [c \in Conn |-> FALSE] /\ links = [c \in Conn |-> 0]
  /\ obj = [s \in Stmt |-> NewObject]
  /\ drv = [k \in StmtHandle |-> Free]
  /\ told = [s \in Stmt |-> "unborn"]

-----------------------------------------------------------------------------
(* Situations: o, the object; d, the handles; end, how the method ends.    *)

Situation(s) == [o |-> obj[s], d |-> drv, end |-> "returned"]
NewSituation == [o |-> NewObject, d |-> drv, end |-> "returned"]

Threw(x) == [x EXCEPT !.end = "threw"]

\* What may come of F once any of xs has come about; an exception skips it.
Then(xs, F(_)) ==
  {x \in xs : x.end = "threw"} \cup UNION {F(x) : x \in {y \in xs : y.end # "threw"}}

\* The driver's view of the object's handle, and the situation with r for it.
Own(x)   == x.d[x.o.handle]
On(x, r) == [x EXCEPT !.d[x.o.handle] = r]

\* The manager knows the handle: not freed, or freed and allocated again.
Known(x) == x.o.handle # NULL /\ Own(x).on # NULL

\* It accepts calls on it: none is in progress.
Idle(x) == Known(x) /\ Own(x).busy = "no"

FailsAt(x, call) == IF call \in Faults THEN {Threw(x)} ELSE {}

\* A call that leaves y, unless it fails or the manager refuses it.
Call(x, call, y) == (IF Idle(x) THEN {y} ELSE {Threw(x)}) \cup FailsAt(x, call)

-----------------------------------------------------------------------------
(* open(), close() and the asynchronous mode.                              *)

\* SQLCancel, also accepted while a call is in progress, which may then end.
CancelCall(x) ==
  IF ~Known(x) THEN {Threw(x)} ELSE
    {x} \cup FailsAt(x, "cancel")
        \cup (IF Own(x).busy = "executing"
              THEN {On(x, [Own(x) EXCEPT !.busy = "done"])} ELSE {})

FreeCall(x) == Call(x, "free", On(x, Free))

Closed(x) == {[x EXCEPT !.o.open = FALSE, !.o.handle = NULL]}

\* open() && connected() of the object.
InUse(x) == x.o.open /\ x.o.conn # NULL /\ connected[x.o.conn]

\* Slip: the handle is dropped, not freed.
CloseDrops(x) == Closed(x)

\* close(): a handle whose link has gone is forgotten, its driver freed it.
Close(x) == IF InUse(x) THEN Then(Then(CancelCall(x), FreeCall), Closed)
                        ELSE Closed(x)

\* SQLAllocHandle on the connection; a failure leaves the object closed.
Alloc(x, c) ==
  (IF connected[c]
   THEN {[x EXCEPT !.o.open = TRUE, !.o.handle = k, !.o.conn = c,
                   !.d[k] = NewHandle(c)] : k \in {h \in StmtHandle : x.d[h] = Free}}
   ELSE {Threw(x)})
  \cup FailsAt(x, "alloc")

\* open(conn): nothing is done on a connection with the same handle, that is,
\* when both are connected, on the same connection.
OpenOn(x, c) ==
  LET AllocOn(y) == Alloc(y, c)
  IN  IF InUse(x) /\ x.o.conn = c THEN {x} ELSE Then(Close(x), AllocOn)

\* open(conn, attributes), with some attribute to set or none.
OpenWith(x, c, some) ==
  LET Attributes(y) == IF some THEN Call(y, "setAttr", y) ELSE {y}
  IN  Then(OpenOn(x, c), Attributes)

\* disable_async(); the flag says what the object asked, not what the handle is in.
DisableAsync(x) ==
  IF ~x.o.enabled THEN {x}
  ELSE Call(x, "setAsync",
            [On(x, [Own(x) EXCEPT !.mode = FALSE]) EXCEPT !.o.enabled = FALSE])

\* The two steps of enable_async().
ModeOn(x) ==
  IF x.o.enabled THEN {x}
  ELSE Call(x, "setAsync",
            [On(x, [Own(x) EXCEPT !.mode = TRUE]) EXCEPT !.o.enabled = TRUE])

EventSet(x, e) ==
  IF x.o.event = e THEN {x}
  ELSE Call(x, "setEvent", [On(x, [Own(x) EXCEPT !.event = e]) EXCEPT !.o.event = e])

\* Slips: the flag is raised after the second step only; the event of an
\* earlier call is kept.
EnableLate(x, e) ==
  LET Quiet(y)  == IF y.o.enabled THEN {y}
                   ELSE Call(y, "setAsync", On(y, [Own(y) EXCEPT !.mode = TRUE]))
      Set(y)    == EventSet(y, e)
      Raised(y) == {[y EXCEPT !.o.enabled = TRUE]}
  IN  Then(Then(Quiet(x), Set), Raised)

EnableOnce(x, e) ==
  LET Set(y) == EventSet(y, e) IN IF x.o.enabled THEN {x} ELSE Then(ModeOn(x), Set)

EnableAsync(x, e) == LET Set(y) == EventSet(y, e) IN Then(ModeOn(x), Set)

SetMode(x, e) == IF e = NULL THEN DisableAsync(x) ELSE EnableAsync(x, e)

-----------------------------------------------------------------------------
(* prepare(), just_execute() and just_execute_direct().                    *)

\* timeout(): a refusal is passed on only if a timeout was asked for.
Timeout(x, some) == IF some THEN Call(x, "setAttr", x) ELSE {x}

\* A call that may take long and leaves one of rs: at once, with this end, or,
\* in asynchronous mode, later.
Run(x, accepted, rs, end) ==
  (IF Idle(x) /\ accepted
   THEN {[On(x, r) EXCEPT !.end = end] : r \in rs} \cup
        (IF Own(x).mode
         THEN {[On(x, [r EXCEPT !.busy = "executing"]) EXCEPT !.end = "pending"] : r \in rs}
         ELSE {})
   ELSE {Threw(x)})
  \cup FailsAt(x, "run")

\* The three calls; none is accepted while a cursor is open.  An execution
\* may open one, and may find no data.
PrepareCall(x) ==
  Run(x, ~Own(x).cursor, {[Own(x) EXCEPT !.prepared = TRUE]}, "returned")

Executions(x, accepted, r) ==
  Run(x, accepted, {r, [r EXCEPT !.cursor = TRUE]}, "returned")
  \cup Run(x, accepted, {r}, "no data")

ExecuteCall(x) == Executions(x, Own(x).prepared /\ ~Own(x).cursor, Own(x))

DirectCall(x) ==
  Executions(x, ~Own(x).cursor, [Own(x) EXCEPT !.prepared = FALSE])

CloseCursor(x) ==
  IF x.o.open THEN Call(x, "closeCursor", On(x, [Own(x) EXCEPT !.cursor = FALSE])) ELSE {x}

SetParamsetSize(x) == Call(x, "setAttr", x)

\* prepare(query): the timeout is set after the call.
Prepare(x, e, some) ==
  LET InTime(y) == Timeout(y, some)
  IN  IF ~x.o.open THEN {Threw(x)}
      ELSE Then(Then(SetMode(x, e), PrepareCall), InTime)

\* prepare(conn, query), never asynchronous.
PrepareOn(x, c, some) ==
  LET Sync(y) == Prepare(y, NULL, some) IN Then(OpenOn(x, c), Sync)

Execute(x, e, some) ==
  LET Mode(y) == SetMode(y, e)
      InTime(y) == Timeout(y, some)
  IN  Then(Then(Then(Then(CloseCursor(x), Mode), SetParamsetSize), InTime), ExecuteCall)

ExecuteDirect(x, c, e, some) ==
  LET Mode(y) == SetMode(y, e)
      InTime(y) == Timeout(y, some)
  IN  Then(Then(Then(Then(OpenOn(x, c), Mode), SetParamsetSize), InTime), DirectCall)

\* Slip: async_ gets no value when the call is not put off.
AsyncUnset(x) ==
  {[x EXCEPT !.o.async = IF x.end = "pending" THEN TRUE ELSE NULL]}

\* async_helper(): no data is an exception to it.
AsyncHelper(x) ==
  IF x.end = "pending" THEN {[x EXCEPT !.o.async = TRUE]} ELSE
  IF x.end = "no data" THEN {Threw(x)} ELSE {[x EXCEPT !.o.async = FALSE]}

Started(xs, e) == IF e = NULL THEN xs ELSE Then(xs, AsyncHelper)

-----------------------------------------------------------------------------
(* The steps of the program.                                               *)

\* Statement s does op, given event e, and the outcome is one of xs.  A caller
\* that gave no event is not told that the call is still in progress.
Does(s, op, e, xs) ==
  /\ op \in Ops
  /\ \E x \in xs :
       /\ obj' = [obj EXCEPT ![s] = x.o]
       /\ drv' = x.d
       /\ told' = [told EXCEPT ![s] =
                     IF x.end = "threw" THEN "threw" ELSE
                     IF x.end = "pending" /\ e # NULL THEN e ELSE "returned"]
  /\ UNCHANGED connVars

Alive(s) == told[s] # "gone"

\* A caller asked to wait for an event does not start another call.
Ready(s) == told[s] \in {"unborn", "returned", "threw"}

\* Unless the program keeps stale statements, it closes, destroys or opens
\* again, and does nothing else with, a statement whose link is lost; and it
\* connects again only once no statement is left open on the lost link.
Usable(s)    == KeepsStale \/ (obj[s].open => InUse(Situation(s)))
Forgotten(c) == KeepsStale \/ \A s \in Stmt : ~(obj[s].open /\ obj[s].conn = c)

\* The constructors that open, or open and prepare.  When one throws there is
\* no object and no destructor runs: what it had opened stays, with no owner.
Construct(s) ==
  /\ told[s] = "unborn" /\ "construct" \in Ops
  /\ \E c \in Conn, some \in BOOLEAN :
       \E x \in OpenWith(NewSituation, c, some) \cup PrepareOn(NewSituation, c, some) :
         /\ obj' = [obj EXCEPT ![s] = x.o]
         /\ drv' = x.d
         /\ told' = [told EXCEPT ![s] = IF x.end = "threw" THEN "gone" ELSE "returned"]
  /\ UNCHANGED connVars

OpenStatement(s) ==
  Ready(s) /\ \E c \in Conn : Does(s, "open", NULL, OpenOn(Situation(s), c))

\* A close() that throws leaves its caller what it waited for.
CloseStatement(s) ==
  /\ Alive(s) /\ "close" \in Ops
  /\ \E x \in Close(Situation(s)) :
       /\ obj' = [obj EXCEPT ![s] = x.o]
       /\ drv' = x.d
       /\ told' = [told EXCEPT ![s] = IF x.end = "threw" THEN @ ELSE "returned"]
  /\ UNCHANGED connVars

\* cancel(), whatever comes of it: a caller that waits goes on waiting.
CancelStatement(s) ==
  /\ Alive(s) /\ Usable(s) /\ obj[s].open /\ "cancel" \in Ops
  /\ \E x \in CancelCall(Situation(s)) : drv' = x.d
  /\ UNCHANGED <<connVars, obj, told>>

PrepareStatement(s) ==
  Ready(s) /\ Usable(s) /\ \E e \in Event \cup {NULL}, some \in PrepareTimeouts :
    Does(s, "prepare", e, Started(Prepare(Situation(s), e, some), e))

PrepareStatementOn(s) ==
  Ready(s) /\ \E c \in Conn, some \in BOOLEAN :
    Does(s, "prepare on", NULL, PrepareOn(Situation(s), c, some))

ExecuteStatement(s) ==
  Ready(s) /\ Usable(s) /\ \E e \in Event \cup {NULL}, some \in BOOLEAN :
    Does(s, "execute", e, Started(Execute(Situation(s), e, some), e))

ExecuteStatementDirect(s) ==
  Ready(s) /\ \E c \in Conn, e \in Event \cup {NULL}, some \in BOOLEAN :
    Does(s, "direct", e, Started(ExecuteDirect(Situation(s), c, e, some), e))

\* complete_prepare() and complete_execute(), called once the event the caller
\* waits for is signalled: the handle is done and has that event.  The call
\* may have failed, or found no data; async_ is not cleared.
Signalled(s) ==
  /\ Known(Situation(s))
  /\ Own(Situation(s)).busy = "done" /\ Own(Situation(s)).event = told[s]

CompleteCall(x) ==
  LET done == On(x, [Own(x) EXCEPT !.busy = "no"])
  IN  IF ~x.o.async THEN {x} ELSE {done, Threw(done)}

Complete(s) ==
  /\ told[s] \in Event /\ Signalled(s)
  /\ \E op \in {"prepare", "execute", "direct"} :
       Does(s, op, NULL, CompleteCall(Situation(s)))

\* How ~statement_impl leaves the handles, once it is called.
Ends(s, xs) ==
  /\ Alive(s) /\ "destroy" \in Ops
  /\ \E x \in xs : drv' = x.d
  /\ obj' = [obj EXCEPT ![s] = NewObject]
  /\ told' = [told EXCEPT ![s] = "gone"]
  /\ UNCHANGED connVars

\* Slip: a cancel that fails ends the destructor.
DestroyIfCancelled(s) ==
  LET x == Situation(s)
  IN  Ends(s, IF InUse(x) THEN Then(CancelCall(x), FreeCall) ELSE {x})

\* ~statement_impl: frees whatever comes of cancelling, swallows exceptions.
Destroy(s) ==
  LET x == Situation(s)
  IN  Ends(s, IF InUse(x) THEN UNION {FreeCall(y) : y \in CancelCall(x)} ELSE {x})

-----------------------------------------------------------------------------
(* The connections and the driver.                                         *)

\* What is left of the handles when the link of c is dropped.
Dropped(c) == [k \in StmtHandle |-> IF drv[k].on = c THEN Free ELSE drv[k]]

\* The manager refuses to disconnect while a call is in progress.
Droppable(c) == \A k \in StmtHandle : drv[k].on = c => drv[k].busy = "no"

\* connect() that returns: a link of its own.
Connect(c) ==
  /\ links[c] < MaxLinks /\ Droppable(c) /\ Forgotten(c)
  /\ connected' = [connected EXCEPT ![c] = TRUE]
  /\ links' = [links EXCEPT ![c] = @ + 1]
  /\ drv' = Dropped(c)
  /\ UNCHANGED <<obj, told>>

\* disconnect(), or a connect() that throws once it has disconnected.
Disconnect(c) ==
  /\ connected[c] /\ Droppable(c)
  /\ connected' = [connected EXCEPT ![c] = FALSE]
  /\ drv' = Dropped(c)
  /\ UNCHANGED <<links, obj, told>>

\* The driver is done with the call in progress on handle k.
DriverFinishes(k) ==
  /\ drv[k].busy = "executing"
  /\ drv' = [drv EXCEPT ![k].busy = "done"]
  /\ UNCHANGED <<connVars, obj, told>>

Next ==
  \/ \E s \in Stmt :
       \/ Construct(s) \/ OpenStatement(s) \/ CloseStatement(s) \/ CancelStatement(s)
       \/ PrepareStatement(s) \/ PrepareStatementOn(s)
       \/ ExecuteStatement(s) \/ ExecuteStatementDirect(s)
       \/ Complete(s) \/ Destroy(s)
  \/ \E c \in Conn : Connect(c) \/ Disconnect(c)
  \/ \E k \in StmtHandle : DriverFinishes(k)

Spec == Init /\ [][Next]_vars

\* The driver ends what it has begun, and a caller that was told to wait for
\* an event completes once it is signalled.
FairSpec ==
  /\ Spec
  /\ \A k \in StmtHandle : WF_vars(DriverFinishes(k))
  /\ \A s \in Stmt : WF_vars(Complete(s))

-----------------------------------------------------------------------------
(* Properties                                                              *)

TypeOK ==
  /\ connected \in [Conn -> BOOLEAN] /\ links \in [Conn -> 0..MaxLinks]
  /\ obj \in [Stmt -> [open : BOOLEAN, handle : StmtHandle \cup {NULL},
                       conn : Conn \cup {NULL}, async : BOOLEAN,
                       enabled : BOOLEAN, event : Event \cup {NULL}]]
  /\ drv \in [StmtHandle -> [on : Conn \cup {NULL}, busy : {"no", "executing", "done"},
                             mode : BOOLEAN, event : Event \cup {NULL},
                             prepared : BOOLEAN, cursor : BOOLEAN]]
  /\ told \in [Stmt -> {"unborn", "returned", "threw", "gone"} \cup Event]

Using == {s \in Stmt : InUse(Situation(s))}

\* Whichever call fails in closing, moving to another connection and opening,
\* each statement in use has a handle of its own, allocated on the connection
\* it names, and the manager holds no other, unless a call is in progress on
\* it: none leaks but to a destructor that meets such a call, and to a
\* constructor that throws, counted here as its user.  It takes a program that
\* forgets the statements of a lost link: the library does not.
HandlesOwned ==
  /\ \A s \in Using : obj[s].handle # NULL /\ drv[obj[s].handle].on = obj[s].conn
  /\ \A s, t \in Using : s # t => obj[s].handle # obj[t].handle
  /\ \A k \in StmtHandle :
       drv[k] # Free /\ drv[k].busy = "no" => \E s \in Using : obj[s].handle = k

\* A caller that was not asked to wait has nothing in progress: no call
\* returns from a statement still executing, and none that throws leaves it
\* executing behind it.  The mode the object believes in and the mode of the
\* handle may differ, only never so.
DoneUnlessAwaited ==
  \A s \in Using : told[s] \notin Event => Own(Situation(s)).busy = "no"

\* nanodbc.h on async_execute(): "true if the event handle needs to be
\* awaited": the event the caller waits for is the one the driver will signal.
AwaitedIsSet ==
  \A s \in Using : told[s] \in Event => Own(Situation(s)).event = told[s]

\* A caller that waits is woken and can complete, however often it cancels in
\* between.
WaitEnds == \A s \in Stmt : told[s] \in Event ~> told[s] \notin Event

\* ~statement leaves no handle of a standing link behind unless a call is in
\* progress on it, whatever comes of the cancelling it begins with.
DestructionFrees ==
  [][\A s \in Stmt :
       told'[s] = "gone" /\ Alive(s) /\ s \in Using /\ Idle(Situation(s))
       => drv'[obj[s].handle] = Free]_vars
=============================================================================
