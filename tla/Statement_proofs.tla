-------------------------- MODULE Statement_proofs --------------------------
(***************************************************************************)
(* Who owns the statement handles, for any number of statements,           *)
(* connections and handles, any methods, and calls that fail (not freeing). *)
(*                                                                         *)
(* A method is a chain of driver calls, each an operator on situations.    *)
(* The proofs follow that shape: every call touches the handle of its own  *)
(* object only (Follows), following is transitive, and so a whole method   *)
(* either touches that handle or puts a fresh one in its place.            *)
(***************************************************************************)
EXTENDS Statement, TLAPS

Object == [open : BOOLEAN, handle : StmtHandle \cup {NULL}, conn : Conn \cup {NULL},
           async : BOOLEAN, enabled : BOOLEAN, event : Event \cup {NULL}]

HandleState == [on : Conn \cup {NULL}, busy : {"no", "executing", "done"},
                mode : BOOLEAN, event : Event \cup {NULL},
                prepared : BOOLEAN, cursor : BOOLEAN]

Situations == [o : Object, d : [StmtHandle -> HandleState],
               end : {"returned", "threw", "pending", "no data"}]

-----------------------------------------------------------------------------
(* One driver call.                                                        *)

\* What the object believes of its handle is on the safe side: it knows of the
\* asynchronous mode, and only a method that says so leaves a call in progress.
Agrees(x) ==
  x.o.handle # NULL =>
    /\ Own(x).mode => x.o.enabled
    /\ Own(x).busy # "no" => x.end = "pending"

\* The event the object remembers is the one its handle will signal.
Synced(x) == x.o.handle # NULL => Own(x).event = x.o.event

\* y has the object of x, but for what it remembers, and the handles of x, but
\* for its own, which stays allocated on the same connection, or free.
Touches(x, y) ==
  /\ y \in Situations
  /\ y.o.open = x.o.open /\ y.o.handle = x.o.handle /\ y.o.conn = x.o.conn
  /\ \A k \in StmtHandle : k # x.o.handle => y.d[k] = x.d[k]
  /\ x.o.handle # NULL =>
       /\ Own(y).on = Own(x).on
       /\ Own(x).on = NULL => Own(y) = Own(x)

Follows(x, y) ==
  /\ Touches(x, y)
  /\ IF x.o.handle = NULL THEN y.o.event = x.o.event ELSE Synced(x) => Synced(y)
  /\ y.end = "pending" => y.o.handle # NULL /\ Own(y).on # NULL /\ Own(y).busy = "executing"

\* A free handle is a handle.
LEMMA FreeIsHandle == Free \in HandleState
  BY DEF Free, NewHandle, HandleState

\* Touching is reflexive.
LEMMA TouchesSelf ==
  ASSUME NEW x \in Situations PROVE Touches(x, x)
  BY DEF Touches

\* Only its own handle is changed by On.
LEMMA OnTouches ==
  ASSUME NEW x \in Situations, x.o.handle # NULL, NEW r \in HandleState,
         r.on = Own(x).on, Own(x).on # NULL
  PROVE  /\ Touches(x, On(x, r))
         /\ Own(On(x, r)) = r /\ On(x, r).o = x.o /\ On(x, r).end = x.end
<1>1. x.o \in Object /\ x.o.handle \in StmtHandle
      BY DEF Situations, Object
<1>2. /\ On(x, r) \in Situations
      /\ On(x, r).o = x.o /\ On(x, r).end = x.end
      /\ On(x, r).d = [x.d EXCEPT ![x.o.handle] = r]
      BY <1>1 DEF On, Situations
<1>3. Own(On(x, r)) = r
      BY <1>1, <1>2 DEF Own, Situations
<1>4. QED
      BY <1>1, <1>2, <1>3 DEF Touches, Situations

\* A call that throws leaves everything as it was.
LEMMA ThrewTouches ==
  ASSUME NEW x \in Situations
  PROVE  Touches(x, Threw(x)) /\ Threw(x).end = "threw" /\ Threw(x).o = x.o
         /\ Threw(x).d = x.d
  BY DEF Touches, Threw, Situations, Own

\* Touching is transitive.
LEMMA TouchesTransitive ==
  ASSUME NEW x, NEW y, NEW z, Touches(x, y), Touches(y, z)
  PROVE  Touches(x, z)
  BY DEF Touches

\* What an idle handle is.
LEMMA IdleHas ==
  ASSUME NEW x, Idle(x)
  PROVE  x.o.handle # NULL /\ Own(x).on # NULL /\ Own(x).busy = "no"
  BY DEF Idle, Known

\* What a method may do next if it has not thrown: it has not ended.
Running == {x \in Situations : x.end = "returned"}

\* A call that throws follows, and leaves what the object believes.
LEMMA ThrewFollows ==
  ASSUME NEW x \in Situations
  PROVE  Follows(x, Threw(x)) /\ (Agrees(x) /\ x.end = "returned" => Agrees(Threw(x)))
  BY ThrewTouches DEF Follows, Synced, Agrees, Own

\* The cancelled call stays in progress, or is done.
LEMMA CancelFollows ==
  ASSUME NEW x \in Running, NEW y \in CancelCall(x)
  PROVE  /\ Touches(x, y) /\ y.o = x.o
         /\ x.o.handle # NULL => (Own(y).busy = "no" <=> Own(x).busy = "no")
         /\ x.o.handle # NULL => Own(y).event = Own(x).event /\ Own(y).mode = Own(x).mode
<1> USE DEF Running
<1>1. CASE y = Threw(x)
      BY <1>1, ThrewTouches DEF Own
<1>2. CASE y = x
      BY <1>2, TouchesSelf
<1>3. CASE /\ Known(x) /\ Own(x).busy = "executing"
           /\ y = On(x, [Own(x) EXCEPT !.busy = "done"])
      <2> DEFINE r == [Own(x) EXCEPT !.busy = "done"]
      <2>1. Own(x) \in HandleState
            BY <1>3 DEF Known, Own, Situations, Object
      <2>2. /\ r \in HandleState /\ r.on = Own(x).on /\ r.busy = "done"
            /\ r.event = Own(x).event /\ r.mode = Own(x).mode
            BY <2>1 DEF HandleState
      <2>3. QED
            BY <1>3, <2>2, OnTouches DEF Known
<1>4. QED
      BY <1>1, <1>2, <1>3 DEF CancelCall, FailsAt

\* A call that sets an attribute of the handle, and then a member of the object.
Setting(x, r, p) == [On(x, r) EXCEPT !.o = p]

\* Such a call follows if handle and object change alike.
LEMMA SettingFollows ==
  ASSUME NEW x \in Running, Idle(x),
         NEW r \in HandleState, r.on = Own(x).on, r.busy = "no",
         NEW p \in Object, p.open = x.o.open, p.handle = x.o.handle, p.conn = x.o.conn,
         (Own(x).mode => x.o.enabled) => (r.mode => p.enabled),
         Own(x).event = x.o.event => r.event = p.event
  PROVE  /\ Follows(x, Setting(x, r, p)) /\ (Agrees(x) => Agrees(Setting(x, r, p)))
         /\ Setting(x, r, p).o = p /\ Setting(x, r, p).end = "returned"
<1> DEFINE y == Setting(x, r, p)
           z == On(x, r)
<1>1. Touches(x, z) /\ Own(z) = r /\ z.o = x.o /\ z.end = "returned"
      BY IdleHas, OnTouches DEF Running
<1>2. z \in Situations
      BY <1>1 DEF Touches
<1>3. /\ y \in Situations /\ y.d = z.d /\ y.end = "returned" /\ y.o = p
      BY <1>1, <1>2 DEF Situations, Setting
<1>4. Own(y) = r
      BY <1>1, <1>3 DEF Own
<1>5. QED
      BY <1>1, <1>3, <1>4, IdleHas DEF Follows, Touches, Synced, Agrees

\* What the handle of a situation can be, once it is known to the manager.
LEMMA IdleHandle ==
  ASSUME NEW x \in Situations, Idle(x)
  PROVE  Own(x) \in HandleState /\ Own(x).busy = "no" /\ x.o \in Object
  BY DEF Idle, Known, Own, Situations, Object

\* disable_async() lowers the flag and the mode together.
LEMMA DisableFollows ==
  ASSUME NEW x \in Running, NEW y \in DisableAsync(x)
  PROVE  Follows(x, y) /\ (Agrees(x) => Agrees(y))
         /\ (y.end = "threw" \/ (y.end = "returned" /\ ~y.o.enabled))
<1> USE DEF Running
<1>1. CASE y = Threw(x)
      BY <1>1, ThrewFollows, ThrewTouches
<1>2. CASE y = x /\ ~x.o.enabled
      BY <1>2, TouchesSelf DEF Follows
<1>3. CASE /\ Idle(x)
           /\ y = [On(x, [Own(x) EXCEPT !.mode = FALSE]) EXCEPT !.o.enabled = FALSE]
      <2> DEFINE r == [Own(x) EXCEPT !.mode = FALSE]
                 p == [x.o EXCEPT !.enabled = FALSE]
      <2>1. /\ r \in HandleState /\ r.on = Own(x).on /\ r.busy = "no"
            /\ r.event = Own(x).event /\ ~r.mode
            BY <1>3, IdleHandle DEF HandleState
      <2>2. /\ p \in Object /\ p.open = x.o.open /\ p.handle = x.o.handle
            /\ p.conn = x.o.conn /\ p.event = x.o.event /\ ~p.enabled
            BY <1>3, IdleHandle DEF Object
      <2>3. y = Setting(x, r, p)
            BY <1>3, <2>1, IdleHas, OnTouches DEF Setting
      <2> HIDE DEF r, p
      <2>4. (Own(x).mode => x.o.enabled) => (r.mode => p.enabled)
            BY <2>1, <2>2
      <2>5. Own(x).event = x.o.event => r.event = p.event
            BY <2>1, <2>2
      <2>6. Idle(x)
            BY <1>3
      <2>7. /\ Follows(x, Setting(x, r, p)) /\ (Agrees(x) => Agrees(Setting(x, r, p)))
            /\ Setting(x, r, p).o = p /\ Setting(x, r, p).end = "returned"
            BY <2>1, <2>2, <2>4, <2>5, <2>6, SettingFollows
      <2>8. QED
            BY <2>2, <2>3, <2>7
<1>4. QED
      BY <1>1, <1>2, <1>3 DEF DisableAsync, Call, FailsAt

\* The first step of enable_async() raises them together.
LEMMA ModeFollows ==
  ASSUME NEW x \in Running, NEW y \in ModeOn(x)
  PROVE  Follows(x, y) /\ (Agrees(x) => Agrees(y)) /\ y.end \in {"threw", "returned"}
<1> USE DEF Running
<1>1. CASE y = Threw(x)
      BY <1>1, ThrewFollows, ThrewTouches
<1>2. CASE y = x
      BY <1>2, TouchesSelf DEF Follows
<1>3. CASE /\ Idle(x)
           /\ y = [On(x, [Own(x) EXCEPT !.mode = TRUE]) EXCEPT !.o.enabled = TRUE]
      <2> DEFINE r == [Own(x) EXCEPT !.mode = TRUE]
                 p == [x.o EXCEPT !.enabled = TRUE]
      <2>1. /\ r \in HandleState /\ r.on = Own(x).on /\ r.busy = "no"
            /\ r.event = Own(x).event
            BY <1>3, IdleHandle DEF HandleState
      <2>2. /\ p \in Object /\ p.open = x.o.open /\ p.handle = x.o.handle
            /\ p.conn = x.o.conn /\ p.event = x.o.event /\ p.enabled
            BY <1>3, IdleHandle DEF Object
      <2>3. y = Setting(x, r, p)
            BY <1>3, <2>1, IdleHas, OnTouches DEF Setting
      <2> HIDE DEF r, p
      <2>4. (Own(x).mode => x.o.enabled) => (r.mode => p.enabled)
            BY <2>1, <2>2
      <2>5. Own(x).event = x.o.event => r.event = p.event
            BY <2>1, <2>2
      <2>6. Idle(x)
            BY <1>3
      <2>7. /\ Follows(x, Setting(x, r, p)) /\ (Agrees(x) => Agrees(Setting(x, r, p)))
            /\ Setting(x, r, p).o = p /\ Setting(x, r, p).end = "returned"
            BY <2>1, <2>2, <2>4, <2>5, <2>6, SettingFollows
      <2>8. QED
            BY <2>2, <2>3, <2>7
<1>4. QED
      BY <1>1, <1>2, <1>3 DEF ModeOn, Call, FailsAt

\* The second step sets the event of handle and object together.
LEMMA EventFollows ==
  ASSUME NEW x \in Running, NEW e \in Event \cup {NULL}, NEW y \in EventSet(x, e)
  PROVE  Follows(x, y) /\ (Agrees(x) => Agrees(y))
         /\ (y.end = "threw" \/ (y.end = "returned" /\ y.o.event = e))
<1> USE DEF Running
<1>1. CASE y = Threw(x)
      BY <1>1, ThrewFollows, ThrewTouches
<1>2. CASE y = x /\ x.o.event = e
      BY <1>2, TouchesSelf DEF Follows
<1>3. CASE /\ Idle(x)
           /\ y = [On(x, [Own(x) EXCEPT !.event = e]) EXCEPT !.o.event = e]
      <2> DEFINE r == [Own(x) EXCEPT !.event = e]
                 p == [x.o EXCEPT !.event = e]
      <2>1. /\ r \in HandleState /\ r.on = Own(x).on /\ r.busy = "no"
            /\ r.event = e /\ r.mode = Own(x).mode
            BY <1>3, IdleHandle DEF HandleState
      <2>2. /\ p \in Object /\ p.open = x.o.open /\ p.handle = x.o.handle
            /\ p.conn = x.o.conn /\ p.event = e /\ p.enabled = x.o.enabled
            BY <1>3, IdleHandle DEF Object
      <2>3. y = Setting(x, r, p)
            BY <1>3, <2>1, IdleHas, OnTouches DEF Setting
      <2> HIDE DEF r, p
      <2>4. (Own(x).mode => x.o.enabled) => (r.mode => p.enabled)
            BY <2>1, <2>2
      <2>5. Own(x).event = x.o.event => r.event = p.event
            BY <2>1, <2>2
      <2>6. Idle(x)
            BY <1>3
      <2>7. /\ Follows(x, Setting(x, r, p)) /\ (Agrees(x) => Agrees(Setting(x, r, p)))
            /\ Setting(x, r, p).o = p /\ Setting(x, r, p).end = "returned"
            BY <2>1, <2>2, <2>4, <2>5, <2>6, SettingFollows
      <2>8. QED
            BY <2>2, <2>3, <2>7
<1>4. QED
      BY <1>1, <1>2, <1>3 DEF EventSet, Call, FailsAt

\* Following is transitive, as long as the first call has not ended the method.
LEMMA FollowsTransitive ==
  ASSUME NEW x, NEW y, NEW z, Follows(x, y), Follows(y, z)
  PROVE  Follows(x, z)
<1>1. Touches(x, z) /\ y.o.handle = x.o.handle
      BY TouchesTransitive DEF Follows, Touches
<1>2. QED
      BY <1>1 DEF Follows

\* After SetMode without an event the handle is not in asynchronous mode; with
\* one, the object remembers that event.
LEMMA SetModeFollows ==
  ASSUME NEW x \in Running, NEW e \in Event \cup {NULL}, NEW y \in SetMode(x, e)
  PROVE  Follows(x, y) /\ (Agrees(x) => Agrees(y))
         /\ \/ y.end = "threw"
            \/ /\ y.end = "returned"
               /\ IF e = NULL THEN ~y.o.enabled ELSE y.o.event = e
<1>1. CASE e = NULL
      BY <1>1, DisableFollows DEF SetMode
<1>2. CASE e # NULL
      <2>1. y \in EnableAsync(x, e)
            BY <1>2 DEF SetMode
      <2>2. \/ y \in ModeOn(x) /\ y.end = "threw"
            \/ \E z \in ModeOn(x) : z.end # "threw" /\ y \in EventSet(z, e)
            BY <2>1 DEF EnableAsync, Then
      <2>3. CASE y \in ModeOn(x) /\ y.end = "threw"
            BY <2>3, ModeFollows
      <2>4. ASSUME NEW z \in ModeOn(x), z.end # "threw", y \in EventSet(z, e)
            PROVE  Follows(x, y) /\ (Agrees(x) => Agrees(y))
                   /\ (y.end = "threw" \/ (y.end = "returned" /\ y.o.event = e))
            <3>1. Follows(x, z) /\ (Agrees(x) => Agrees(z)) /\ z \in Running
                  BY <2>4, ModeFollows DEF Follows, Touches, Running
            <3>2. QED
                  BY <2>4, <3>1, EventFollows, FollowsTransitive
      <2>5. QED
            BY <1>2, <2>2, <2>3, <2>4
<1>3. QED
      BY <1>1, <1>2

-----------------------------------------------------------------------------
(* The calls that may take long, and the methods.                          *)

Ending(x, r, e) == [On(x, r) EXCEPT !.end = e]

\* A call that ends the method with e, and is in progress only if e says so.
LEMMA EndingFollows ==
  ASSUME NEW x \in Running, Idle(x),
         NEW r \in HandleState, r.on = Own(x).on, r.event = Own(x).event,
         r.mode = Own(x).mode,
         NEW e \in {"returned", "no data", "pending"},
         r.busy = IF e = "pending" THEN "executing" ELSE "no"
  PROVE  /\ Follows(x, Ending(x, r, e)) /\ (Agrees(x) => Agrees(Ending(x, r, e)))
         /\ Ending(x, r, e).o = x.o /\ Ending(x, r, e).end = e
<1> DEFINE y == Ending(x, r, e)
           z == On(x, r)
<1>1. Touches(x, z) /\ Own(z) = r /\ z.o = x.o
      BY IdleHas, OnTouches DEF Running
<1>2. z \in Situations
      BY <1>1 DEF Touches
<1>3. /\ y \in Situations /\ y.d = z.d /\ y.end = e /\ y.o = x.o
      BY <1>1, <1>2 DEF Situations, Ending
<1>4. Own(y) = r
      BY <1>1, <1>3 DEF Own
<1>5. QED
      BY <1>1, <1>3, <1>4, IdleHas DEF Follows, Touches, Synced, Agrees

\* What a long call may leave of an idle handle h.
Leaves(h, r) ==
  r \in HandleState /\ r.on = h.on /\ r.busy = "no" /\ r.event = h.event /\ r.mode = h.mode

\* A call is put off only on a handle in asynchronous mode.
LEMMA RunFollows ==
  ASSUME NEW x \in Running, NEW accepted, NEW rs, NEW end \in {"returned", "no data"},
         Idle(x) => \A r \in rs : Leaves(Own(x), r),
         NEW y \in Run(x, accepted, rs, end)
  PROVE  /\ Follows(x, y) /\ (Agrees(x) => Agrees(y)) /\ y.o = x.o
         /\ y.end = "pending" => Own(x).mode
<1> USE DEF Running
<1>1. CASE y = Threw(x)
      BY <1>1, ThrewFollows, ThrewTouches
<1>2. ASSUME Idle(x), NEW r \in rs, y = [On(x, r) EXCEPT !.end = end]
      PROVE  Follows(x, y) /\ (Agrees(x) => Agrees(y)) /\ y.o = x.o /\ y.end = end
      <2>1. y = Ending(x, r, end)
            BY <1>2 DEF Ending
      <2>2. /\ Idle(x) /\ end \in {"returned", "no data", "pending"}
            /\ r \in HandleState /\ r.on = Own(x).on /\ r.event = Own(x).event
            /\ r.mode = Own(x).mode
            /\ r.busy = IF end = "pending" THEN "executing" ELSE "no"
            BY <1>2 DEF Leaves
      <2>3. /\ Follows(x, Ending(x, r, end)) /\ (Agrees(x) => Agrees(Ending(x, r, end)))
            /\ Ending(x, r, end).o = x.o /\ Ending(x, r, end).end = end
            BY <2>2, EndingFollows
      <2>4. QED
            BY <2>1, <2>3
<1>3. ASSUME Idle(x), Own(x).mode, NEW r \in rs,
             y = [On(x, [r EXCEPT !.busy = "executing"]) EXCEPT !.end = "pending"]
      PROVE  Follows(x, y) /\ (Agrees(x) => Agrees(y)) /\ y.o = x.o /\ y.end = "pending"
      <2> DEFINE q == [r EXCEPT !.busy = "executing"]
      <2>1. Leaves(Own(x), r) /\ Idle(x)
            BY <1>3
      <2>2. /\ q \in HandleState /\ q.on = Own(x).on /\ q.event = Own(x).event
            /\ q.mode = Own(x).mode /\ q.busy = "executing"
            BY <2>1 DEF Leaves, HandleState
      <2>3. y = Ending(x, q, "pending")
            BY <1>3 DEF Ending
      <2> HIDE DEF q
      <2>4. /\ Follows(x, Ending(x, q, "pending"))
            /\ Agrees(x) => Agrees(Ending(x, q, "pending"))
            /\ Ending(x, q, "pending").o = x.o /\ Ending(x, q, "pending").end = "pending"
            BY <2>1, <2>2, EndingFollows
      <2>5. QED
            BY <2>3, <2>4
<1>4. \/ y = Threw(x)
      \/ Idle(x) /\ \E r \in rs : y = [On(x, r) EXCEPT !.end = end]
      \/ /\ Idle(x) /\ Own(x).mode
         /\ \E r \in rs :
              y = [On(x, [r EXCEPT !.busy = "executing"]) EXCEPT !.end = "pending"]
      <2> DEFINE S == {[On(x, r) EXCEPT !.end = end] : r \in rs}
                 T == {[On(x, [r EXCEPT !.busy = "executing"]) EXCEPT !.end = "pending"] :
                         r \in rs}
      <2>1. y \in S => \E r \in rs : y = [On(x, r) EXCEPT !.end = end]
            OBVIOUS
      <2>2. y \in T => \E r \in rs :
               y = [On(x, [r EXCEPT !.busy = "executing"]) EXCEPT !.end = "pending"]
            OBVIOUS
      <2>3. y = Threw(x) \/ (Idle(x) /\ y \in S) \/ (Idle(x) /\ Own(x).mode /\ y \in T)
            <3> HIDE DEF S, T
            <3> QED BY DEF Run, FailsAt, S, T
      <2> HIDE DEF S, T
      <2>4. QED
            BY <2>1, <2>2, <2>3
<1>5. y.end = "pending" => y # Threw(x)
      BY ThrewTouches
<1>6. QED
      BY <1>1, <1>2, <1>3, <1>4, <1>5

\* Every long call is one that follows: what they leave prepared and open is
\* all they change.
LEMMA CallsFollow ==
  ASSUME NEW x \in Running, NEW y \in PrepareCall(x) \cup ExecuteCall(x) \cup DirectCall(x)
  PROVE  /\ Follows(x, y) /\ (Agrees(x) => Agrees(y)) /\ y.o = x.o
         /\ y.end = "pending" => Own(x).mode
<1> DEFINE h == Own(x)
           P == {[h EXCEPT !.prepared = TRUE]}
           Q(r) == {r, [r EXCEPT !.cursor = TRUE]}
           D == [h EXCEPT !.prepared = FALSE]
<1>1. ASSUME Idle(x)
      PROVE  /\ \A r \in P \cup Q(h) \cup Q(D) : Leaves(h, r)
      BY <1>1, IdleHandle DEF Leaves, HandleState, Running
<1> HIDE DEF P, Q, D
<1>2. \/ \E a \in {~h.cursor} : y \in Run(x, a, P, "returned")
      \/ \E a \in {h.prepared /\ ~h.cursor} : y \in Run(x, a, Q(h), "returned")
      \/ \E a \in {h.prepared /\ ~h.cursor} : y \in Run(x, a, {h}, "no data")
      \/ \E a \in {~h.cursor} : y \in Run(x, a, Q(D), "returned")
      \/ \E a \in {~h.cursor} : y \in Run(x, a, {D}, "no data")
      BY Zenon DEF PrepareCall, ExecuteCall, DirectCall, Executions, P, Q, D
<1>3. h \in Q(h) /\ D \in Q(D)
      BY DEF Q
<1>4. ASSUME NEW a, NEW rs \in {P, Q(h), {h}, Q(D), {D}},
             NEW e \in {"returned", "no data"}, y \in Run(x, a, rs, e)
      PROVE  /\ Follows(x, y) /\ (Agrees(x) => Agrees(y)) /\ y.o = x.o
             /\ y.end = "pending" => Own(x).mode
      <2>1. Idle(x) => \A r \in rs : Leaves(Own(x), r)
            BY <1>1, <1>3
      <2>2. QED
            BY <1>4, <2>1, RunFollows, ZenonT(40)
<1>5. QED
      BY <1>2, <1>4

\* Setting an attribute that the model does not keep.
LEMMA TimeoutOutcome ==
  ASSUME NEW x, NEW some \in BOOLEAN, NEW y \in Timeout(x, some)
  PROVE  y = x \/ (some /\ y = Threw(x))
  BY DEF Timeout, Call, FailsAt

\* As above, of the number of parameter sets.
LEMMA ParamsetOutcome ==
  ASSUME NEW x, NEW y \in SetParamsetSize(x)
  PROVE  y = x \/ y = Threw(x)
  BY DEF SetParamsetSize, Call, FailsAt

\* Closing the cursor leaves the mode, the event and the call in progress.
LEMMA CursorFollows ==
  ASSUME NEW x \in Running, NEW y \in CloseCursor(x)
  PROVE  Follows(x, y) /\ (Agrees(x) => Agrees(y)) /\ y.end \in {"returned", "threw"}
<1> USE DEF Running
<1>1. CASE y = Threw(x)
      BY <1>1, ThrewFollows, ThrewTouches
<1>2. CASE y = x
      BY <1>2, TouchesSelf DEF Follows
<1>3. CASE Idle(x) /\ y = On(x, [Own(x) EXCEPT !.cursor = FALSE])
      <2> DEFINE r == [Own(x) EXCEPT !.cursor = FALSE]
      <2>1. /\ r \in HandleState /\ r.on = Own(x).on /\ r.busy = "no"
            /\ r.event = Own(x).event /\ r.mode = Own(x).mode
            BY <1>3, IdleHandle DEF HandleState
      <2>2. x.o.handle # NULL /\ Own(x).on # NULL /\ Own(x).busy = "no"
            BY <1>3, IdleHas
      <2>3. y = On(x, r)
            BY <1>3
      <2> HIDE DEF r
      <2>4. Touches(x, y) /\ Own(y) = r /\ y.o = x.o /\ y.end = x.end
            BY <2>1, <2>2, <2>3, OnTouches
      <2>5. QED
            BY <2>1, <2>2, <2>4 DEF Follows, Synced, Agrees
<1>4. QED
      BY <1>1, <1>2, <1>3 DEF CloseCursor, Call, FailsAt

\* What a method that asks for event e comes to: it waits for that event, and
\* only if it is given one.
ComesTo(x, y, e) ==
  /\ Follows(x, y)
  /\ y.end = "pending" => /\ e # NULL => y.o.event = e
                          /\ Agrees(x) => e # NULL

\* A long call once the mode is set, or nothing more.
LEMMA ModeAndCall ==
  ASSUME NEW x \in Running, NEW e \in Event \cup {NULL}, NEW m \in SetMode(x, e),
         NEW y,
         \/ y = m /\ m.end = "threw"
         \/ y = Threw(m)
         \/ m.end # "threw" /\ y \in PrepareCall(m) \cup ExecuteCall(m) \cup DirectCall(m)
  PROVE  ComesTo(x, y, e) /\ (Agrees(x) => Agrees(y))
<1>1. /\ Follows(x, m) /\ (Agrees(x) => Agrees(m))
      /\ m.end = "threw" \/ m.end = "returned"
      /\ m.end # "threw" => IF e = NULL THEN ~m.o.enabled ELSE m.o.event = e
      BY SetModeFollows
<1>2. m \in Situations
      BY <1>1 DEF Follows, Touches
<1>3. CASE y = m /\ m.end = "threw"
      BY <1>1, <1>3 DEF ComesTo
<1>4. CASE y = Threw(m)
      <2>1. y.end = "threw" /\ y.o = m.o /\ y.d = m.d /\ Follows(m, y)
            BY <1>2, <1>4, ThrewFollows, ThrewTouches
      <2>2. Agrees(m) => Agrees(y)
            BY <1>1, <2>1 DEF Agrees, Own
      <2>3. QED
            BY <1>1, <2>1, <2>2, FollowsTransitive DEF ComesTo
<1>5. CASE /\ m.end # "threw"
           /\ y \in PrepareCall(m) \cup ExecuteCall(m) \cup DirectCall(m)
      <2>1. m \in Running
            BY <1>1, <1>2, <1>5 DEF Running
      <2>2. /\ Follows(m, y) /\ (Agrees(m) => Agrees(y)) /\ y.o = m.o
            /\ y.end = "pending" => Own(m).mode
            BY <1>5, <2>1, CallsFollow
      <2>3. ASSUME y.end = "pending", Agrees(x), e = NULL PROVE FALSE
            <3>1. m.o.handle # NULL
                  BY <2>2, <2>3 DEF Follows
            <3>2. Own(m).mode => m.o.enabled
                  BY <1>1, <2>3, <3>1 DEF Agrees
            <3>3. ~m.o.enabled
                  BY <1>1, <1>5, <2>3
            <3>4. QED
                  BY <2>2, <2>3, <3>2, <3>3
      <2>4. y.end = "pending" /\ e # NULL => y.o.event = e
            BY <1>1, <1>5, <2>2
      <2>5. QED
            BY <1>1, <2>2, <2>3, <2>4, FollowsTransitive DEF ComesTo
<1>6. QED
      BY <1>3, <1>4, <1>5

\* prepare(query), whose timeout may fail once the call is in progress.
LEMMA PrepareComes ==
  ASSUME NEW x \in Running, NEW e \in Event \cup {NULL}, NEW some \in BOOLEAN,
         NEW y \in Prepare(x, e, some)
  PROVE  ComesTo(x, y, e) /\ (Agrees(x) /\ (~some \/ e = NULL) => Agrees(y))
<1> DEFINE InTime(z) == Timeout(z, some)
           W == Then(SetMode(x, e), PrepareCall)
<1>1. CASE y = Threw(x)
      BY <1>1, ThrewFollows, ThrewTouches DEF Running, ComesTo
<1>2. CASE y \in Then(W, InTime)
      <2>1. ASSUME NEW w \in W
            PROVE  ComesTo(x, w, e) /\ (Agrees(x) => Agrees(w))
            <3>1. \/ w \in SetMode(x, e) /\ w.end = "threw"
                  \/ \E m \in SetMode(x, e) : m.end # "threw" /\ w \in PrepareCall(m)
                  BY DEF Then
            <3>2. QED
                  BY <3>1, ModeAndCall
      <2>2. PICK w \in W : y = w \/ (some /\ y = Threw(w))
            <3> HIDE DEF W
            <3>1. y \in W \/ \E w \in W : y \in InTime(w)
                  BY <1>2 DEF Then
            <3>2. QED
                  BY <3>1, TimeoutOutcome
      <2>3. CASE y = w
            BY <2>1, <2>3
      <2>4. CASE some /\ y = Threw(w)
            <3>1. ComesTo(x, w, e) /\ (Agrees(x) => Agrees(w)) /\ w \in Situations
                  BY <2>1 DEF ComesTo, Follows, Touches
            <3>2. y.end = "threw" /\ y.o = w.o /\ y.d = w.d /\ Follows(w, y)
                  BY <2>4, <3>1, ThrewFollows, ThrewTouches
            <3>3. Agrees(x) /\ e = NULL => Agrees(y)
                  BY <3>1, <3>2 DEF Agrees, Own, ComesTo
            <3>4. QED
                  BY <2>4, <3>1, <3>2, <3>3, FollowsTransitive DEF ComesTo
      <2>5. QED
            BY <2>2, <2>3, <2>4
<1>3. QED
      BY <1>1, <1>2 DEF Prepare

\* The ways into the long call of execute() and execute_direct().
LEMMA ChainComes ==
  ASSUME NEW x \in Running, NEW e \in Event \cup {NULL}, NEW some \in BOOLEAN,
         NEW m \in SetMode(x, e), m.end # "threw", NEW y,
         NEW p \in SetParamsetSize(m),
         \/ p.end = "threw" /\ y = p
         \/ p.end # "threw" /\ \E t \in Timeout(p, some) :
              \/ t.end = "threw" /\ y = t
              \/ t.end # "threw" /\ y \in ExecuteCall(t) \cup DirectCall(t)
  PROVE  ComesTo(x, y, e) /\ (Agrees(x) => Agrees(y))
<1>1. m \in Situations
      BY SetModeFollows DEF Follows, Touches
<1>2. Threw(m).end = "threw"
      BY <1>1, ThrewTouches
<1>3. p = m \/ p = Threw(m)
      BY ParamsetOutcome
<1>4. CASE y = p /\ p.end = "threw"
      BY <1>3, <1>4, ModeAndCall
<1>5. ASSUME p.end # "threw", NEW t \in Timeout(p, some),
             \/ t.end = "threw" /\ y = t
             \/ t.end # "threw" /\ y \in ExecuteCall(t) \cup DirectCall(t)
      PROVE  ComesTo(x, y, e) /\ (Agrees(x) => Agrees(y))
      <2>1. p = m
            BY <1>2, <1>3, <1>5
      <2>2. t = m \/ t = Threw(m)
            BY <2>1, TimeoutOutcome
      <2>3. y = Threw(m) \/ y \in ExecuteCall(m) \cup DirectCall(m)
            BY <1>2, <1>5, <2>2
      <2>4. QED
            BY <2>3, ModeAndCall
<1>6. QED
      BY <1>4, <1>5

\* execute() and async_execute().
LEMMA ExecuteComes ==
  ASSUME NEW x \in Running, NEW e \in Event \cup {NULL}, NEW some \in BOOLEAN,
         NEW y \in Execute(x, e, some)
  PROVE  ComesTo(x, y, e) /\ (Agrees(x) => Agrees(y))
<1> DEFINE Mode(z) == SetMode(z, e)
           InTime(z) == Timeout(z, some)
           A == Then(CloseCursor(x), Mode)
           B == Then(A, SetParamsetSize)
           C == Then(B, InTime)
<1>1. y \in Then(C, ExecuteCall)
      BY DEF Execute
<1>2. \/ y \in C /\ y.end = "threw"
      \/ \E t \in C : t.end # "threw" /\ y \in ExecuteCall(t)
      <2> HIDE DEF C
      <2> QED BY <1>1 DEF Then
<1>3. \A t \in C : \/ t \in B /\ t.end = "threw"
                   \/ \E p \in B : p.end # "threw" /\ t \in Timeout(p, some)
      <2> HIDE DEF B
      <2> QED BY DEF Then
<1>4. \A p \in B : \/ p \in A /\ p.end = "threw"
                   \/ \E m \in A : m.end # "threw" /\ p \in SetParamsetSize(m)
      <2> HIDE DEF A
      <2> QED BY DEF Then
<1>5. \A m \in A : \/ m \in CloseCursor(x) /\ m.end = "threw"
                   \/ \E z \in CloseCursor(x) : z.end # "threw" /\ m \in SetMode(z, e)
      BY DEF Then
<1> HIDE DEF A, B, C
<1>6. \/ y \in A /\ y.end = "threw"
      \/ \E m \in A : m.end # "threw" /\ \E p \in SetParamsetSize(m) :
           \/ p.end = "threw" /\ y = p
           \/ p.end # "threw" /\ \E t \in Timeout(p, some) :
                \/ t.end = "threw" /\ y = t
                \/ t.end # "threw" /\ y \in ExecuteCall(t) \cup DirectCall(t)
      BY <1>2, <1>3, <1>4
<1>7. CASE y \in CloseCursor(x) /\ y.end = "threw"
      BY <1>7, CursorFollows DEF ComesTo
<1>8. ASSUME NEW z \in CloseCursor(x), z.end # "threw",
             \/ y \in SetMode(z, e) /\ y.end = "threw"
             \/ \E m \in SetMode(z, e) : m.end # "threw" /\ \E p \in SetParamsetSize(m) :
                  \/ p.end = "threw" /\ y = p
                  \/ p.end # "threw" /\ \E t \in Timeout(p, some) :
                       \/ t.end = "threw" /\ y = t
                       \/ t.end # "threw" /\ y \in ExecuteCall(t) \cup DirectCall(t)
      PROVE  ComesTo(x, y, e) /\ (Agrees(x) => Agrees(y))
      <2>1. Follows(x, z) /\ (Agrees(x) => Agrees(z)) /\ z \in Running
            BY <1>8, CursorFollows DEF Follows, Touches, Running
      <2>2. ComesTo(z, y, e) /\ (Agrees(z) => Agrees(y))
            <3>1. CASE y \in SetMode(z, e) /\ y.end = "threw"
                  BY <2>1, <3>1, ModeAndCall
            <3>2. CASE ~(y \in SetMode(z, e) /\ y.end = "threw")
                  BY <1>8, <2>1, <3>2, ChainComes
            <3>3. QED
                  BY <3>1, <3>2
      <2>3. QED
            BY <2>1, <2>2, FollowsTransitive DEF ComesTo
<1>9. QED
      BY <1>5, <1>6, <1>7, <1>8

-----------------------------------------------------------------------------
(* Closing and opening, which change the handle of the object.             *)

\* Whatever the statement refers to, a handle of its own, a stale one or none.
LEMMA CloseTyped ==
  ASSUME NEW x \in Running, NEW y \in Close(x)
  PROVE  y \in Situations /\ y.end \in {"returned", "threw"}
<1> USE DEF Running
<1>1. ASSUME NEW z \in Running, y \in Closed(z)
      PROVE  y \in Situations /\ y.end = "returned"
      <2> DEFINE p == [z.o EXCEPT !.open = FALSE, !.handle = NULL]
      <2>1. p \in Object
            BY DEF Situations, Object
      <2>2. QED
            BY <1>1, <2>1 DEF Closed, Situations
<1>2. ASSUME NEW z \in CancelCall(x)
      PROVE  z \in Situations /\ z.end \in {"returned", "threw"}
      <2>1. z \in Situations
            BY CancelFollows DEF Touches
      <2>2. QED
            BY <2>1 DEF CancelCall, FailsAt, Threw, On, Situations
<1>3. ASSUME NEW z \in Running, NEW w \in FreeCall(z)
      PROVE  w \in Situations /\ w.end \in {"returned", "threw"}
      <2>1. CASE w = Threw(z)
            BY <2>1, ThrewTouches DEF Touches
      <2>2. CASE Idle(z) /\ w = On(z, Free)
            <3>1. z.o.handle \in StmtHandle
                  BY <2>2 DEF Idle, Known, Situations, Object
            <3>2. QED
                  BY <2>2, <3>1, FreeIsHandle DEF On, Situations
      <2>3. QED
            BY <2>1, <2>2 DEF FreeCall, Call, FailsAt
<1> DEFINE W == Then(CancelCall(x), FreeCall)
<1>4. \A w \in W : w \in Situations /\ w.end \in {"returned", "threw"}
      <2>1. \A w \in W : \/ w \in CancelCall(x)
                         \/ \E z \in CancelCall(x) : z.end # "threw" /\ w \in FreeCall(z)
            BY DEF Then
      <2>2. QED
            BY <1>2, <1>3, <2>1
<1> HIDE DEF W
<1>5. \/ y \in Closed(x)
      \/ y \in W
      \/ \E w \in W : w.end # "threw" /\ y \in Closed(w)
      BY DEF Close, Then, W
<1>6. QED
      BY <1>1, <1>4, <1>5

\* As above, of open().
LEMMA OpenTyped ==
  ASSUME NEW x \in Running, NEW c \in Conn, NEW y \in OpenOn(x, c)
  PROVE  y \in Situations /\ y.end \in {"returned", "threw"}
<1> USE DEF Running
<1>1. ASSUME NEW z \in Running, y \in Alloc(z, c)
      PROVE  y \in Situations /\ y.end \in {"returned", "threw"}
      <2>1. CASE y = Threw(z)
            BY <2>1, ThrewTouches DEF Touches
      <2>2. ASSUME NEW k \in StmtHandle,
                   y = [z EXCEPT !.o.open = TRUE, !.o.handle = k, !.o.conn = c,
                                 !.d[k] = NewHandle(c)]
            PROVE  y \in Situations /\ y.end = "returned"
            <3>1. NewHandle(c) \in HandleState
                  BY DEF NewHandle, HandleState
            <3>2. [z.o EXCEPT !.open = TRUE, !.handle = k, !.conn = c] \in Object
                  BY DEF Situations, Object
            <3>3. QED
                  BY <2>2, <3>1, <3>2 DEF Situations
      <2>3. QED
            BY <1>1, <2>1, <2>2 DEF Alloc, FailsAt
<1> DEFINE AllocOn(z) == Alloc(z, c)
<1>2. y = x \/ y \in Then(Close(x), AllocOn)
      BY DEF OpenOn
<1>3. \/ y = x \/ y \in Close(x)
      \/ \E z \in Close(x) : z.end # "threw" /\ y \in Alloc(z, c)
      BY <1>2 DEF Then
<1>4. QED
      BY <1>1, <1>3, CloseTyped

\* Situation x of statement s fits the other statements: a handle in use is its
\* own and on its connection, the others' handles are as they were, and the
\* manager holds nothing else, on a link that stands, but what is in progress.
Fits(s, x) ==
  /\ x \in Situations
  /\ x.o.open \/ x.o.handle = NULL
  /\ InUse(x) =>
       /\ x.o.handle # NULL /\ Own(x).on = x.o.conn
       /\ \A t \in Using \ {s} : obj[t].handle # x.o.handle
  /\ \A t \in Using \ {s} :
       /\ obj[t].handle \in StmtHandle /\ drv[obj[t].handle] # Free
       /\ x.d[obj[t].handle] = drv[obj[t].handle]
  /\ \A k \in StmtHandle :
       x.d[k] # Free =>
         /\ x.d[k].on \in Conn /\ connected[x.d[k].on]
         /\ \/ x.d[k].busy # "no"
            \/ InUse(x) /\ x.o.handle = k
            \/ \E t \in Using \ {s} : obj[t].handle = k

\* What touches the handle in use, or has none, still fits.
LEMMA TouchesFits ==
  ASSUME NEW s \in Stmt, NEW x, Fits(s, x), NEW y, Touches(x, y),
         InUse(x) \/ x.o.handle = NULL
  PROVE  Fits(s, y) /\ (InUse(y) <=> InUse(x))
<1>1. InUse(y) <=> InUse(x)
      BY DEF Touches, InUse
<1>2. x \in Situations /\ y \in Situations /\ x.o.handle \in StmtHandle \cup {NULL}
      BY DEF Fits, Touches, Situations, Object
<1>3. InUse(x) => Own(y).on = x.o.conn /\ x.o.conn \in Conn /\ connected[x.o.conn]
      BY <1>2 DEF Fits, Touches, InUse, Situations, Object
<1>4. \A k \in StmtHandle : k # x.o.handle => y.d[k] = x.d[k]
      BY DEF Touches
<1>5. \A t \in Using \ {s} :
        obj[t].handle \in StmtHandle /\ obj[t].handle # x.o.handle
      BY NullAssumption DEF Fits
<1>6. \A t \in Using \ {s} : y.d[obj[t].handle] = drv[obj[t].handle]
      BY <1>4, <1>5 DEF Fits
<1>7. InUse(y) => /\ y.o.handle # NULL /\ Own(y).on = y.o.conn
                  /\ \A t \in Using \ {s} : obj[t].handle # y.o.handle
      BY <1>1, <1>3, <1>5 DEF Fits, Touches
<1>8. ASSUME NEW k \in StmtHandle, y.d[k] # Free
      PROVE  /\ y.d[k].on \in Conn /\ connected[y.d[k].on]
             /\ \/ y.d[k].busy # "no"
                \/ InUse(y) /\ y.o.handle = k
                \/ \E t \in Using \ {s} : obj[t].handle = k
      <2>1. CASE k = x.o.handle
            BY <1>1, <1>3, <1>8, <2>1, NullAssumption DEF Touches, Own
      <2>2. CASE k # x.o.handle
            BY <1>1, <1>4, <1>8, <2>2 DEF Fits
      <2>3. QED
            BY <2>1, <2>2
<1>9. QED
      BY <1>1, <1>2, <1>5, <1>6, <1>7, <1>8 DEF Fits, Touches

\* close() throws and has touched the handle in use, or the object is closed.
LEMMA CloseFits ==
  ASSUME NEW s \in Stmt, NEW x \in Running, Fits(s, x), NEW y \in Close(x)
  PROVE  /\ Fits(s, y)
         /\ \/ /\ y.end = "threw" /\ InUse(x) /\ InUse(y)
               /\ Touches(x, y) /\ y.o = x.o /\ (Agrees(x) => Agrees(y))
               /\ Own(y).event = Own(x).event /\ Own(y).mode = Own(x).mode
               /\ Own(y).busy = "no" <=> Own(x).busy = "no"
            \/ /\ y.end = "returned" /\ ~InUse(y) /\ ~y.o.open /\ y.o.handle = NULL
               /\ y.o.event = x.o.event
               /\ InUse(x) => Own(x).busy = "no"
<1> USE DEF Running
<1>1. ASSUME NEW z \in Running, y \in Closed(z),
             \A t \in Using \ {s} :
               /\ obj[t].handle \in StmtHandle /\ drv[obj[t].handle] # Free
               /\ z.d[obj[t].handle] = drv[obj[t].handle],
             \A k \in StmtHandle :
               z.d[k] # Free =>
                 /\ z.d[k].on \in Conn /\ connected[z.d[k].on]
                 /\ z.d[k].busy # "no" \/ \E t \in Using \ {s} : obj[t].handle = k
      PROVE  /\ Fits(s, y)
             /\ y.end = "returned" /\ ~InUse(y) /\ ~y.o.open /\ y.o.handle = NULL
             /\ y.o.event = z.o.event
      <2> DEFINE p == [z.o EXCEPT !.open = FALSE, !.handle = NULL]
      <2>1. z.o \in Object
            BY DEF Situations
      <2>2. p \in Object /\ ~p.open /\ p.handle = NULL /\ p.event = z.o.event
            BY <2>1 DEF Object
      <2>3. y.o = p /\ y.d = z.d /\ y.end = "returned" /\ y \in Situations
            BY <1>1, <2>2, ZenonT(40) DEF Closed, Situations
      <2>4. ~InUse(y)
            BY <2>2, <2>3 DEF InUse
      <2>5. Fits(s, y)
            BY <1>1, <2>2, <2>3, <2>4 DEF Fits
      <2>6. QED
            BY <2>2, <2>3, <2>4, <2>5
<1>2. CASE ~InUse(x)
      BY <1>1, <1>2 DEF Close, Fits
<1>3. CASE InUse(x)
      <2>1. x.o.handle # NULL /\ x.o.handle \in StmtHandle /\ Own(x).on # NULL
            BY <1>3, NullAssumption DEF Fits, Situations, Object, InUse
      <2> DEFINE W == Then(CancelCall(x), FreeCall)
      <2>2. \A w \in W : \/ w \in CancelCall(x) /\ w.end = "threw"
                         \/ \E z \in CancelCall(x) : z.end # "threw" /\ w \in FreeCall(z)
            BY DEF Then
      <2> HIDE DEF W
      <2>3. \/ y \in W /\ y.end = "threw"
            \/ \E w \in W : w.end # "threw" /\ y \in Closed(w)
            BY <1>3 DEF Close, Then, W
      <2>4. ASSUME NEW z \in CancelCall(x)
            PROVE  /\ Touches(x, z) /\ z.o = x.o /\ Fits(s, z) /\ InUse(z)
                   /\ z.end \in {"threw", "returned"}
                   /\ Own(z).busy = "no" <=> Own(x).busy = "no"
                   /\ Own(z).event = Own(x).event /\ Own(z).mode = Own(x).mode
            <3>1. Touches(x, z) /\ z.o = x.o
                  BY CancelFollows
            <3>2. z.end \in {"threw", "returned"}
                  BY DEF CancelCall, FailsAt, Threw, On, Situations
            <3>3. QED
                  BY <1>3, <2>1, <3>1, <3>2, CancelFollows, TouchesFits
      <2>5. ASSUME NEW z \in CancelCall(x), y = z \/ y = Threw(z), y.end = "threw"
            PROVE  /\ Fits(s, y) /\ InUse(x) /\ InUse(y)
                   /\ Touches(x, y) /\ y.o = x.o /\ (Agrees(x) => Agrees(y))
                   /\ Own(y).event = Own(x).event /\ Own(y).mode = Own(x).mode
                   /\ Own(y).busy = "no" <=> Own(x).busy = "no"
            <3>1. z \in Situations
                  BY <2>4 DEF Touches
            <3>2. Touches(z, y) /\ y.o = z.o /\ y.d = z.d
                  BY <2>5, <3>1, ThrewTouches, TouchesSelf
            <3>3. Touches(x, y) /\ Fits(s, y) /\ InUse(y)
                  BY <2>4, <3>2, TouchesTransitive, TouchesFits
            <3>4. Agrees(x) => Agrees(y)
                  BY <2>4, <3>2 DEF Agrees, Own
            <3>5. QED
                  BY <1>3, <2>4, <3>2, <3>3, <3>4 DEF Own
      <2>6. ASSUME NEW z \in CancelCall(x), z.end # "threw", Idle(z), y \in Closed(On(z, Free))
            PROVE  /\ Fits(s, y)
                   /\ y.end = "returned" /\ ~InUse(y) /\ ~y.o.open /\ y.o.handle = NULL
                   /\ y.o.event = x.o.event
                   /\ Own(x).busy = "no"
            <3> DEFINE w == On(z, Free)
            <3>1. /\ z \in Situations /\ z.o.handle \in StmtHandle
                  /\ z.o = x.o /\ z.end = "returned"
                  BY <2>1, <2>4, <2>6 DEF Touches
            <3>2. /\ w \in Situations /\ w.o = z.o /\ w.end = "returned"
                  /\ w.d = [z.d EXCEPT ![z.o.handle] = Free]
                  BY <3>1, FreeIsHandle DEF On, Situations
            <3>3. \A k \in StmtHandle :
                    w.d[k] = IF k = z.o.handle THEN Free ELSE z.d[k]
                  BY <3>1, <3>2 DEF Situations
            <3> HIDE DEF w
            <3>4. \A t \in Using \ {s} :
                    /\ obj[t].handle \in StmtHandle /\ drv[obj[t].handle] # Free
                    /\ w.d[obj[t].handle] = drv[obj[t].handle]
                  BY <2>4, <3>3 DEF Fits
            <3>5. \A k \in StmtHandle :
                    w.d[k] # Free =>
                      /\ w.d[k].on \in Conn /\ connected[w.d[k].on]
                      /\ w.d[k].busy # "no" \/ \E t \in Using \ {s} : obj[t].handle = k
                  BY <2>4, <3>3 DEF Fits
            <3>6. y \in Closed(w)
                  BY <2>6 DEF w
            <3>7. Own(x).busy = "no"
                  BY <2>4, <2>6, IdleHas
            <3>8. w \in Running
                  BY <3>1, <3>2
            <3>9. /\ Fits(s, y) /\ y.end = "returned" /\ ~InUse(y)
                  /\ ~y.o.open /\ y.o.handle = NULL /\ y.o.event = w.o.event
                  BY <1>1, <3>4, <3>5, <3>6, <3>8
            <3>10. QED
                  BY <3>1, <3>2, <3>7, <3>9
      <2>7. ASSUME NEW z \in CancelCall(x), z.end # "threw", NEW w \in FreeCall(z)
            PROVE  w = Threw(z) \/ (Idle(z) /\ w = On(z, Free))
            BY DEF FreeCall, Call, FailsAt
      <2>8. ASSUME NEW z \in CancelCall(x) PROVE Threw(z).end = "threw"
            BY <2>4, ThrewTouches DEF Touches
      <2>9. CASE y \in W /\ y.end = "threw"
            <3>1. CASE y \in CancelCall(x)
                  BY <2>5, <2>9, <3>1
            <3>2. ASSUME NEW z \in CancelCall(x), z.end # "threw", y \in FreeCall(z)
                  PROVE  y = Threw(z)
                  <4>1. CASE y = On(z, Free)
                        <5>1. y.end = z.end
                              BY <2>4, <4>1 DEF On, Touches, Situations
                        <5>2. QED
                              BY <2>9, <3>2, <5>1
                  <4>2. QED
                        BY <2>7, <3>2, <4>1
            <3>3. QED
                  BY <2>2, <2>5, <2>9, <3>1, <3>2
      <2>10. ASSUME NEW w \in W, w.end # "threw", y \in Closed(w)
             PROVE  \E z \in CancelCall(x) :
                      z.end # "threw" /\ Idle(z) /\ y \in Closed(On(z, Free))
            <3>1. PICK z \in CancelCall(x) : z.end # "threw" /\ w \in FreeCall(z)
                  BY <2>2, <2>10
            <3>2. Idle(z) /\ w = On(z, Free)
                  BY <2>7, <2>8, <2>10, <3>1
            <3>3. QED
                  BY <2>10, <3>1, <3>2
      <2>11. QED
            BY <2>3, <2>6, <2>9, <2>10, <2>5, <2>2
<1>4. QED
      BY <1>2, <1>3

\* A fresh handle is nobody else's, agrees with the object, and has no event.
LEMMA AllocFits ==
  ASSUME NEW s \in Stmt, NEW x \in Running, Fits(s, x), ~x.o.open, x.o.handle = NULL,
         NEW c \in Conn, NEW y \in Alloc(x, c)
  PROVE  /\ Fits(s, y) /\ Agrees(y) /\ y.o.event = x.o.event
         /\ \/ y.end = "threw" /\ ~InUse(y) /\ y.o.handle = NULL
            \/ /\ y.end = "returned" /\ InUse(y) /\ y.o.conn = c
               /\ connected[c] /\ Own(y).event = NULL
<1> USE DEF Running
<1>1. CASE y = Threw(x)
      <2>1. Touches(x, y) /\ y.o = x.o /\ y.d = x.d /\ y.end = "threw"
            BY <1>1, ThrewTouches
      <2>2. ~InUse(y) /\ Agrees(y)
            BY <2>1 DEF InUse, Agrees
      <2>3. QED
            BY <2>1, <2>2, TouchesFits
<1>2. ASSUME connected[c], NEW k \in StmtHandle, x.d[k] = Free,
             y = [x EXCEPT !.o.open = TRUE, !.o.handle = k, !.o.conn = c,
                           !.d[k] = NewHandle(c)]
      PROVE  /\ Fits(s, y) /\ Agrees(y) /\ y.o.event = x.o.event
             /\ y.end = "returned" /\ InUse(y) /\ y.o.conn = c
             /\ connected[c] /\ Own(y).event = NULL
      <2> DEFINE p == [x.o EXCEPT !.open = TRUE, !.handle = k, !.conn = c]
      <2>1. x.o \in Object /\ x.d \in [StmtHandle -> HandleState]
            BY DEF Situations
      <2>2. /\ p \in Object /\ p.open /\ p.handle = k /\ p.conn = c
            /\ p.event = x.o.event
            BY <2>1 DEF Object
      <2>3. /\ NewHandle(c) \in HandleState /\ NewHandle(c).on = c
            /\ NewHandle(c).event = NULL /\ NewHandle(c).busy = "no" /\ ~NewHandle(c).mode
            BY DEF NewHandle, HandleState
      <2>4. /\ y \in Situations /\ y.end = "returned" /\ y.o = p
            /\ y.d = [x.d EXCEPT ![k] = NewHandle(c)]
            BY <1>2, <2>1, <2>2, <2>3 DEF Situations
      <2>5. Own(y) = NewHandle(c) /\ \A h \in StmtHandle : h # k => y.d[h] = x.d[h]
            BY <2>1, <2>2, <2>4 DEF Own
      <2>6. c # NULL /\ k # NULL
            BY NullAssumption
      <2>7. InUse(y) /\ y.o.conn = c /\ y.o.handle = k /\ y.o.event = x.o.event
            BY <1>2, <2>2, <2>4, <2>6 DEF InUse
      <2>8. Agrees(y)
            BY <2>3, <2>5 DEF Agrees
      <2>9. ASSUME NEW t \in Using \ {s}
            PROVE  obj[t].handle \in StmtHandle /\ obj[t].handle # k
            BY <1>2 DEF Fits
      <2>10. Fits(s, y)
            <3>1. \A t \in Using \ {s} :
                    /\ obj[t].handle \in StmtHandle /\ drv[obj[t].handle] # Free
                    /\ y.d[obj[t].handle] = drv[obj[t].handle]
                  BY <2>5, <2>9 DEF Fits
            <3>2. ASSUME NEW h \in StmtHandle, y.d[h] # Free
                  PROVE  /\ y.d[h].on \in Conn /\ connected[y.d[h].on]
                         /\ \/ y.d[h].busy # "no"
                            \/ InUse(y) /\ y.o.handle = h
                            \/ \E t \in Using \ {s} : obj[t].handle = h
                  <4>1. CASE h = k
                        BY <1>2, <2>3, <2>5, <2>7, <4>1 DEF Own
                  <4>2. CASE h # k
                        <5>1. y.d[h] = x.d[h]
                              BY <2>5, <4>2
                        <5>2. ~InUse(x)
                              BY DEF InUse
                        <5>3. QED
                              BY <3>2, <5>1, <5>2 DEF Fits
                  <4>3. QED
                        BY <4>1, <4>2
            <3>3. QED
                  BY <2>2, <2>3, <2>4, <2>5, <2>6, <2>7, <2>9, <3>1, <3>2 DEF Fits
      <2>11. QED
            BY <1>2, <2>3, <2>4, <2>5, <2>7, <2>8, <2>10
<1>3. QED
      BY <1>1, <1>2 DEF Alloc, FailsAt

\* The event an object remembers is that of its handle, or that of none it may
\* be given on connection c.
ReadyToSync(x, c) ==
  IF InUse(x) THEN Synced(x) /\ x.o.conn = c ELSE x.o.event = NULL \/ ~connected[c]

\* open() leaves the object on a handle that is its own, or on none.
LEMMA OpenFits ==
  ASSUME NEW s \in Stmt, NEW x \in Running, Fits(s, x), NEW c \in Conn,
         NEW y \in OpenOn(x, c)
  PROVE  /\ Fits(s, y) /\ y.end \in {"returned", "threw"}
         /\ InUse(y) \/ y.o.handle = NULL
         /\ y.end = "returned" => InUse(y) /\ y.o.conn = c
         /\ (InUse(x) => Agrees(x)) => Agrees(y)
         /\ ReadyToSync(x, c) =>
              Synced(y) /\ (~InUse(y) => ~InUse(x) /\ y.o.event = x.o.event)
<1>1. CASE InUse(x) /\ x.o.conn = c
      <2>1. y = x
            BY <1>1 DEF OpenOn
      <2>2. QED
            BY <1>1, <2>1 DEF Running, ReadyToSync
<1>2. CASE ~(InUse(x) /\ x.o.conn = c)
      <2> DEFINE AllocOn(z) == Alloc(z, c)
      <2>1. y \in Then(Close(x), AllocOn)
            BY <1>2 DEF OpenOn
      <2>2. \/ y \in Close(x) /\ y.end = "threw"
            \/ \E z \in Close(x) : z.end # "threw" /\ y \in Alloc(z, c)
            BY <2>1 DEF Then
      <2>3. CASE y \in Close(x) /\ y.end = "threw"
            <3>1. /\ Fits(s, y) /\ InUse(x) /\ InUse(y) /\ (Agrees(x) => Agrees(y))
                  BY <2>3, CloseFits
            <3>2. QED
                  BY <1>2, <2>3, <3>1 DEF ReadyToSync
      <2>4. ASSUME NEW z \in Close(x), z.end # "threw", y \in Alloc(z, c)
            PROVE  /\ Fits(s, y) /\ y.end \in {"returned", "threw"}
                   /\ InUse(y) \/ y.o.handle = NULL
                   /\ y.end = "returned" => InUse(y) /\ y.o.conn = c
                   /\ Agrees(y)
                   /\ ReadyToSync(x, c) =>
                        Synced(y) /\ (~InUse(y) => ~InUse(x) /\ y.o.event = x.o.event)
            <3>1. /\ Fits(s, z) /\ z.end = "returned" /\ ~z.o.open /\ z.o.handle = NULL
                  /\ z.o.event = x.o.event
                  BY <2>4, CloseFits
            <3>2. z \in Running
                  BY <3>1 DEF Fits, Running
            <3>3. /\ Fits(s, y) /\ Agrees(y) /\ y.o.event = x.o.event
                  /\ \/ y.end = "threw" /\ ~InUse(y) /\ y.o.handle = NULL
                     \/ /\ y.end = "returned" /\ InUse(y) /\ y.o.conn = c
                        /\ connected[c] /\ Own(y).event = NULL
                  BY <2>4, <3>1, <3>2, AllocFits
            <3>4. QED
                  BY <1>2, <3>3 DEF ReadyToSync, Synced
      <2>5. QED
            BY <2>2, <2>3, <2>4
<1>3. QED
      BY <1>1, <1>2

\* The outcome of a method of statement s that asks for event e.
Sound(s, y, e) ==
  /\ Fits(s, y)
  /\ y.end = "pending" =>
       /\ InUse(y) /\ Own(y).busy = "executing"
       /\ e # NULL => y.o.event = e

\* A chain of calls on the handle in use, or on none, has a sound outcome.
LEMMA ComesSound ==
  ASSUME NEW s \in Stmt, NEW x \in Situations, Fits(s, x), InUse(x) \/ x.o.handle = NULL,
         NEW e, NEW y, ComesTo(x, y, e)
  PROVE  /\ Sound(s, y, e) /\ (InUse(y) <=> InUse(x)) /\ (Synced(x) => Synced(y))
         /\ ~InUse(x) => y.o.event = x.o.event
<1>1. Touches(x, y)
      BY DEF ComesTo, Follows
<1>2. Fits(s, y) /\ (InUse(y) <=> InUse(x))
      BY <1>1, TouchesFits
<1>3. y.end = "pending" => InUse(x)
      BY <1>1 DEF ComesTo, Follows, Touches
<1>4. y.o.handle = x.o.handle
      BY <1>1 DEF Touches
<1>5. (Synced(x) => Synced(y)) /\ (x.o.handle = NULL => y.o.event = x.o.event)
      BY <1>4 DEF ComesTo, Follows, Synced
<1>6. QED
      BY <1>2, <1>3, <1>5 DEF ComesTo, Sound, Follows

\* What prepare(conn, query) and execute_direct() come to: open() throws, or
\* calls follow on what it opened.
LEMMA OpenAndCallComes ==
  ASSUME NEW x \in Running, NEW c \in Conn, NEW e \in Event \cup {NULL},
         NEW some \in BOOLEAN, NEW y,
         \/ e = NULL /\ y \in PrepareOn(x, c, some)
         \/ y \in ExecuteDirect(x, c, e, some)
  PROVE  \/ y \in OpenOn(x, c) /\ y.end = "threw"
         \/ \E z \in OpenOn(x, c) :
              z \in Running /\ ComesTo(z, y, e) /\ (Agrees(z) => Agrees(y))
<1> DEFINE Sync(z) == Prepare(z, NULL, some)
           Mode(z) == SetMode(z, e)
           InTime(z) == Timeout(z, some)
           A == Then(OpenOn(x, c), Mode)
           B == Then(A, SetParamsetSize)
           C == Then(B, InTime)
           Chained(z) ==
             \/ y \in SetMode(z, e) /\ y.end = "threw"
             \/ \E m \in SetMode(z, e) : m.end # "threw" /\ \E p \in SetParamsetSize(m) :
                  \/ p.end = "threw" /\ y = p
                  \/ p.end # "threw" /\ \E t \in Timeout(p, some) :
                       \/ t.end = "threw" /\ y = t
                       \/ t.end # "threw" /\ y \in ExecuteCall(t) \cup DirectCall(t)
<1>1. \/ y \in OpenOn(x, c) /\ y.end = "threw"
      \/ \E z \in OpenOn(x, c) : z.end # "threw" /\ e = NULL /\ y \in Prepare(z, e, some)
      \/ \E z \in OpenOn(x, c) : z.end # "threw" /\ Chained(z)
      <2>1. CASE e = NULL /\ y \in PrepareOn(x, c, some)
            <3>1. y \in Then(OpenOn(x, c), Sync)
                  BY <2>1 DEF PrepareOn
            <3>2. QED
                  BY <2>1, <3>1 DEF Then
      <2>2. CASE y \in ExecuteDirect(x, c, e, some)
            <3>1. y \in Then(C, DirectCall)
                  BY <2>2 DEF ExecuteDirect
            <3>2. \/ y \in C /\ y.end = "threw"
                  \/ \E t \in C : t.end # "threw" /\ y \in DirectCall(t)
                  <4> HIDE DEF C
                  <4> QED BY <3>1 DEF Then
            <3>3. \A t \in C : \/ t \in B /\ t.end = "threw"
                               \/ \E p \in B : p.end # "threw" /\ t \in Timeout(p, some)
                  <4> HIDE DEF B
                  <4> QED BY DEF Then
            <3>4. \A p \in B : \/ p \in A /\ p.end = "threw"
                               \/ \E m \in A : m.end # "threw" /\ p \in SetParamsetSize(m)
                  <4> HIDE DEF A
                  <4> QED BY DEF Then
            <3>5. \A m \in A : \/ m \in OpenOn(x, c) /\ m.end = "threw"
                               \/ \E z \in OpenOn(x, c) : z.end # "threw" /\ m \in SetMode(z, e)
                  BY DEF Then
            <3> HIDE DEF A, B, C
            <3>6. QED
                  BY <3>2, <3>3, <3>4, <3>5
      <2>3. QED
            BY <2>1, <2>2
<1> HIDE DEF Chained
<1>2. ASSUME NEW z \in OpenOn(x, c), z.end # "threw",
             (e = NULL /\ y \in Prepare(z, e, some)) \/ Chained(z)
      PROVE  z \in Running /\ ComesTo(z, y, e) /\ (Agrees(z) => Agrees(y))
      <2>1. z \in Running
            BY <1>2, OpenTyped DEF Running
      <2>2. CASE e = NULL /\ y \in Prepare(z, e, some)
            BY <2>1, <2>2, PrepareComes
      <2>3. CASE y \in SetMode(z, e) /\ y.end = "threw"
            BY <2>1, <2>3, ModeAndCall
      <2>4. CASE Chained(z) /\ ~(y \in SetMode(z, e) /\ y.end = "threw")
            BY <2>1, <2>4, ChainComes DEF Chained
      <2>5. QED
            BY <1>2, <2>1, <2>2, <2>3, <2>4
<1>3. QED
      BY <1>1, <1>2

\* The outcome is sound, and the object agrees with its handle if it did.
LEMMA OpenAndCallSound ==
  ASSUME NEW s \in Stmt, NEW x \in Running, Fits(s, x), NEW c \in Conn,
         NEW e \in Event \cup {NULL}, NEW some \in BOOLEAN, NEW y,
         \/ e = NULL /\ y \in PrepareOn(x, c, some)
         \/ y \in ExecuteDirect(x, c, e, some)
  PROVE  /\ Sound(s, y, e) /\ (InUse(y) \/ y.o.handle = NULL)
         /\ (InUse(x) => Agrees(x)) =>
              Agrees(y) /\ (y.end = "pending" => e # NULL)
         /\ ReadyToSync(x, c) =>
              Synced(y) /\ (~InUse(y) => ~InUse(x) /\ y.o.event = x.o.event)
<1>1. CASE y \in OpenOn(x, c) /\ y.end = "threw"
      BY <1>1, OpenFits DEF Sound
<1>2. ASSUME NEW z \in OpenOn(x, c), z \in Running, ComesTo(z, y, e),
             Agrees(z) => Agrees(y)
      PROVE  /\ Sound(s, y, e) /\ (InUse(y) \/ y.o.handle = NULL)
             /\ (InUse(x) => Agrees(x)) =>
                  Agrees(y) /\ (y.end = "pending" => e # NULL)
             /\ ReadyToSync(x, c) =>
                  Synced(y) /\ (~InUse(y) => ~InUse(x) /\ y.o.event = x.o.event)
      <2>1. /\ Fits(s, z) /\ InUse(z)
            /\ (InUse(x) => Agrees(x)) => Agrees(z)
            /\ ReadyToSync(x, c) => Synced(z)
            BY <1>2, OpenFits DEF Running
      <2>2. Sound(s, y, e) /\ InUse(y) /\ (Synced(z) => Synced(y))
            BY <1>2, <2>1, ComesSound DEF Running
      <2>3. Agrees(z) => (y.end = "pending" => e # NULL)
            BY <1>2 DEF ComesTo
      <2>4. QED
            BY <1>2, <2>1, <2>2, <2>3
<1>3. QED
      BY <1>1, <1>2, OpenAndCallComes

-----------------------------------------------------------------------------
(* Types, which depend on no discipline of the program.                    *)

\* A step of statement s that leaves values of the right types.
Typed(s) ==
  /\ \E o \in Object : obj' = [obj EXCEPT ![s] = o]
  /\ drv' \in [StmtHandle -> HandleState]
  /\ \E v \in {"unborn", "returned", "threw", "gone"} \cup Event :
       told' = [told EXCEPT ![s] = v]
  /\ UNCHANGED connVars

\* The situations that the steps start from.
LEMMA TypedSituation ==
  ASSUME TypeOK, NEW s \in Stmt
  PROVE  /\ Situation(s) \in Running /\ NewSituation \in Running
         /\ Situation(s).o = obj[s] /\ Situation(s).d = drv /\ obj[s] \in Object
         /\ drv \in [StmtHandle -> HandleState]
         /\ told[s] \in {"unborn", "returned", "threw", "gone"} \cup Event
  BY DEF TypeOK, Situation, NewSituation, NewObject, Running, Situations, Object, HandleState

\* A method whose outcomes are situations, async_helper() included.
LEMMA DoesTyped ==
  ASSUME NEW s, NEW op, NEW e \in Event \cup {NULL}, NEW xs, xs \subseteq Situations,
         Does(s, op, e, Started(xs, e))
  PROVE  Typed(s)
<1>1. ASSUME NEW x \in xs, NEW y \in AsyncHelper(x) PROVE y \in Situations
      <2>1. CASE y = Threw(x)
            BY <2>1, ThrewTouches DEF Touches
      <2>2. ASSUME NEW b \in BOOLEAN, y = [x EXCEPT !.o.async = b] PROVE y \in Situations
            <3>1. [x.o EXCEPT !.async = b] \in Object
                  BY DEF Situations, Object
            <3>2. QED
                  BY <2>2, <3>1 DEF Situations
      <2>3. QED
            BY <2>1, <2>2 DEF AsyncHelper
<1>2. PICK y \in Started(xs, e) :
        /\ obj' = [obj EXCEPT ![s] = y.o] /\ drv' = y.d
        /\ told' = [told EXCEPT ![s] =
                      IF y.end = "threw" THEN "threw" ELSE
                      IF y.end = "pending" /\ e # NULL THEN e ELSE "returned"]
        /\ UNCHANGED connVars
      BY DEF Does
<1>3. y \in xs \/ \E x \in xs : y \in AsyncHelper(x)
      BY DEF Started, Then
<1>4. y \in Situations
      BY <1>1, <1>3
<1> DEFINE v == IF y.end = "threw" THEN "threw" ELSE
                IF y.end = "pending" /\ e # NULL THEN e ELSE "returned"
<1>5. v \in {"unborn", "returned", "threw", "gone"} \cup Event
      OBVIOUS
<1>6. told' = [told EXCEPT ![s] = v]
      BY <1>2
<1> HIDE DEF v
<1>7. QED
      BY <1>2, <1>4, <1>5, <1>6 DEF Typed, Situations

\* The methods that call the driver to open, prepare or execute.
LEMMA CallsTyped ==
  ASSUME TypeOK, NEW s \in Stmt,
         \/ OpenStatement(s) \/ PrepareStatementOn(s) \/ ExecuteStatementDirect(s)
         \/ PrepareStatement(s) \/ ExecuteStatement(s)
  PROVE  Typed(s)
<1> DEFINE x == Situation(s)
<1>1. x \in Running
      BY TypedSituation
<1> HIDE DEF x
<1>2. ASSUME NEW e, NEW y, ComesTo(x, y, e) PROVE y \in Situations
      BY <1>2 DEF ComesTo, Follows, Touches
<1>3. ASSUME NEW c \in Conn, NEW e \in Event \cup {NULL}, NEW some \in BOOLEAN, NEW y,
             (e = NULL /\ y \in PrepareOn(x, c, some)) \/ y \in ExecuteDirect(x, c, e, some)
      PROVE  y \in Situations
      <2>1. CASE y \in OpenOn(x, c)
            BY <1>1, <2>1, OpenTyped
      <2>2. ASSUME NEW z, ComesTo(z, y, e) PROVE y \in Situations
            BY <2>2 DEF ComesTo, Follows, Touches
      <2>3. QED
            BY <1>1, <1>3, <2>1, <2>2, OpenAndCallComes
<1>4. CASE OpenStatement(s)
      <2>1. PICK c \in Conn : Does(s, "open", NULL, Started(OpenOn(x, c), NULL))
            BY <1>4 DEF OpenStatement, Started, x
      <2>2. OpenOn(x, c) \subseteq Situations
            BY <1>1, OpenTyped
      <2>3. QED
            BY <2>1, <2>2, DoesTyped
<1>5. CASE PrepareStatementOn(s)
      <2>1. PICK c \in Conn, some \in BOOLEAN :
              Does(s, "prepare on", NULL, Started(PrepareOn(x, c, some), NULL))
            BY <1>5 DEF PrepareStatementOn, Started, x
      <2>2. PrepareOn(x, c, some) \subseteq Situations
            BY <1>3
      <2>3. QED
            BY <2>1, <2>2, DoesTyped
<1>6. CASE ExecuteStatementDirect(s)
      <2>1. PICK c \in Conn, e \in Event \cup {NULL}, some \in BOOLEAN :
              Does(s, "direct", e, Started(ExecuteDirect(x, c, e, some), e))
            BY <1>6 DEF ExecuteStatementDirect, x
      <2>2. ExecuteDirect(x, c, e, some) \subseteq Situations
            BY <1>3
      <2>3. QED
            BY <2>1, <2>2, DoesTyped
<1>7. CASE PrepareStatement(s)
      <2>1. PICK e \in Event \cup {NULL}, some \in PrepareTimeouts :
              Does(s, "prepare", e, Started(Prepare(x, e, some), e))
            BY <1>7 DEF PrepareStatement, x
      <2>2. some \in BOOLEAN
            BY TimeoutAssumption
      <2>3. Prepare(x, e, some) \subseteq Situations
            BY <1>1, <1>2, <2>2, PrepareComes
      <2>4. QED
            BY <2>1, <2>3, DoesTyped
<1>8. CASE ExecuteStatement(s)
      <2>1. PICK e \in Event \cup {NULL}, some \in BOOLEAN :
              Does(s, "execute", e, Started(Execute(x, e, some), e))
            BY <1>8 DEF ExecuteStatement, x
      <2>2. Execute(x, e, some) \subseteq Situations
            BY <1>1, <1>2, ExecuteComes
      <2>3. QED
            BY <2>1, <2>2, DoesTyped
<1>9. QED
      BY <1>4, <1>5, <1>6, <1>7, <1>8

\* The constructors, close(), cancel(), completing and the destructor.
LEMMA OtherMethodsTyped ==
  ASSUME TypeOK, NEW s \in Stmt,
         Construct(s) \/ CloseStatement(s) \/ CancelStatement(s) \/ Complete(s) \/ Destroy(s)
  PROVE  Typed(s)
<1> DEFINE x == Situation(s)
<1>1. /\ x \in Running /\ NewSituation \in Running /\ x.o = obj[s] /\ x.d = drv
      /\ obj[s] \in Object /\ drv \in [StmtHandle -> HandleState]
      /\ told[s] \in {"unborn", "returned", "threw", "gone"} \cup Event
      BY TypedSituation
<1>2. ASSUME NEW z \in CancelCall(x)
      PROVE  z \in Situations /\ z.d \in [StmtHandle -> HandleState]
      BY <1>1, CancelFollows DEF Touches, Situations
<1>3. CASE Construct(s)
      <2> DEFINE Built(c, some) == OpenWith(NewSituation, c, some)
                                     \cup PrepareOn(NewSituation, c, some)
      <2>1. PICK c \in Conn, some \in BOOLEAN : \E y \in Built(c, some) :
              /\ obj' = [obj EXCEPT ![s] = y.o] /\ drv' = y.d
              /\ told' = [told EXCEPT ![s] = IF y.end = "threw" THEN "gone" ELSE "returned"]
              /\ UNCHANGED connVars
            BY <1>3 DEF Construct
      <2>2. ASSUME NEW y \in Built(c, some) PROVE y \in Situations
            <3>1. CASE y \in PrepareOn(NewSituation, c, some)
                  <4>1. \/ y \in OpenOn(NewSituation, c)
                        \/ \E z : ComesTo(z, y, NULL)
                        BY <1>1, <3>1, OpenAndCallComes
                  <4>2. QED
                        BY <1>1, <4>1, OpenTyped DEF ComesTo, Follows, Touches
            <3>2. CASE y \in OpenWith(NewSituation, c, some)
                  <4> DEFINE Attributes(z) == IF some THEN Call(z, "setAttr", z) ELSE {z}
                  <4>1. y \in Then(OpenOn(NewSituation, c), Attributes)
                        BY <3>2 DEF OpenWith
                  <4>2. PICK z \in OpenOn(NewSituation, c) : y = z \/ y = Threw(z)
                        BY <4>1 DEF Then, Call, FailsAt
                  <4>3. z \in Situations
                        BY <1>1, OpenTyped
                  <4>4. QED
                        BY <4>2, <4>3, ThrewTouches DEF Touches
            <3>3. QED
                  BY <2>2, <3>1, <3>2
      <2>3. QED
            BY <2>1, <2>2 DEF Typed, Situations
<1>4. CASE CloseStatement(s)
      <2>1. PICK y \in Close(x) :
              /\ obj' = [obj EXCEPT ![s] = y.o] /\ drv' = y.d
              /\ told' = [told EXCEPT ![s] = IF y.end = "threw" THEN told[s] ELSE "returned"]
              /\ UNCHANGED connVars
            BY <1>4 DEF CloseStatement
      <2>2. y \in Situations
            BY <1>1, CloseTyped
      <2>3. (IF y.end = "threw" THEN told[s] ELSE "returned")
              \in {"unborn", "returned", "threw", "gone"} \cup Event
            BY <1>1
      <2>4. QED
            BY <2>1, <2>2, <2>3 DEF Typed, Situations
<1>5. CASE CancelStatement(s)
      <2>1. drv' \in [StmtHandle -> HandleState] /\ UNCHANGED <<connVars, obj, told>>
            BY <1>2, <1>5 DEF CancelStatement
      <2>2. obj' = [obj EXCEPT ![s] = obj[s]] /\ told' = [told EXCEPT ![s] = told[s]]
            BY <2>1 DEF TypeOK
      <2>3. QED
            BY <1>1, <2>1, <2>2 DEF Typed
<1>6. CASE Complete(s)
      <2> DEFINE r == [Own(x) EXCEPT !.busy = "no"]
      <2>1. Known(x)
            BY <1>6 DEF Complete, Signalled
      <2>2. PICK y \in CompleteCall(x) :
              /\ obj' = [obj EXCEPT ![s] = y.o] /\ drv' = y.d
              /\ told' = [told EXCEPT ![s] = IF y.end = "threw" THEN "threw" ELSE "returned"]
              /\ UNCHANGED connVars
            BY <1>6 DEF Complete, Does
      <2>3. x.o.handle # NULL /\ Own(x).on # NULL
            BY <2>1 DEF Known
      <2>4. x.o.handle \in StmtHandle
            BY <1>1, <2>3 DEF Object
      <2>5. r \in HandleState /\ r.on = Own(x).on
            BY <1>1, <2>4 DEF Own, HandleState
      <2>6. y = x \/ y = On(x, r) \/ y = Threw(On(x, r))
            BY <2>2 DEF CompleteCall
      <2> HIDE DEF r, x
      <2>7. On(x, r) \in Situations
            BY <1>1, <2>3, <2>5, OnTouches DEF Touches, Running
      <2>8. y \in Situations
            BY <1>1, <2>6, <2>7, ThrewTouches DEF Touches, Running
      <2>9. QED
            BY <2>2, <2>8 DEF Typed, Situations
<1>7. CASE Destroy(s)
      <2>1. /\ obj' = [obj EXCEPT ![s] = NewObject] /\ told' = [told EXCEPT ![s] = "gone"]
            /\ UNCHANGED connVars
            BY <1>7 DEF Destroy, Ends
      <2>2. \/ drv' = drv
            \/ \E y \in CancelCall(x) : \E z \in FreeCall(y) : drv' = z.d
            BY <1>1, <1>7 DEF Destroy, Ends
      <2>3. ASSUME NEW y \in CancelCall(x), NEW z \in FreeCall(y)
            PROVE  z.d \in [StmtHandle -> HandleState]
            <3> HIDE DEF x
            <3>1. CASE z = Threw(y)
                  BY <1>2, <3>1, ThrewTouches
            <3>2. CASE Idle(y) /\ z = On(y, Free)
                  <4>1. y.o.handle \in StmtHandle
                        BY <1>2, <3>2 DEF Idle, Known, Situations, Object
                  <4>2. QED
                        BY <1>2, <3>2, <4>1, FreeIsHandle DEF On, Situations
            <3>3. QED
                  BY <3>1, <3>2 DEF FreeCall, Call, FailsAt
      <2>4. NewObject \in Object
            BY DEF NewObject, Object
      <2>5. QED
            BY <1>1, <2>1, <2>2, <2>3, <2>4 DEF Typed
<1>8. QED
      BY <1>3, <1>4, <1>5, <1>6, <1>7

\* The initial state has the right types.
LEMMA TypeOKInit == Init => TypeOK
  BY BoundAssumption DEF Init, TypeOK, NewObject, Free, NewHandle

\* Every step keeps the types.
LEMMA TypeOKStep ==
  ASSUME TypeOK, [Next]_vars PROVE TypeOK'
<1>1. ASSUME NEW s \in Stmt, Typed(s) PROVE TypeOK'
      BY <1>1 DEF Typed, TypeOK, connVars, Object, HandleState
<1>2. ASSUME NEW c \in Conn, Connect(c) \/ Disconnect(c) PROVE TypeOK'
      <2>1. /\ drv' = Dropped(c) /\ UNCHANGED <<obj, told>>
            /\ connected' \in [Conn -> BOOLEAN]
            BY <1>2 DEF Connect, Disconnect, TypeOK
      <2>2. drv' \in [StmtHandle -> HandleState]
            <3>1. drv \in [StmtHandle -> HandleState]
                  BY DEF TypeOK, HandleState
            <3>2. QED
                  BY <2>1, <3>1, FreeIsHandle DEF Dropped
      <2>3. links' \in [Conn -> 0..MaxLinks]
            <3>1. \/ links' = links
                  \/ links[c] < MaxLinks /\ links' = [links EXCEPT ![c] = @ + 1]
                  BY <1>2 DEF Disconnect, Connect
            <3>2. links \in [Conn -> 0..MaxLinks]
                  BY DEF TypeOK
            <3>3. links[c] < MaxLinks => links[c] + 1 \in 0..MaxLinks
                  BY <3>2, BoundAssumption
            <3>4. QED
                  BY <3>1, <3>2, <3>3
      <2>4. QED
            BY <2>1, <2>2, <2>3 DEF TypeOK, HandleState
<1>3. ASSUME NEW k \in StmtHandle, DriverFinishes(k) PROVE TypeOK'
      BY <1>3 DEF DriverFinishes, TypeOK, connVars
<1>4. CASE UNCHANGED vars
      BY <1>4 DEF vars, connVars, TypeOK
<1>5. QED
      BY <1>1, <1>2, <1>3, <1>4, CallsTyped, OtherMethodsTyped DEF Next

\* The objects and the handles keep their shapes, whatever the program uses,
\* stale statements included, and whichever call fails.
THEOREM TypesHold == Spec => []TypeOK
  BY TypeOKInit, TypeOKStep, PTL DEF Spec

-----------------------------------------------------------------------------
(* The invariants.                                                         *)

\* HandlesOwned is not inductive alone: it needs that a handle that is not free
\* is on a link that stands, that an object that is not open has no handle, and
\* that the call a caller waits for is in progress on a handle in use, which
\* keeps the link from being dropped and the handle from being freed.
HandleInv ==
  /\ TypeOK
  /\ HandlesOwned
  /\ \A s \in Stmt : obj[s].open \/ obj[s].handle = NULL
  /\ \A s \in Stmt : told[s] = "unborn" => ~obj[s].open
  /\ \A k \in StmtHandle : drv[k] # Free => drv[k].on \in Conn /\ connected[drv[k].on]
  /\ \A s \in Stmt : told[s] \in Event => s \in Using /\ drv[obj[s].handle].busy # "no"

\* Statement s, told v, is in situation y: what its caller may rely on.
Answered(y, v) ==
  InUse(y) =>
    /\ Own(y).mode => y.o.enabled
    /\ v \in Event => y.o.async
    /\ v \notin Event => Own(y).busy = "no"

AnswerInv == \A s \in Stmt : Answered(Situation(s), told[s])

\* No connection will stand again.
AllLost == \A c \in Conn : ~connected[c] /\ links[c] = MaxLinks

Awaits(y, v) ==
  /\ InUse(y) => Synced(y)
  /\ ~InUse(y) => y.o.event = NULL \/ AllLost
  /\ v \in Event => y.o.event = v

EventInv ==
  /\ \A s \in Stmt : Awaits(Situation(s), told[s])
  /\ \A c \in Conn : connected[c] => links[c] = MaxLinks

\* A step of statement s that leaves it in situation y, and tells v.
Outcome(s, y, v) ==
  /\ obj' = [obj EXCEPT ![s] = y.o]
  /\ drv' = y.d
  /\ told' = [told EXCEPT ![s] = v]
  /\ UNCHANGED connVars
  /\ Fits(s, y)
  /\ v \in {"returned", "threw", "gone"} \cup Event
  /\ v \in Event => InUse(y) /\ Own(y).busy # "no"

\* A statement that fits the others keeps the handles owned.
LEMMA OutcomeKeeps ==
  ASSUME HandleInv, NEW s \in Stmt, NEW y, NEW v, Outcome(s, y, v)
  PROVE  HandleInv'
<1>1. /\ y \in Situations /\ y.o \in Object /\ y.d \in [StmtHandle -> HandleState]
      /\ TypeOK
      BY DEF Outcome, Fits, Situations, HandleInv
<1>2. /\ \A t \in Stmt : obj'[t] = IF t = s THEN y.o ELSE obj[t]
      /\ \A t \in Stmt : told'[t] = IF t = s THEN v ELSE told[t]
      /\ drv' = y.d /\ connected' = connected /\ links' = links
      BY <1>1 DEF Outcome, TypeOK, connVars
<1>3. TypeOK'
      BY <1>1 DEF Outcome, TypeOK, connVars, Object, HandleState
<1>4. \A t \in Stmt : (t \in Using)' <=> IF t = s THEN InUse(y) ELSE t \in Using
      BY <1>2 DEF Using, InUse, Situation
<1>5. (\A t \in Stmt : obj[t].open \/ obj[t].handle = NULL)'
      BY <1>2 DEF HandleInv, Outcome, Fits
<1>6. (\A t \in Stmt : told[t] = "unborn" => ~obj[t].open)'
      BY <1>2, EventAssumption DEF HandleInv, Outcome
<1>7. (\A k \in StmtHandle : drv[k] # Free => drv[k].on \in Conn /\ connected[drv[k].on])'
      BY <1>2 DEF Outcome, Fits, Free, NewHandle
<1>8. (\A t \in Stmt : told[t] \in Event => t \in Using /\ drv[obj[t].handle].busy # "no")'
      <2> SUFFICES ASSUME NEW t \in Stmt, told'[t] \in Event
                   PROVE  (t \in Using)' /\ drv'[obj'[t].handle].busy # "no"
          OBVIOUS
      <2>1. CASE t = s
            BY <1>2, <1>4, <2>1 DEF Outcome, Own
      <2>2. CASE t # s
            BY <1>2, <1>4, <2>2 DEF Outcome, Fits, HandleInv
      <2>3. QED
            BY <2>1, <2>2
<1>9. HandlesOwned'
      <2>1. \A t \in Stmt : (t \in Using)' =>
              obj'[t].handle # NULL /\ drv'[obj'[t].handle].on = obj'[t].conn
            <3> SUFFICES ASSUME NEW t \in Stmt, (t \in Using)'
                PROVE obj'[t].handle # NULL /\ drv'[obj'[t].handle].on = obj'[t].conn
                OBVIOUS
            <3>1. CASE t = s
                  BY <1>2, <1>4, <3>1 DEF Outcome, Fits, Own
            <3>2. CASE t # s
                  BY <1>2, <1>4, <3>2 DEF Outcome, Fits, HandleInv, HandlesOwned
            <3>3. QED
                  BY <3>1, <3>2
      <2>2. \A t, u \in Stmt : (t \in Using)' /\ (u \in Using)' /\ t # u =>
              obj'[t].handle # obj'[u].handle
            BY <1>2, <1>4 DEF Outcome, Fits, HandleInv, HandlesOwned
      <2>3. ASSUME NEW k \in StmtHandle, drv'[k] # Free, drv'[k].busy = "no"
            PROVE  \E t \in Stmt : (t \in Using)' /\ obj'[t].handle = k
            <3>1. CASE InUse(y) /\ y.o.handle = k
                  BY <1>2, <1>4, <3>1
            <3>2. CASE \E t \in Using \ {s} : obj[t].handle = k
                  BY <1>2, <1>4, <3>2 DEF Using
            <3>3. QED
                  BY <1>2, <2>3, <3>1, <3>2 DEF Outcome, Fits
      <2>4. QED
            BY <2>1, <2>2, <2>3 DEF HandlesOwned, Using, Free, NewHandle
<1>10. QED
      BY <1>3, <1>5, <1>6, <1>7, <1>8, <1>9 DEF HandleInv

\* It keeps what the callers of all statements may rely on.
LEMMA OutcomeAnswers ==
  ASSUME HandleInv, AnswerInv, NEW s \in Stmt, NEW y, NEW v, Outcome(s, y, v),
         Answered(y, v)
  PROVE  AnswerInv'
<1>1. /\ \A t \in Stmt : obj'[t] = IF t = s THEN y.o ELSE obj[t]
      /\ \A t \in Stmt : told'[t] = IF t = s THEN v ELSE told[t]
      /\ drv' = y.d /\ connected' = connected
      BY DEF Outcome, HandleInv, TypeOK, connVars
<1> SUFFICES ASSUME NEW t \in Stmt PROVE Answered(Situation(t), told[t])'
    BY DEF AnswerInv
<1>2. CASE t = s
      BY <1>1, <1>2 DEF Answered, Situation, InUse, Own
<1>3. CASE t # s
      <2>1. CASE t \in Using
            <3>1. drv'[obj'[t].handle] = drv[obj[t].handle]
                  BY <1>1, <1>3, <2>1 DEF Outcome, Fits
            <3>2. QED
                  BY <1>1, <1>3, <3>1 DEF AnswerInv, Answered, Situation, InUse, Own
      <2>2. CASE t \notin Using
            BY <1>1, <1>3, <2>2 DEF Answered, Situation, InUse, Using
      <2>3. QED
            BY <2>1, <2>2
<1>4. QED
      BY <1>2, <1>3

\* It keeps the events that the callers of all statements wait for.
LEMMA OutcomeAwaits ==
  ASSUME HandleInv, EventInv, NEW s \in Stmt, NEW y, NEW v, Outcome(s, y, v),
         Awaits(y, v)
  PROVE  EventInv'
<1>1. /\ \A t \in Stmt : obj'[t] = IF t = s THEN y.o ELSE obj[t]
      /\ \A t \in Stmt : told'[t] = IF t = s THEN v ELSE told[t]
      /\ drv' = y.d /\ connected' = connected /\ links' = links
      BY DEF Outcome, HandleInv, TypeOK, connVars
<1>2. AllLost' <=> AllLost
      BY <1>1 DEF AllLost
<1>3. ASSUME NEW t \in Stmt PROVE Awaits(Situation(t), told[t])'
      <2>1. CASE t = s
            BY <1>1, <1>2, <2>1 DEF Awaits, Situation, InUse, Own, Synced
      <2>2. CASE t # s /\ t \in Using
            <3>1. drv'[obj'[t].handle] = drv[obj[t].handle]
                  BY <1>1, <2>2 DEF Outcome, Fits
            <3>2. QED
                  BY <1>1, <1>2, <2>2, <3>1
                  DEF EventInv, Awaits, Situation, InUse, Own, Synced, Using
      <2>3. CASE t # s /\ t \notin Using
            BY <1>1, <1>2, <2>3 DEF EventInv, Awaits, Situation, InUse, Using
      <2>4. QED
            BY <2>1, <2>2, <2>3
<1>4. (\A c \in Conn : connected[c] => links[c] = MaxLinks)'
      BY <1>1 DEF EventInv
<1>5. QED
      BY <1>3, <1>4 DEF EventInv

-----------------------------------------------------------------------------
(* From a method's outcome to the step of its statement.                   *)

\* Under the invariant every statement fits the others.
LEMMA SituationFits ==
  ASSUME HandleInv, NEW s \in Stmt
  PROVE  /\ Situation(s) \in Running /\ Fits(s, Situation(s))
         /\ Situation(s).o = obj[s] /\ Situation(s).d = drv
         /\ InUse(Situation(s)) <=> s \in Using
<1>1. /\ Situation(s) \in Running
      /\ Situation(s).o = obj[s] /\ Situation(s).d = drv
      /\ InUse(Situation(s)) <=> s \in Using
      BY DEF Situation, Situations, Running, HandleInv, TypeOK, Object, HandleState, Using
<1>2. \A t \in Using : /\ obj[t].handle \in StmtHandle
                       /\ drv[obj[t].handle].on = obj[t].conn /\ obj[t].conn # NULL
      BY DEF HandleInv, TypeOK, HandlesOwned, Using, InUse, Situation
<1>3. \A k \in StmtHandle : drv[k] # Free /\ drv[k].busy = "no" =>
        \/ s \in Using /\ obj[s].handle = k
        \/ \E t \in Using \ {s} : obj[t].handle = k
      BY DEF HandleInv, HandlesOwned
<1>4. \A t \in Using \ {s} : drv[obj[t].handle] # Free
      BY <1>2 DEF Free, NewHandle
<1>5. \A t \in Using \ {s} : s \in Using => obj[t].handle # obj[s].handle
      BY DEF HandleInv, HandlesOwned, Using
<1>6. QED
      BY <1>1, <1>2, <1>3, <1>4, <1>5 DEF Fits, HandleInv, Running, Own, HandlesOwned

\* A constructor starts from nothing, and no statement it would replace is open.
LEMMA NewFits ==
  ASSUME HandleInv, NEW s \in Stmt, told[s] = "unborn"
  PROVE  /\ NewSituation \in Running /\ Fits(s, NewSituation) /\ ~InUse(NewSituation)
         /\ NewSituation.o.event = NULL /\ NewSituation.o.handle = NULL
<1>1. /\ NewSituation \in Running /\ ~InUse(NewSituation) /\ NewSituation.d = drv
      /\ NewSituation.o.event = NULL /\ NewSituation.o.handle = NULL
      BY DEF NewSituation, NewObject, InUse, Running, Situations, Object, HandleInv,
             TypeOK, HandleState
<1>2. ~InUse(Situation(s)) /\ Fits(s, Situation(s)) /\ Situation(s).d = drv
      BY SituationFits DEF HandleInv, InUse
<1>3. QED
      BY <1>1, <1>2 DEF Fits, Running

\* async_helper() changes async_, and how the method ends.
LEMMA StartedFits ==
  ASSUME NEW s \in Stmt, NEW e \in Event \cup {NULL}, NEW xs,
         \A x \in xs : Sound(s, x, e), NEW y \in Started(xs, e)
  PROVE  \E x \in xs :
           /\ Fits(s, y) /\ y.d = x.d
           /\ y.o.open = x.o.open /\ y.o.handle = x.o.handle /\ y.o.conn = x.o.conn
           /\ y.o.event = x.o.event /\ y.o.enabled = x.o.enabled
           /\ y.end = "pending" <=> x.end = "pending"
           /\ y.end = "pending" /\ e # NULL => y.o.async
<1>1. CASE y \in xs /\ (e = NULL \/ y.end = "threw")
      BY <1>1 DEF Sound
<1>2. ASSUME e # NULL, NEW x \in xs, y \in AsyncHelper(x)
      PROVE  /\ Fits(s, y) /\ y.d = x.d
             /\ y.o.open = x.o.open /\ y.o.handle = x.o.handle /\ y.o.conn = x.o.conn
             /\ y.o.event = x.o.event /\ y.o.enabled = x.o.enabled
             /\ y.end = "pending" <=> x.end = "pending"
             /\ y.end = "pending" => y.o.async
      <2>1. x \in Situations /\ x.o \in Object /\ Fits(s, x)
            BY DEF Sound, Fits, Situations
      <2>2. ASSUME NEW b \in BOOLEAN
            PROVE  LET p == [x.o EXCEPT !.async = b] IN
                   /\ p \in Object /\ p.open = x.o.open /\ p.handle = x.o.handle
                   /\ p.conn = x.o.conn /\ p.event = x.o.event
                   /\ p.enabled = x.o.enabled /\ p.async = b
            BY <2>1 DEF Object
      <2>3. PICK b \in BOOLEAN :
               \/ y = [x EXCEPT !.o.async = b] /\ (x.end = "pending" => b)
               \/ y = Threw(x) /\ x.end = "no data"
            BY <1>2 DEF AsyncHelper
      <2>4. CASE y = [x EXCEPT !.o.async = b] /\ (x.end = "pending" => b)
            <3>1. /\ y \in Situations /\ y.o = [x.o EXCEPT !.async = b]
                  /\ y.d = x.d /\ y.end = x.end
                  BY <2>1, <2>2, <2>4 DEF Situations
            <3>2. /\ y.o.open = x.o.open /\ y.o.handle = x.o.handle /\ y.o.conn = x.o.conn
                  /\ y.o.event = x.o.event /\ y.o.enabled = x.o.enabled /\ y.o.async = b
                  BY <2>2, <3>1
            <3>3. Fits(s, y)
                  BY <2>1, <3>1, <3>2 DEF Fits, InUse, Own
            <3>4. QED
                  BY <2>4, <3>1, <3>2, <3>3
      <2>5. CASE y = Threw(x) /\ x.end = "no data"
            <3>1. Touches(x, y) /\ y.o = x.o /\ y.d = x.d /\ y.end = "threw"
                  BY <2>1, <2>5, ThrewTouches
            <3>2. Fits(s, y)
                  BY <2>1, <3>1 DEF Fits, InUse, Own, Touches
            <3>3. QED
                  BY <2>5, <3>1, <3>2
      <2>6. QED
            BY <2>3, <2>4, <2>5
<1>3. QED
      BY <1>1, <1>2 DEF Started, Then

\* The step of a method with outcomes xs, when it is given event e.
LEMMA DoesOutcome ==
  ASSUME HandleInv, NEW s \in Stmt, NEW op, NEW e \in Event \cup {NULL}, NEW xs,
         \A x \in xs : Sound(s, x, e), Does(s, op, e, Started(xs, e))
  PROVE  \E x \in xs, y \in Situations, v \in {"returned", "threw"} \cup Event :
           /\ Outcome(s, y, v)
           /\ Agrees(x) /\ (x.end = "pending" => e # NULL) => Answered(y, v)
           /\ (InUse(x) => Synced(x)) /\ (~InUse(x) => x.o.event = NULL \/ AllLost)
                => Awaits(y, v)
<1>1. PICK y \in Started(xs, e) :
        /\ obj' = [obj EXCEPT ![s] = y.o]
        /\ drv' = y.d
        /\ told' = [told EXCEPT ![s] =
                      IF y.end = "threw" THEN "threw" ELSE
                      IF y.end = "pending" /\ e # NULL THEN e ELSE "returned"]
        /\ UNCHANGED connVars
      BY DEF Does
<1>2. PICK x \in xs :
           /\ Fits(s, y) /\ y.d = x.d
           /\ y.o.open = x.o.open /\ y.o.handle = x.o.handle /\ y.o.conn = x.o.conn
           /\ y.o.event = x.o.event /\ y.o.enabled = x.o.enabled
           /\ y.end = "pending" <=> x.end = "pending"
           /\ y.end = "pending" /\ e # NULL => y.o.async
      BY StartedFits
<1> DEFINE v == IF y.end = "threw" THEN "threw" ELSE
                IF y.end = "pending" /\ e # NULL THEN e ELSE "returned"
<1>3. /\ v \in {"returned", "threw"} \cup Event
      /\ v \in Event => y.end = "pending" /\ v = e /\ e # NULL
      /\ v \notin Event => y.end # "pending" \/ e = NULL
      BY EventAssumption
<1>4. told' = [told EXCEPT ![s] = v]
      BY <1>1
<1> HIDE DEF v
<1>5. y \in Situations
      BY <1>2 DEF Fits
<1>6. (InUse(y) <=> InUse(x)) /\ Own(y) = Own(x)
      BY <1>2 DEF InUse, Own
<1>7. Sound(s, x, e)
      OBVIOUS
<1>8. Outcome(s, y, v)
      BY <1>1, <1>2, <1>3, <1>4, <1>6, <1>7 DEF Outcome, Sound
<1>9. Agrees(x) /\ (x.end = "pending" => e # NULL) => Answered(y, v)
      BY <1>2, <1>3, <1>6 DEF Agrees, Answered, Fits
<1>10. (InUse(x) => Synced(x)) /\ (~InUse(x) => x.o.event = NULL \/ AllLost)
         => Awaits(y, v)
      BY <1>2, <1>3, <1>6, <1>7 DEF Awaits, Synced, Sound
<1>11. QED
      BY <1>3, <1>5, <1>8, <1>9, <1>10

-----------------------------------------------------------------------------
(* The steps.                                                              *)

\* A program that uses no stale statement, and a driver that frees the handles
\* it is asked to.
Disciplined == ~KeepsStale /\ "free" \notin Faults

\* A program that never opens a statement again: it has one connection,
\* connected once, and does not close.
OpensOnce == "close" \notin Ops /\ MaxLinks <= 1 /\ \A c, d \in Conn : c = d

\* What the step of statement s has to come to, for all three invariants.
Moves(s) ==
  \E y \in Situations, v \in {"returned", "threw", "gone"} \cup Event :
    /\ Outcome(s, y, v)
    /\ AnswerInv /\ TRUE \notin PrepareTimeouts => Answered(y, v)
    /\ EventInv /\ OpensOnce => Awaits(y, v)

\* What may be assumed of a statement whose caller is not waiting.
LEMMA ReadyHas ==
  ASSUME HandleInv, NEW s \in Stmt, told[s] \notin Event
  PROVE  /\ Situation(s) \in Running /\ Fits(s, Situation(s))
         /\ AnswerInv => (InUse(Situation(s)) => Agrees(Situation(s)))
         /\ EventInv =>
              /\ InUse(Situation(s)) => Synced(Situation(s))
              /\ ~InUse(Situation(s)) => Situation(s).o.event = NULL \/ AllLost
         /\ EventInv /\ OpensOnce => \A c \in Conn : ReadyToSync(Situation(s), c)
         /\ ~KeepsStale /\ Usable(s) =>
              InUse(Situation(s)) \/ Situation(s).o.handle = NULL
<1> DEFINE x == Situation(s)
<1>1. x \in Running /\ Fits(s, x) /\ x.o = obj[s]
      BY SituationFits
<1>2. AnswerInv => (InUse(x) => Agrees(x))
      BY DEF AnswerInv, Answered, Agrees
<1>3. EventInv => /\ InUse(x) => Synced(x)
                  /\ ~InUse(x) => x.o.event = NULL \/ AllLost
      BY DEF EventInv, Awaits
<1>4. InUse(x) => x.o.conn \in Conn
      BY <1>1 DEF InUse, Running, Situations, Object
<1>5. EventInv /\ OpensOnce => \A c \in Conn : ReadyToSync(x, c)
      <2> HIDE DEF x
      <2>1. QED
            BY <1>3, <1>4 DEF ReadyToSync, OpensOnce, AllLost
<1>6. ~KeepsStale /\ Usable(s) => InUse(x) \/ x.o.handle = NULL
      BY <1>1 DEF Usable, HandleInv
<1>7. QED
      BY <1>1, <1>2, <1>3, <1>5, <1>6

\* A caller that may start a call is not waiting.
LEMMA ReadyNotAwaiting ==
  ASSUME NEW s \in Stmt, Ready(s) PROVE told[s] \notin Event
  BY EventAssumption DEF Ready

\* open(), and the methods that open on the way.
LEMMA OpenMoves ==
  ASSUME HandleInv, NEW s \in Stmt,
         OpenStatement(s) \/ PrepareStatementOn(s) \/ ExecuteStatementDirect(s)
  PROVE  Moves(s)
<1> DEFINE x == Situation(s)
<1>1. /\ x \in Running /\ Fits(s, x)
      /\ AnswerInv => (InUse(x) => Agrees(x))
      /\ EventInv => (~InUse(x) => x.o.event = NULL \/ AllLost)
      /\ EventInv /\ OpensOnce => \A c \in Conn : ReadyToSync(x, c)
      BY ReadyHas, ReadyNotAwaiting DEF OpenStatement, PrepareStatementOn, ExecuteStatementDirect
<1> HIDE DEF x
<1>2. ASSUME NEW op, NEW c \in Conn, NEW e \in Event \cup {NULL}, NEW xs,
             Does(s, op, e, Started(xs, e)),
             \A z \in xs :
               /\ Sound(s, z, e)
               /\ (InUse(x) => Agrees(x)) => Agrees(z) /\ (z.end = "pending" => e # NULL)
               /\ ReadyToSync(x, c) =>
                    Synced(z) /\ (~InUse(z) => ~InUse(x) /\ z.o.event = x.o.event)
      PROVE  Moves(s)
      <2>1. PICK z \in xs, y \in Situations, v \in {"returned", "threw"} \cup Event :
               /\ Outcome(s, y, v)
               /\ Agrees(z) /\ (z.end = "pending" => e # NULL) => Answered(y, v)
               /\ (InUse(z) => Synced(z)) /\ (~InUse(z) => z.o.event = NULL \/ AllLost)
                    => Awaits(y, v)
            BY <1>2, DoesOutcome
      <2>2. AnswerInv => Answered(y, v)
            BY <1>1, <1>2, <2>1
      <2>3. EventInv /\ OpensOnce => Awaits(y, v)
            BY <1>1, <1>2, <2>1
      <2>4. QED
            BY <2>1, <2>2, <2>3 DEF Moves
<1>3. CASE OpenStatement(s)
      <2>1. PICK c \in Conn : Does(s, "open", NULL, OpenOn(x, c))
            BY <1>3 DEF OpenStatement, x
      <2>2. Does(s, "open", NULL, Started(OpenOn(x, c), NULL))
            BY <2>1 DEF Started
      <2>3. \A z \in OpenOn(x, c) :
               /\ Sound(s, z, NULL)
               /\ (InUse(x) => Agrees(x)) => Agrees(z) /\ z.end # "pending"
               /\ ReadyToSync(x, c) =>
                    Synced(z) /\ (~InUse(z) => ~InUse(x) /\ z.o.event = x.o.event)
            BY <1>1, OpenFits DEF Sound
      <2>4. QED
            BY <1>2, <2>2, <2>3
<1>4. CASE PrepareStatementOn(s)
      <2>1. PICK c \in Conn, some \in BOOLEAN :
              Does(s, "prepare on", NULL, PrepareOn(x, c, some))
            BY <1>4 DEF PrepareStatementOn, x
      <2>2. Does(s, "prepare on", NULL, Started(PrepareOn(x, c, some), NULL))
            BY <2>1 DEF Started
      <2>3. \A z \in PrepareOn(x, c, some) :
               /\ Sound(s, z, NULL)
               /\ (InUse(x) => Agrees(x)) => Agrees(z) /\ (z.end = "pending" => NULL # NULL)
               /\ ReadyToSync(x, c) =>
                    Synced(z) /\ (~InUse(z) => ~InUse(x) /\ z.o.event = x.o.event)
            BY <1>1, OpenAndCallSound
      <2>4. QED
            BY <1>2, <2>2, <2>3
<1>5. CASE ExecuteStatementDirect(s)
      <2>1. PICK c \in Conn, e \in Event \cup {NULL}, some \in BOOLEAN :
              Does(s, "direct", e, Started(ExecuteDirect(x, c, e, some), e))
            BY <1>5 DEF ExecuteStatementDirect, x
      <2>2. \A z \in ExecuteDirect(x, c, e, some) :
               /\ Sound(s, z, e)
               /\ (InUse(x) => Agrees(x)) => Agrees(z) /\ (z.end = "pending" => e # NULL)
               /\ ReadyToSync(x, c) =>
                    Synced(z) /\ (~InUse(z) => ~InUse(x) /\ z.o.event = x.o.event)
            BY <1>1, OpenAndCallSound
      <2>3. QED
            BY <1>2, <2>1, <2>2
<1>6. QED
      BY <1>3, <1>4, <1>5

\* prepare(query) and execute(), on the handle the statement has.
LEMMA CallMoves ==
  ASSUME HandleInv, ~KeepsStale, NEW s \in Stmt,
         PrepareStatement(s) \/ ExecuteStatement(s)
  PROVE  Moves(s)
<1> DEFINE x == Situation(s)
<1>1. /\ x \in Running /\ Fits(s, x) /\ (InUse(x) \/ x.o.handle = NULL)
      /\ AnswerInv => (InUse(x) => Agrees(x))
      /\ EventInv => /\ InUse(x) => Synced(x)
                     /\ ~InUse(x) => x.o.event = NULL \/ AllLost
      BY ReadyHas, ReadyNotAwaiting DEF PrepareStatement, ExecuteStatement
<1> HIDE DEF x
<1>2. AnswerInv => Agrees(x)
      BY <1>1 DEF Agrees
<1>3. EventInv => Synced(x)
      BY <1>1 DEF Synced
<1>4. ASSUME NEW op, NEW e \in Event \cup {NULL}, NEW xs,
             Does(s, op, e, Started(xs, e)),
             \A z \in xs : /\ ComesTo(x, z, e)
                           /\ TRUE \notin PrepareTimeouts /\ Agrees(x) => Agrees(z)
      PROVE  Moves(s)
      <2>1. ASSUME NEW z \in xs
            PROVE  /\ Sound(s, z, e) /\ (InUse(z) <=> InUse(x)) /\ (Synced(x) => Synced(z))
                   /\ ~InUse(x) => z.o.event = x.o.event
                   /\ Agrees(x) => (z.end = "pending" => e # NULL)
            <3>1. ComesTo(x, z, e) /\ x \in Situations
                  BY <1>1, <1>4 DEF Running
            <3>2. /\ Sound(s, z, e) /\ (InUse(z) <=> InUse(x)) /\ (Synced(x) => Synced(z))
                  /\ ~InUse(x) => z.o.event = x.o.event
                  BY <1>1, <3>1, ComesSound
            <3>3. QED
                  BY <3>1, <3>2 DEF ComesTo
      <2>2. PICK z \in xs, y \in Situations, v \in {"returned", "threw"} \cup Event :
               /\ Outcome(s, y, v)
               /\ Agrees(z) /\ (z.end = "pending" => e # NULL) => Answered(y, v)
               /\ (InUse(z) => Synced(z)) /\ (~InUse(z) => z.o.event = NULL \/ AllLost)
                    => Awaits(y, v)
            BY <1>4, <2>1, DoesOutcome
      <2>3. AnswerInv /\ TRUE \notin PrepareTimeouts => Answered(y, v)
            BY <1>2, <1>4, <2>1, <2>2
      <2>4. EventInv => Awaits(y, v)
            BY <1>1, <1>3, <2>1, <2>2
      <2>5. QED
            BY <2>2, <2>3, <2>4 DEF Moves
<1>5. CASE PrepareStatement(s)
      <2>1. PICK e \in Event \cup {NULL}, some \in PrepareTimeouts :
              Does(s, "prepare", e, Started(Prepare(x, e, some), e))
            BY <1>5 DEF PrepareStatement, x
      <2>2. some \in BOOLEAN /\ (TRUE \notin PrepareTimeouts => ~some)
            BY TimeoutAssumption
      <2>3. QED
            BY <1>1, <1>4, <2>1, <2>2, PrepareComes
<1>6. CASE ExecuteStatement(s)
      <2>1. PICK e \in Event \cup {NULL}, some \in BOOLEAN :
              Does(s, "execute", e, Started(Execute(x, e, some), e))
            BY <1>6 DEF ExecuteStatement, x
      <2>2. QED
            BY <1>1, <1>4, <2>1, ExecuteComes
<1>7. QED
      BY <1>5, <1>6

\* What is known of the object and the handle of statement s, and of what its
\* caller was told, whatever that is.
LEMMA AnyHas ==
  ASSUME HandleInv, NEW s \in Stmt
  PROVE  /\ Situation(s) \in Running /\ Fits(s, Situation(s))
         /\ Situation(s).o = obj[s] /\ Situation(s).d = drv
         /\ told[s] \in {"unborn", "returned", "threw", "gone"} \cup Event
         /\ told[s] \in Event => InUse(Situation(s)) /\ Own(Situation(s)).busy # "no"
         /\ InUse(Situation(s)) => told[s] # "unborn"
         /\ AnswerInv => Answered(Situation(s), told[s])
         /\ EventInv => Awaits(Situation(s), told[s])
<1>1. /\ Situation(s) \in Running /\ Fits(s, Situation(s))
      /\ Situation(s).o = obj[s] /\ Situation(s).d = drv
      /\ InUse(Situation(s)) <=> s \in Using
      BY SituationFits
<1>2. /\ AnswerInv => Answered(Situation(s), told[s])
      /\ EventInv => Awaits(Situation(s), told[s])
      BY DEF AnswerInv, EventInv
<1>3. /\ told[s] \in {"unborn", "returned", "threw", "gone"} \cup Event
      /\ told[s] \in Event => s \in Using /\ drv[obj[s].handle].busy # "no"
      /\ told[s] = "unborn" => ~obj[s].open
      BY DEF HandleInv, TypeOK
<1>4. InUse(Situation(s)) => obj[s].open
      BY <1>1 DEF InUse
<1>5. QED
      BY <1>1, <1>2, <1>3, <1>4 DEF Own

\* close(), which leaves a caller that waits waiting if it throws.
LEMMA CloseMoves ==
  ASSUME HandleInv, NEW s \in Stmt, CloseStatement(s)
  PROVE  Moves(s)
<1> DEFINE x == Situation(s)
<1>1. /\ x \in Running /\ Fits(s, x)
      /\ told[s] \in {"unborn", "returned", "threw", "gone"} \cup Event
      /\ told[s] \in Event => InUse(x) /\ Own(x).busy # "no"
      /\ InUse(x) => told[s] # "unborn"
      /\ AnswerInv => Answered(x, told[s])
      BY AnyHas
<1>2. PICK y \in Close(x) :
        /\ obj' = [obj EXCEPT ![s] = y.o] /\ drv' = y.d
        /\ told' = [told EXCEPT ![s] = IF y.end = "threw" THEN @ ELSE "returned"]
        /\ UNCHANGED connVars
      BY DEF CloseStatement
<1> DEFINE v == IF y.end = "threw" THEN told[s] ELSE "returned"
<1>3. told' = [told EXCEPT ![s] = v]
      BY <1>2
<1> HIDE DEF x
<1>4. /\ Fits(s, y)
      /\ \/ /\ y.end = "threw" /\ InUse(x) /\ InUse(y) /\ y.o = x.o
            /\ Own(y).mode = Own(x).mode
            /\ Own(y).busy = "no" <=> Own(x).busy = "no"
         \/ y.end = "returned" /\ ~InUse(y)
      BY <1>1, <1>2, CloseFits
<1>5. /\ v \in {"returned", "threw", "gone"} \cup Event
      /\ v \in Event => InUse(y) /\ Own(y).busy # "no"
      BY <1>1, <1>4, EventAssumption
<1>6. AnswerInv => Answered(y, v)
      BY <1>1, <1>4 DEF Answered
<1> HIDE DEF v
<1>7. Outcome(s, y, v)
      BY <1>2, <1>3, <1>4, <1>5 DEF Outcome
<1>8. ~OpensOnce
      BY DEF OpensOnce, CloseStatement
<1>9. QED
      BY <1>4, <1>5, <1>6, <1>7, <1>8 DEF Moves, Fits

\* cancel(), which ends no call and forgets no event.
LEMMA CancelMoves ==
  ASSUME HandleInv, ~KeepsStale, NEW s \in Stmt, CancelStatement(s)
  PROVE  Moves(s)
<1> DEFINE x == Situation(s)
           v == told[s]
<1>1. /\ x \in Running /\ Fits(s, x) /\ x.o = obj[s]
      /\ v \in {"unborn", "returned", "threw", "gone"} \cup Event
      /\ v \in Event => InUse(x) /\ Own(x).busy # "no"
      /\ InUse(x) => v # "unborn"
      /\ AnswerInv => Answered(x, v)
      /\ EventInv => Awaits(x, v)
      BY AnyHas
<1>2. InUse(x) /\ x.o.handle # NULL
      BY DEF CancelStatement, Usable, HandleInv, HandlesOwned, Using, Situation
<1>3. PICK y \in CancelCall(x) : drv' = y.d
      BY DEF CancelStatement
<1>4. /\ obj' = obj /\ told' = told /\ UNCHANGED connVars
      BY DEF CancelStatement
<1>5. /\ Touches(x, y) /\ y.o = x.o
      /\ Own(y).busy = "no" <=> Own(x).busy = "no"
      /\ Own(y).event = Own(x).event /\ Own(y).mode = Own(x).mode
      BY <1>1, <1>2, <1>3, CancelFollows
<1>6. obj' = [obj EXCEPT ![s] = y.o] /\ told' = [told EXCEPT ![s] = v]
      BY <1>1, <1>4, <1>5 DEF HandleInv, TypeOK
<1> HIDE DEF x, v
<1>7. Fits(s, y) /\ InUse(y)
      BY <1>1, <1>2, <1>5, TouchesFits
<1>8. Outcome(s, y, v)
      BY <1>1, <1>2, <1>3, <1>4, <1>5, <1>6, <1>7 DEF Outcome
<1>9. AnswerInv => Answered(y, v)
      BY <1>1, <1>2, <1>5 DEF Answered
<1>10. EventInv => Awaits(y, v)
      BY <1>1, <1>2, <1>5, <1>7 DEF Awaits, Synced
<1>11. QED
      BY <1>1, <1>2, <1>7, <1>8, <1>9, <1>10 DEF Moves, Fits

\* A caller that was asked to wait finds async_ set, so that completing ends
\* the call.
LEMMA CompleteMoves ==
  ASSUME HandleInv, NEW s \in Stmt, Complete(s)
  PROVE  Moves(s)
<1> DEFINE x == Situation(s)
           r == [Own(x) EXCEPT !.busy = "no"]
<1>1. /\ x \in Running /\ Fits(s, x) /\ InUse(x) /\ told[s] \in Event
      /\ AnswerInv => Answered(x, told[s])
      /\ EventInv => Awaits(x, told[s])
      BY AnyHas DEF Complete
<1>2. /\ x.o.handle # NULL /\ x.o.handle \in StmtHandle /\ Own(x) \in HandleState
      /\ Own(x).on # NULL
      <2> HIDE DEF x
      <2>1. /\ x.o \in Object /\ x.d \in [StmtHandle -> HandleState]
            /\ x.o.handle # NULL /\ Own(x).on = x.o.conn /\ x.o.conn # NULL
            BY <1>1 DEF Fits, Running, Situations, InUse
      <2>2. QED
            BY <2>1 DEF Object, Own
<1>3. r \in HandleState /\ r.on = Own(x).on /\ r.event = Own(x).event
      /\ r.mode = Own(x).mode /\ r.busy = "no"
      BY <1>2 DEF HandleState
<1>4. PICK y \in CompleteCall(x) :
        /\ obj' = [obj EXCEPT ![s] = y.o] /\ drv' = y.d
        /\ told' = [told EXCEPT ![s] = IF y.end = "threw" THEN "threw" ELSE "returned"]
        /\ UNCHANGED connVars
      BY DEF Complete, Does
<1>5. IF x.o.async THEN y = On(x, r) \/ y = Threw(On(x, r)) ELSE y = x
      BY <1>4 DEF CompleteCall
<1> DEFINE v == IF y.end = "threw" THEN "threw" ELSE "returned"
<1>6. v \in {"returned", "threw"} /\ v \notin Event /\ told' = [told EXCEPT ![s] = v]
      BY <1>4, EventAssumption
<1> HIDE DEF x, r, v
<1>7. Touches(x, On(x, r)) /\ Own(On(x, r)) = r /\ On(x, r).o = x.o
      BY <1>1, <1>2, <1>3, OnTouches DEF Running
<1>8. Threw(On(x, r)).o = On(x, r).o /\ Threw(On(x, r)).d = On(x, r).d
      /\ Touches(On(x, r), Threw(On(x, r)))
      BY <1>7, ThrewTouches DEF Touches
<1>9. Touches(x, y) /\ y.o = x.o /\ (x.o.async => Own(y) = r) /\ (~x.o.async => y = x)
      BY <1>1, <1>5, <1>7, <1>8, TouchesSelf, TouchesTransitive DEF Own, Running
<1>10. Fits(s, y) /\ InUse(y)
      BY <1>1, <1>9, TouchesFits
<1>11. Outcome(s, y, v)
      BY <1>4, <1>6, <1>10 DEF Outcome
<1>12. AnswerInv => Answered(y, v)
      BY <1>1, <1>3, <1>6, <1>9 DEF Answered
<1>13. EventInv => Awaits(y, v)
      BY <1>1, <1>3, <1>6, <1>9, <1>10 DEF Awaits, Synced
<1>14. QED
      BY <1>6, <1>10, <1>11, <1>12, <1>13 DEF Moves, Fits

\* The destructor frees the handle unless a call is in progress on it, and
\* touches no other.
LEMMA DestroyLeaves ==
  ASSUME HandleInv, "free" \notin Faults, NEW s \in Stmt, NEW d,
         \E z \in (IF InUse(Situation(s))
                   THEN UNION {FreeCall(y) : y \in CancelCall(Situation(s))}
                   ELSE {Situation(s)}) : d = z.d
  PROVE  /\ d \in [StmtHandle -> HandleState]
         /\ \A k \in StmtHandle : s \notin Using \/ k # obj[s].handle => d[k] = drv[k]
         /\ s \in Using =>
              IF drv[obj[s].handle].busy = "no"
              THEN d[obj[s].handle] = Free
              ELSE d[obj[s].handle].on = drv[obj[s].handle].on
                   /\ d[obj[s].handle].busy # "no"
<1> DEFINE x == Situation(s)
           h == obj[s].handle
<1>1. /\ x \in Running /\ Fits(s, x) /\ x.o = obj[s] /\ x.d = drv
      /\ InUse(x) <=> s \in Using
      BY SituationFits
<1>2. drv \in [StmtHandle -> HandleState]
      BY <1>1 DEF Running, Situations
<1>3. CASE ~InUse(x)
      BY <1>1, <1>2, <1>3
<1>4. CASE InUse(x)
      <2>1. PICK y \in CancelCall(x) : \E z \in FreeCall(y) : d = z.d
            BY <1>4
      <2> HIDE DEF x
      <2>2. PICK z \in FreeCall(y) : d = z.d
            BY <2>1
      <2>3. h \in StmtHandle /\ h # NULL /\ x.o.handle = h
            BY <1>1, <1>4 DEF Fits, Running, Situations, Object
      <2>4. /\ Touches(x, y) /\ y.o = x.o /\ Own(y).on = Own(x).on
            /\ Own(y).busy = "no" <=> Own(x).busy = "no"
            BY <1>1, <2>1, <2>3, CancelFollows DEF Touches
      <2>5. Own(x) = drv[h] /\ Own(y) = y.d[h] /\ y.d \in [StmtHandle -> HandleState]
            /\ y \in Situations
            BY <1>1, <2>3, <2>4 DEF Own, Touches, Situations
      <2>6. Own(x).on # NULL
            BY <1>1, <1>4 DEF Fits, InUse
      <2>7. IF Own(y).busy = "no" THEN z = On(y, Free) ELSE z = Threw(y)
            <3>1. Known(y)
                  BY <2>3, <2>4, <2>6 DEF Known
            <3>2. IF Idle(y) THEN z = On(y, Free) ELSE z = Threw(y)
                  BY <2>2 DEF FreeCall, Call, FailsAt
            <3>3. QED
                  BY <3>1, <3>2 DEF Idle
      <2>8. CASE Own(y).busy = "no"
            <3>1. z.d = [y.d EXCEPT ![h] = Free]
                  <4>1. z = [y EXCEPT !.d[h] = Free]
                        BY <2>3, <2>4, <2>7, <2>8 DEF On
                  <4>2. QED
                        BY <2>5, <4>1 DEF Situations
            <3>2. /\ d \in [StmtHandle -> HandleState] /\ d[h] = Free
                  /\ \A k \in StmtHandle : k # h => d[k] = y.d[k]
                  BY <2>2, <2>3, <2>5, <3>1, FreeIsHandle
            <3>3. QED
                  BY <1>1, <1>4, <2>3, <2>4, <2>5, <2>8, <3>2 DEF Touches
      <2>9. CASE Own(y).busy # "no"
            <3>1. d = y.d
                  BY <2>2, <2>5, <2>7, <2>9, ThrewTouches
            <3>2. QED
                  BY <1>1, <1>4, <2>3, <2>4, <2>5, <2>9, <3>1 DEF Touches
      <2>10. QED
            BY <2>8, <2>9
<1>5. QED
      BY <1>3, <1>4

\* ~statement_impl, and the end of the object.
LEMMA DestroyMoves ==
  ASSUME HandleInv, "free" \notin Faults, NEW s \in Stmt, Destroy(s)
  PROVE  Moves(s)
<1> DEFINE y == [o |-> NewObject, d |-> drv', end |-> "returned"]
           h == obj[s].handle
<1>1. /\ obj' = [obj EXCEPT ![s] = NewObject] /\ told' = [told EXCEPT ![s] = "gone"]
      /\ UNCHANGED connVars
      BY DEF Destroy, Ends
<1>2. /\ drv' \in [StmtHandle -> HandleState]
      /\ \A k \in StmtHandle : s \notin Using \/ k # h => drv'[k] = drv[k]
      /\ s \in Using =>
           IF drv[h].busy = "no" THEN drv'[h] = Free
           ELSE drv'[h].on = drv[h].on /\ drv'[h].busy # "no"
      BY DestroyLeaves DEF Destroy, Ends
<1>3. y.o = NewObject /\ y.d = drv' /\ y \in Situations /\ ~InUse(y)
      /\ y.o.handle = NULL /\ y.o.event = NULL
      BY <1>2 DEF Situations, Object, NewObject, InUse
<1>4. \A t \in Using \ {s} :
        /\ obj[t].handle \in StmtHandle /\ drv[obj[t].handle] # Free
        /\ s \in Using => obj[t].handle # h
      BY SituationFits DEF Fits, HandleInv, HandlesOwned, Using
<1>5. \A k \in StmtHandle : drv[k] # Free =>
        /\ drv[k].on \in Conn /\ connected[drv[k].on]
        /\ \/ drv[k].busy # "no"
           \/ s \in Using /\ k = h
           \/ \E t \in Using \ {s} : obj[t].handle = k
      BY SituationFits DEF Fits
<1> HIDE DEF y
<1>6. ASSUME NEW k \in StmtHandle, drv'[k] # Free
      PROVE  /\ drv'[k].on \in Conn /\ connected[drv'[k].on]
             /\ drv'[k].busy # "no" \/ \E t \in Using \ {s} : obj[t].handle = k
      <2>1. CASE s \in Using /\ k = h
            BY <1>2, <1>5, <1>6, <2>1 DEF Free, NewHandle
      <2>2. CASE ~(s \in Using /\ k = h)
            BY <1>2, <1>5, <1>6, <2>2
      <2>3. QED
            BY <2>1, <2>2
<1>7. Fits(s, y)
      BY <1>2, <1>3, <1>4, <1>6 DEF Fits
<1>8. Outcome(s, y, "gone")
      BY <1>1, <1>3, <1>7, EventAssumption DEF Outcome
<1>9. Answered(y, "gone") /\ Awaits(y, "gone")
      BY <1>3, EventAssumption DEF Answered, Awaits
<1>10. QED
      BY <1>3, <1>8, <1>9 DEF Moves

\* A constructor that throws may leave a handle of its own, not in progress.
LEMMA ConstructMoves ==
  ASSUME HandleInv, NEW s \in Stmt, Construct(s)
  PROVE  Moves(s)
<1> DEFINE x == NewSituation
<1> DEFINE Built(c, some) == OpenWith(x, c, some) \cup PrepareOn(x, c, some)
<1>0. PICK c \in Conn, some \in BOOLEAN : \E y \in Built(c, some) :
        /\ obj' = [obj EXCEPT ![s] = y.o] /\ drv' = y.d
        /\ told' = [told EXCEPT ![s] = IF y.end = "threw" THEN "gone" ELSE "returned"]
        /\ UNCHANGED connVars
      BY DEF Construct
<1>1. PICK y \in Built(c, some) :
        /\ obj' = [obj EXCEPT ![s] = y.o] /\ drv' = y.d
        /\ told' = [told EXCEPT ![s] = IF y.end = "threw" THEN "gone" ELSE "returned"]
        /\ UNCHANGED connVars
      BY <1>0
<1> DEFINE v == IF y.end = "threw" THEN "gone" ELSE "returned"
<1>2. /\ x \in Running /\ Fits(s, x) /\ ~InUse(x) /\ x.o.event = NULL
      BY NewFits DEF Construct
<1>3. v \in {"returned", "gone"} /\ v \notin Event /\ told' = [told EXCEPT ![s] = v]
      BY <1>1, EventAssumption
<1> HIDE DEF x, v
<1>4. ReadyToSync(x, c)
      BY <1>2 DEF ReadyToSync
<1>5. /\ Sound(s, y, NULL) /\ Agrees(y) /\ y.end # "pending" /\ Synced(y)
      /\ ~InUse(y) => y.o.event = NULL
      <2>1. CASE y \in PrepareOn(x, c, some)
            BY <1>2, <1>4, <2>1, OpenAndCallSound
      <2>2. CASE y \in OpenWith(x, c, some)
            <3> DEFINE Attributes(z) == IF some THEN Call(z, "setAttr", z) ELSE {z}
            <3>1. y \in Then(OpenOn(x, c), Attributes)
                  BY <2>2 DEF OpenWith
            <3>2. PICK z \in OpenOn(x, c) : y = z \/ y = Threw(z)
                  BY <3>1 DEF Then, Call, FailsAt
            <3>3. /\ Fits(s, z) /\ Agrees(z) /\ Synced(z) /\ z.end # "pending"
                  /\ ~InUse(z) => z.o.event = NULL
                  BY <1>2, <1>4, OpenFits
            <3>4. CASE y = Threw(z)
                  <4>1. y.end = "threw" /\ y.o = z.o /\ y.d = z.d /\ y \in Situations
                        /\ z \in Situations
                        BY <3>3, <3>4, ThrewTouches DEF Fits, Touches
                  <4>2. QED
                        BY <3>3, <4>1 DEF Sound, Fits, Agrees, Synced, InUse, Own
            <3>5. QED
                  BY <3>2, <3>3, <3>4 DEF Sound
      <2>3. QED
            BY <1>1, <2>1, <2>2
<1>6. Outcome(s, y, v)
      BY <1>1, <1>3, <1>5 DEF Outcome, Sound
<1>7. Answered(y, v)
      BY <1>3, <1>5 DEF Answered, Agrees, Sound, Fits
<1>8. Awaits(y, v)
      BY <1>3, <1>5 DEF Awaits
<1>9. QED
      BY <1>3, <1>5, <1>6, <1>7, <1>8 DEF Moves, Sound, Fits

\* A link comes or goes: the statements in use afterwards were in use before,
\* their handles are untouched, and nobody waits on the link that goes.
LEMMA LinkLeaves ==
  ASSUME HandleInv, NEW c \in Conn, Disconnect(c) \/ (~KeepsStale /\ Connect(c))
  PROVE  /\ obj' = obj /\ told' = told
         /\ connected' = [connected EXCEPT ![c] = connected'[c]]
         /\ connected'[c] \in BOOLEAN
         /\ \A k \in StmtHandle : drv'[k] = IF drv[k].on = c THEN Free ELSE drv[k]
         /\ drv' \in [StmtHandle -> HandleState]
         /\ \A s \in Stmt : (s \in Using)' <=> s \in Using /\ obj[s].conn # c
         /\ \A s \in Stmt : (s \in Using)' => drv'[obj[s].handle] = drv[obj[s].handle]
         /\ \A s \in Stmt : told[s] \in Event => obj[s].conn # c
<1>1. /\ obj' = obj /\ told' = told /\ drv' = Dropped(c) /\ Droppable(c)
      /\ connected' = [connected EXCEPT ![c] = connected'[c]]
      /\ connected'[c] \in BOOLEAN
      BY DEF Disconnect, Connect, HandleInv, TypeOK
<1>2. /\ drv \in [StmtHandle -> HandleState] /\ connected \in [Conn -> BOOLEAN]
      /\ \A s \in Stmt : obj[s].conn \in Conn \cup {NULL}
      /\ \A s \in Stmt : obj[s].handle \in StmtHandle \cup {NULL}
      BY DEF HandleInv, TypeOK, HandleState
<1>3. /\ \A k \in StmtHandle : drv'[k] = IF drv[k].on = c THEN Free ELSE drv[k]
      /\ drv' \in [StmtHandle -> HandleState]
      BY <1>1, <1>2, FreeIsHandle DEF Dropped
<1>4. \A s \in Stmt : s \in Using =>
        /\ obj[s].handle \in StmtHandle /\ drv[obj[s].handle].on = obj[s].conn
      BY <1>2 DEF HandleInv, HandlesOwned, Using
<1>5. ASSUME NEW s \in Stmt
      PROVE  (s \in Using)' <=> s \in Using /\ obj[s].conn # c
      <2>1. CASE Disconnect(c)
            <3>1. ~connected'[c]
                  BY <1>2, <2>1 DEF Disconnect
            <3>2. QED
                  BY <1>1, <1>2, <3>1 DEF Using, InUse, Situation
      <2>2. CASE ~KeepsStale /\ Connect(c)
            <3>1. ~(obj[s].open /\ obj[s].conn = c)
                  BY <2>2 DEF Connect, Forgotten
            <3>2. QED
                  BY <1>1, <1>2, <3>1 DEF Using, InUse, Situation
      <2>3. QED
            BY <2>1, <2>2
<1>6. ASSUME NEW s \in Stmt, told[s] \in Event PROVE obj[s].conn # c
      BY <1>1, <1>4, <1>6 DEF HandleInv, Droppable
<1>7. QED
      BY <1>1, <1>3, <1>4, <1>5, <1>6

\* So the handles stay owned, and the callers answered.
LEMMA LinkKeeps ==
  ASSUME HandleInv, NEW c \in Conn, Disconnect(c) \/ (~KeepsStale /\ Connect(c))
  PROVE  HandleInv' /\ (AnswerInv => AnswerInv')
<1>1. /\ obj' = obj /\ told' = told
      /\ connected' = [connected EXCEPT ![c] = connected'[c]]
      /\ connected'[c] \in BOOLEAN
      /\ \A k \in StmtHandle : drv'[k] = IF drv[k].on = c THEN Free ELSE drv[k]
      /\ drv' \in [StmtHandle -> HandleState]
      /\ \A s \in Stmt : (s \in Using)' <=> s \in Using /\ obj[s].conn # c
      /\ \A s \in Stmt : (s \in Using)' => drv'[obj[s].handle] = drv[obj[s].handle]
      /\ \A s \in Stmt : told[s] \in Event => obj[s].conn # c
      BY LinkLeaves
<1>2. TypeOK'
      BY TypeOKStep DEF HandleInv, Next
<1>3. HandlesOwned'
      <2>1. \A s \in Stmt : (s \in Using)' =>
              obj'[s].handle # NULL /\ drv'[obj'[s].handle].on = obj'[s].conn
            BY <1>1 DEF HandleInv, HandlesOwned
      <2>2. \A s, t \in Stmt : (s \in Using)' /\ (t \in Using)' /\ s # t =>
              obj'[s].handle # obj'[t].handle
            BY <1>1 DEF HandleInv, HandlesOwned
      <2>3. ASSUME NEW k \in StmtHandle, drv'[k] # Free, drv'[k].busy = "no"
            PROVE  \E s \in Stmt : (s \in Using)' /\ obj'[s].handle = k
            <3>1. drv[k].on # c /\ drv[k] # Free /\ drv[k].busy = "no"
                  BY <1>1, <2>3
            <3>2. PICK s \in Using : obj[s].handle = k
                  BY <3>1 DEF HandleInv, HandlesOwned
            <3>3. obj[s].conn # c
                  BY <3>1, <3>2 DEF HandleInv, HandlesOwned
            <3>4. QED
                  BY <1>1, <3>2, <3>3 DEF Using
      <2>4. QED
            BY <2>1, <2>2, <2>3 DEF HandlesOwned, Using, Free, NewHandle
<1>4. /\ (\A s \in Stmt : obj[s].open \/ obj[s].handle = NULL)'
      /\ (\A s \in Stmt : told[s] = "unborn" => ~obj[s].open)'
      BY <1>1 DEF HandleInv
<1>5. (\A k \in StmtHandle : drv[k] # Free => drv[k].on \in Conn /\ connected[drv[k].on])'
      <2> SUFFICES ASSUME NEW k \in StmtHandle, drv'[k] # Free
                   PROVE  drv'[k].on \in Conn /\ connected'[drv'[k].on]
          BY DEF Free, NewHandle
      <2>1. drv'[k] = drv[k] /\ drv[k].on # c /\ drv[k] # Free
            BY <1>1
      <2>2. drv[k].on \in Conn /\ connected[drv[k].on]
            BY <2>1 DEF HandleInv
      <2>3. connected'[drv[k].on] = connected[drv[k].on]
            BY <1>1, <2>1, <2>2 DEF HandleInv, TypeOK
      <2>4. QED
            BY <2>1, <2>2, <2>3
<1>6. (\A s \in Stmt : told[s] \in Event => s \in Using /\ drv[obj[s].handle].busy # "no")'
      BY <1>1 DEF HandleInv
<1>7. AnswerInv => AnswerInv'
      <2> SUFFICES ASSUME AnswerInv, NEW s \in Stmt, InUse(Situation(s))'
                   PROVE  Answered(Situation(s), told[s])'
          BY DEF AnswerInv, Answered
      <2>1. (s \in Using)'
            BY DEF Using
      <2>2. InUse(Situation(s)) /\ drv'[obj[s].handle] = drv[obj[s].handle]
            BY <1>1, <2>1 DEF Using
      <2>3. QED
            BY <1>1, <2>2 DEF AnswerInv, Answered, Situation, Own
<1>8. QED
      BY <1>2, <1>3, <1>4, <1>5, <1>6, <1>7 DEF HandleInv

\* The one connection is connected while no object remembers an event, and
\* when it is lost it is lost for good.
LEMMA LinkAwaits ==
  ASSUME HandleInv, EventInv, OpensOnce, NEW c \in Conn,
         Disconnect(c) \/ (~KeepsStale /\ Connect(c))
  PROVE  EventInv'
<1>1. /\ obj' = obj /\ told' = told
      /\ connected' = [connected EXCEPT ![c] = connected'[c]]
      /\ \A s \in Stmt : (s \in Using)' <=> s \in Using /\ obj[s].conn # c
      /\ \A s \in Stmt : told[s] \in Event => obj[s].conn # c
      BY LinkLeaves
<1>2. \A d \in Conn : d = c
      BY DEF OpensOnce
<1>3. \A s \in Stmt : obj[s].conn \in Conn \cup {NULL} /\ (s \in Using => obj[s].conn # NULL)
      BY DEF HandleInv, TypeOK, Using, InUse, Situation
<1>4. \A s \in Stmt : ~InUse(Situation(s))' /\ told[s] \notin Event
      BY <1>1, <1>2, <1>3 DEF HandleInv, Using
<1>5. links[c] \in 0..MaxLinks /\ connected \in [Conn -> BOOLEAN] /\ links \in [Conn -> 0..MaxLinks]
      BY DEF HandleInv, TypeOK
<1>6. \A s \in Stmt : obj[s].event = NULL \/ AllLost'
      <2>1. CASE Disconnect(c)
            <3>1. links'[c] = MaxLinks /\ ~connected'[c]
                  BY <1>5, <2>1 DEF Disconnect, EventInv
            <3>2. AllLost'
                  BY <1>2, <3>1 DEF AllLost
            <3>3. QED
                  BY <3>2
      <2>2. CASE Connect(c)
            <3>1. links[c] # MaxLinks
                  BY <1>5, <2>2, BoundAssumption DEF Connect
            <3>2. ~AllLost /\ ~connected[c]
                  BY <3>1 DEF AllLost, EventInv
            <3>3. \A s \in Stmt : ~InUse(Situation(s))
                  BY <1>2, <1>3, <3>2 DEF Using, InUse, Situation
            <3>4. \A s \in Stmt : Situation(s).o.event = NULL
                  BY <3>2, <3>3 DEF EventInv, Awaits
            <3>5. QED
                  BY <3>4 DEF Situation
      <2>3. QED
            BY <2>1, <2>2
<1>7. (\A d \in Conn : connected[d] => links[d] = MaxLinks)'
      <2>1. CASE Disconnect(c)
            BY <1>2, <1>5, <2>1 DEF Disconnect
      <2>2. CASE Connect(c)
            <3>1. links'[c] = links[c] + 1 /\ links[c] < MaxLinks
                  BY <1>5, <2>2 DEF Connect
            <3>2. links'[c] = MaxLinks
                  BY <1>5, <3>1, BoundAssumption DEF OpensOnce
            <3>3. QED
                  BY <1>2, <3>2
      <2>3. QED
            BY <2>1, <2>2
<1>8. ASSUME NEW s \in Stmt PROVE Awaits(Situation(s), told[s])'
      BY <1>1, <1>4, <1>6 DEF Awaits, Situation
<1>9. QED
      BY <1>7, <1>8 DEF EventInv

-----------------------------------------------------------------------------
(* The theorems.                                                           *)

\* The driver's own step: a call in progress stays in progress until completed.
LEMMA DriverKeeps ==
  ASSUME HandleInv, NEW h \in StmtHandle, DriverFinishes(h)
  PROVE  HandleInv' /\ (AnswerInv => AnswerInv') /\ (EventInv => EventInv')
<1>1. /\ UNCHANGED <<connVars, obj, told>>
      /\ drv \in [StmtHandle -> HandleState]
      /\ drv' = [drv EXCEPT ![h].busy = "done"] /\ drv[h].busy = "executing"
      BY DEF DriverFinishes, HandleInv, TypeOK, HandleState
<1>2. \A k \in StmtHandle :
        /\ drv'[k].on = drv[k].on /\ drv'[k].event = drv[k].event
        /\ drv'[k].mode = drv[k].mode
        /\ drv'[k].busy = "no" <=> drv[k].busy = "no"
        /\ drv'[k] # Free => drv[k] # Free
      <2>1. drv[h].busy # Free.busy
            BY <1>1 DEF Free, NewHandle
      <2>2. \A k \in StmtHandle : k # h => drv'[k] = drv[k]
            BY <1>1
      <2>3. drv'[h] = [drv[h] EXCEPT !.busy = "done"] /\ drv[h] \in HandleState
            BY <1>1
      <2>4. /\ drv'[h].on = drv[h].on /\ drv'[h].event = drv[h].event
            /\ drv'[h].mode = drv[h].mode /\ drv'[h].busy = "done"
            BY <2>3 DEF HandleState
      <2>5. QED
            BY <1>1, <2>1, <2>2, <2>4
<1>3. \A s \in Stmt : (s \in Using)' <=> s \in Using
      BY <1>1 DEF Using, InUse, Situation, connVars
<1>4. \A s \in Stmt : s \in Using => obj[s].handle \in StmtHandle
      BY DEF HandleInv, HandlesOwned, TypeOK, Using
<1>5. TypeOK'
      BY TypeOKStep DEF HandleInv, Next
<1>6. HandlesOwned'
      <2>1. \A s \in Stmt : (s \in Using)' =>
              obj'[s].handle # NULL /\ drv'[obj'[s].handle].on = obj'[s].conn
            BY <1>1, <1>2, <1>3, <1>4 DEF HandleInv, HandlesOwned
      <2>2. \A s, t \in Stmt : (s \in Using)' /\ (t \in Using)' /\ s # t =>
              obj'[s].handle # obj'[t].handle
            BY <1>1, <1>3 DEF HandleInv, HandlesOwned
      <2>3. \A k \in StmtHandle : drv'[k] # Free /\ drv'[k].busy = "no" =>
              \E s \in Stmt : (s \in Using)' /\ obj'[s].handle = k
            BY <1>1, <1>2, <1>3 DEF HandleInv, HandlesOwned, Using
      <2>4. QED
            BY <2>1, <2>2, <2>3 DEF HandlesOwned, Using, Free, NewHandle
<1>7. HandleInv'
      <2>1. (\A k \in StmtHandle : drv[k] # Free => drv[k].on \in Conn /\ connected[drv[k].on])'
            BY <1>1, <1>2 DEF HandleInv, connVars, Free, NewHandle
      <2>2. (\A s \in Stmt : told[s] \in Event => s \in Using /\ drv[obj[s].handle].busy # "no")'
            BY <1>1, <1>2, <1>3, <1>4 DEF HandleInv
      <2>3. QED
            BY <1>1, <1>5, <1>6, <2>1, <2>2 DEF HandleInv
<1>8. ASSUME NEW s \in Stmt
      PROVE  /\ InUse(Situation(s))' <=> InUse(Situation(s))
             /\ InUse(Situation(s)) =>
                  /\ Own(Situation(s))'.mode = Own(Situation(s)).mode
                  /\ Own(Situation(s))'.event = Own(Situation(s)).event
                  /\ Own(Situation(s))'.busy = "no" <=> Own(Situation(s)).busy = "no"
             /\ Situation(s).o' = Situation(s).o
      <2>1. (s \in Using)' <=> s \in Using
            BY <1>3
      <2>2. Situation(s).o' = Situation(s).o /\ Situation(s).o = obj[s]
            BY <1>1 DEF Situation
      <2>3. Own(Situation(s))' = drv'[obj'[s].handle] /\ Own(Situation(s)) = drv[obj[s].handle]
            BY DEF Own, Situation
      <2>4. (InUse(Situation(s))' <=> (s \in Using)') /\ (InUse(Situation(s)) <=> s \in Using)
            BY DEF Using
      <2>5. QED
            BY <1>1, <1>2, <1>4, <2>1, <2>2, <2>3, <2>4
<1>9. AnswerInv => AnswerInv'
      BY <1>1, <1>8 DEF AnswerInv, Answered
<1>10. EventInv => EventInv'
      <2>1. AllLost' <=> AllLost
            BY <1>1 DEF AllLost, connVars
      <2>2. QED
            BY <1>1, <1>8, <2>1 DEF EventInv, Awaits, Synced, connVars
<1>11. QED
      BY <1>7, <1>9, <1>10

\* The invariants are about the variables.
LEMMA UnchangedKeeps ==
  ASSUME UNCHANGED vars
  PROVE  /\ HandleInv => HandleInv'
         /\ AnswerInv => AnswerInv'
         /\ EventInv => EventInv'
<1>1. HandleInv => HandleInv'
      BY DEF vars, connVars, HandleInv, TypeOK, HandlesOwned, Using, InUse, Situation
<1>2. AnswerInv => AnswerInv'
      BY DEF vars, connVars, AnswerInv, Answered, InUse, Situation, Own
<1>3. EventInv => EventInv'
      BY DEF vars, connVars, EventInv, Awaits, AllLost, InUse, Situation, Own, Synced
<1>4. QED
      BY <1>1, <1>2, <1>3

\* Every step of a statement has a sound outcome.
LEMMA EveryMove ==
  ASSUME HandleInv, Disciplined, NEW s \in Stmt,
         \/ Construct(s) \/ OpenStatement(s) \/ CloseStatement(s) \/ CancelStatement(s)
         \/ PrepareStatement(s) \/ PrepareStatementOn(s)
         \/ ExecuteStatement(s) \/ ExecuteStatementDirect(s)
         \/ Complete(s) \/ Destroy(s)
  PROVE  Moves(s)
  BY ConstructMoves, OpenMoves, CloseMoves, CancelMoves, CallMoves, CompleteMoves,
     DestroyMoves DEF Disciplined

\* The invariants hold before the first step.
LEMMA InvariantsInit ==
  Init => HandleInv /\ AnswerInv /\ EventInv
<1> SUFFICES ASSUME Init PROVE HandleInv /\ AnswerInv /\ EventInv
    OBVIOUS
<1>1. \A s \in Stmt : /\ obj[s] = NewObject /\ told[s] = "unborn" /\ s \notin Using
                      /\ ~InUse(Situation(s)) /\ Situation(s).o.event = NULL
      BY DEF Init, Using, InUse, Situation, NewObject
<1>2. HandlesOwned
      BY <1>1 DEF HandlesOwned, Init, Using
<1>3. HandleInv
      BY <1>1, <1>2, TypeOKInit, EventAssumption DEF HandleInv, Init, NewObject
<1>4. AnswerInv
      BY <1>1 DEF AnswerInv, Answered
<1>5. EventInv
      BY <1>1, EventAssumption DEF EventInv, Awaits, Init
<1>6. QED
      BY <1>3, <1>4, <1>5

\* Every step keeps them, the second and the third under their conditions.
LEMMA InvariantsStep ==
  ASSUME HandleInv, Disciplined, [Next]_vars
  PROVE  /\ HandleInv'
         /\ AnswerInv /\ TRUE \notin PrepareTimeouts => AnswerInv'
         /\ EventInv /\ OpensOnce => EventInv'
<1>1. ASSUME NEW s \in Stmt, Moves(s)
      PROVE  /\ HandleInv'
             /\ AnswerInv /\ TRUE \notin PrepareTimeouts => AnswerInv'
             /\ EventInv /\ OpensOnce => EventInv'
      BY <1>1, OutcomeKeeps, OutcomeAnswers, OutcomeAwaits DEF Moves
<1>2. ASSUME NEW c \in Conn, Connect(c) \/ Disconnect(c)
      PROVE  /\ HandleInv' /\ (AnswerInv => AnswerInv')
             /\ EventInv /\ OpensOnce => EventInv'
      BY <1>2, LinkKeeps, LinkAwaits DEF Disciplined
<1>3. QED
      BY <1>1, <1>2, EveryMove, DriverKeeps, UnchangedKeeps DEF Next

\* Each statement in use has a handle of its own, on the connection it names,
\* and no handle of a standing link is without one but for a call in progress:
\* for every set of methods and every set of failing calls but the freeing one.
THEOREM HandlesAreOwned ==
  ASSUME Disciplined
  PROVE  Spec => []HandlesOwned
<1>1. HandleInv /\ [Next]_vars => HandleInv'
      BY InvariantsStep
<1>2. HandleInv => HandlesOwned
      BY DEF HandleInv
<1>3. QED
      BY <1>1, <1>2, InvariantsInit, PTL DEF Spec

\* No method returns, or throws, with a call in progress on its handle but to a
\* caller it told to wait, unless a prepare() has a timeout.
THEOREM CallsAreDone ==
  ASSUME Disciplined, TRUE \notin PrepareTimeouts
  PROVE  Spec => []DoneUnlessAwaited
<1>1. HandleInv /\ AnswerInv /\ [Next]_vars => HandleInv' /\ AnswerInv'
      BY InvariantsStep
<1>2. HandleInv /\ AnswerInv => DoneUnlessAwaited
      BY DEF AnswerInv, Answered, DoneUnlessAwaited, Using
<1>3. QED
      BY <1>1, <1>2, InvariantsInit, PTL DEF Spec

\* While no statement is opened twice, the event a caller waits for is the one
\* its handle signals.
THEOREM AwaitedEventIsSet ==
  ASSUME Disciplined, OpensOnce
  PROVE  Spec => []AwaitedIsSet
<1>1. HandleInv /\ EventInv /\ [Next]_vars => HandleInv' /\ EventInv'
      BY InvariantsStep
<1>2. HandleInv /\ EventInv => AwaitedIsSet
      BY DEF EventInv, Awaits, Synced, AwaitedIsSet, Using, Situation, Own,
             HandleInv, HandlesOwned
<1>3. QED
      BY <1>1, <1>2, InvariantsInit, PTL DEF Spec

\* A statement that is not constructed is not open.
Unborn == \A s \in Stmt : told[s] = "unborn" => ~obj[s].open

\* Only the destructor and a constructor that throws end a statement, and no
\* method makes it unborn again.
LEMMA EndOfStatement ==
  ASSUME TypeOK, Unborn, [Next]_vars, NEW s \in Stmt
  PROVE  /\ told'[s] = "unborn" => told[s] = "unborn" /\ obj'[s] = obj[s]
         /\ told'[s] = "gone" /\ told[s] # "gone" => Destroy(s) \/ told[s] = "unborn"
<1> DEFINE Goal == /\ told'[s] = "unborn" => told[s] = "unborn" /\ obj'[s] = obj[s]
                   /\ told'[s] = "gone" /\ told[s] # "gone" =>
                        Destroy(s) \/ told[s] = "unborn"
<1>1. ASSUME NEW t \in Stmt, NEW op, NEW e \in Event \cup {NULL}, NEW xs, Does(t, op, e, xs)
      PROVE  Goal
      <2>1. PICK x \in xs :
              /\ obj' = [obj EXCEPT ![t] = x.o]
              /\ told' = [told EXCEPT ![t] =
                            IF x.end = "threw" THEN "threw" ELSE
                            IF x.end = "pending" /\ e # NULL THEN e ELSE "returned"]
            BY <1>1 DEF Does
      <2>2. CASE s # t
            BY <2>1, <2>2 DEF TypeOK
      <2>3. CASE s = t
            <3>1. told'[s] \in {"threw", "returned"} \cup Event
                  BY <2>1, <2>3 DEF TypeOK
            <3>2. QED
                  BY <3>1, EventAssumption
      <2>4. QED
            BY <2>2, <2>3
<1>2. ASSUME NEW t \in Stmt, CloseStatement(t) PROVE Goal
      <2>1. PICK x \in Close(Situation(t)) :
              /\ obj' = [obj EXCEPT ![t] = x.o]
              /\ told' = [told EXCEPT ![t] = IF x.end = "threw" THEN @ ELSE "returned"]
            BY <1>2 DEF CloseStatement
      <2>2. CASE s # t
            BY <2>1, <2>2 DEF TypeOK
      <2>3. CASE s = t /\ told[s] = "unborn"
            <3>1. ~InUse(Situation(t))
                  BY <2>3 DEF Unborn, InUse, Situation
            <3>2. x.end = "returned"
                  BY <2>1, <3>1 DEF Close, Closed, Situation
            <3>3. QED
                  BY <2>1, <2>3, <3>2 DEF TypeOK
      <2>4. CASE s = t /\ told[s] # "unborn"
            BY <2>1, <2>4 DEF TypeOK
      <2>5. QED
            BY <2>2, <2>3, <2>4
<1>3. ASSUME NEW t \in Stmt, Construct(t) PROVE Goal
      <2>1. \E y : /\ obj' = [obj EXCEPT ![t] = y.o]
                   /\ told' = [told EXCEPT ![t] =
                                 IF y.end = "threw" THEN "gone" ELSE "returned"]
            BY <1>3 DEF Construct
      <2>2. told[t] = "unborn"
            BY <1>3 DEF Construct
      <2>3. QED
            BY <2>1, <2>2 DEF TypeOK
<1>4. ASSUME NEW t \in Stmt, Destroy(t) PROVE Goal
      BY <1>4 DEF Destroy, Ends, TypeOK
<1>5. CASE UNCHANGED <<obj, told>>
      BY <1>5
<1>6. ASSUME NEW t \in Stmt,
             \/ OpenStatement(t) \/ PrepareStatement(t) \/ PrepareStatementOn(t)
             \/ ExecuteStatement(t) \/ ExecuteStatementDirect(t) \/ Complete(t)
      PROVE  Goal
      <2>1. \E op, xs : \E e \in Event \cup {NULL} : Does(t, op, e, xs)
            <3>1. CASE OpenStatement(t)
                  BY <3>1 DEF OpenStatement
            <3>2. CASE PrepareStatement(t)
                  BY <3>2 DEF PrepareStatement
            <3>3. CASE PrepareStatementOn(t)
                  BY <3>3 DEF PrepareStatementOn
            <3>4. CASE ExecuteStatement(t)
                  BY <3>4 DEF ExecuteStatement
            <3>5. CASE ExecuteStatementDirect(t)
                  BY <3>5 DEF ExecuteStatementDirect
            <3>6. CASE Complete(t)
                  BY <3>6 DEF Complete
            <3>7. QED
                  BY <1>6, <3>1, <3>2, <3>3, <3>4, <3>5, <3>6
      <2>2. QED
            BY <1>1, <2>1
<1>7. ASSUME \/ \E t \in Stmt : CancelStatement(t)
             \/ \E c \in Conn : Connect(c) \/ Disconnect(c)
             \/ \E k \in StmtHandle : DriverFinishes(k)
             \/ UNCHANGED vars
      PROVE  UNCHANGED <<obj, told>>
      BY <1>7 DEF CancelStatement, Connect, Disconnect, DriverFinishes, vars
<1>8. QED
      BY <1>2, <1>3, <1>4, <1>5, <1>6, <1>7 DEF Next

\* Cancelling leaves an idle handle as it is, and freeing it is not refused.
LEMMA IdleIsFreed ==
  ASSUME TypeOK, "free" \notin Faults, NEW s \in Stmt, Destroy(s), s \in Using,
         Idle(Situation(s))
  PROVE  drv'[obj[s].handle] = Free
<1> DEFINE x == Situation(s)
<1>1. x \in Situations /\ x.o = obj[s] /\ InUse(x) /\ Idle(x)
      BY TypedSituation DEF Using, Running
<1>2. PICK y \in CancelCall(x) : \E z \in FreeCall(y) : drv' = z.d
      BY <1>1 DEF Destroy, Ends
<1>3. PICK z \in FreeCall(y) : drv' = z.d
      BY <1>2
<1> HIDE DEF x
<1>4. y = x \/ y = Threw(x)
      BY <1>1, <1>2 DEF CancelCall, FailsAt, Idle
<1>5. y.o = x.o /\ y.d = x.d /\ y \in Situations
      BY <1>1, <1>4, ThrewTouches DEF Touches
<1>6. z = On(y, Free)
      BY <1>1, <1>5 DEF FreeCall, Call, FailsAt, Idle, Known, Own
<1>7. y.o.handle = obj[s].handle /\ y.o.handle \in StmtHandle
      BY <1>1, <1>5 DEF Idle, Known, Situations, Object
<1>8. z.d = [y.d EXCEPT ![y.o.handle] = Free]
      BY <1>5, <1>6 DEF On, Situations
<1>9. QED
      BY <1>3, <1>5, <1>7, <1>8 DEF Situations

\* The destructor frees the handle in use if no call is in progress on it,
\* whatever the program did before and whatever comes of the cancelling.
THEOREM DestructorFrees ==
  ASSUME "free" \notin Faults
  PROVE  Spec => DestructionFrees
<1>1. Init => TypeOK /\ Unborn
      BY TypeOKInit DEF Init, Unborn, NewObject
<1>2. TypeOK /\ Unborn /\ [Next]_vars => TypeOK' /\ Unborn'
      BY TypeOKStep, EndOfStatement DEF Unborn
<1>3. ASSUME TypeOK, Unborn, [Next]_vars, NEW s \in Stmt,
             told'[s] = "gone", Alive(s), s \in Using, Idle(Situation(s))
      PROVE  drv'[obj[s].handle] = Free
      <2>1. told[s] # "unborn"
            BY <1>3 DEF Unborn, Using, InUse, Situation
      <2>2. Destroy(s)
            BY <1>3, <2>1, EndOfStatement DEF Alive
      <2>3. QED
            BY <1>3, <2>2, IdleIsFreed
<1>4. TypeOK /\ Unborn /\ [Next]_vars =>
        [\A s \in Stmt :
           told'[s] = "gone" /\ Alive(s) /\ s \in Using /\ Idle(Situation(s))
           => drv'[obj[s].handle] = Free]_vars
      BY <1>3
<1>5. QED
      BY <1>1, <1>2, <1>4, PTL DEF Spec, DestructionFrees
=============================================================================
