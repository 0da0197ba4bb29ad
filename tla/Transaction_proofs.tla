-------------------------- MODULE Transaction_proofs --------------------------
(***************************************************************************)
(* The handle discipline of a connection, for every set of handles; then   *)
(* the transaction counter and the unit of work it guards, for any number  *)
(* of transaction objects and any work.  Any combination of calls may      *)
(* fail.                                                                   *)
(***************************************************************************)
EXTENDS Transaction, FiniteSetTheorems, TLAPS

-----------------------------------------------------------------------------
(* The connection.                                                         *)

\* Before it is constructed the object has touched nothing.
Untouched ==
  obj = "unborn" =>
    /\ ~env /\ dbc = NULL /\ ~connected /\ ~envUp
    /\ \A h \in Handle : drv[h] = "free"

\* The handles the object holds, in the form the steps use: the table has one
\* entry in use, that of dbc_.
OneHandle ==
  obj = "alive" =>
    /\ \A h \in Handle : drv[h] # "free" <=> h = dbc
    /\ envUp = env
    /\ dbc # NULL => env

\* The half of connected() that lasts: no link is denied.  The other half is a
\* matter of steps, for one of them breaks it.
LinkKnown == obj = "alive" /\ HasLink => connected

ConnInv == ConnTypeOK /\ Untouched /\ LinkKnown /\ OneHandle

-----------------------------------------------------------------------------

\* A connect() that returns establishes what a living object needs, whatever
\* it found: it is the step of two actions, the other being a constructor.
LEMMA ReturnsEstablishes ==
  ASSUME ConnInv, obj \in {"unborn", "alive"}, obj' = "alive",
         NEW async \in BOOLEAN, ConnectReturns(async)
  PROVE  ConnInv'
<1> USE HandleAssumption
    DEF ConnInv, ConnTypeOK, HandleState, DbcState, HasLink
<1>1. PICK h \in Handle, s \in {"open", "connecting"} :
        /\ FreshHandle(h, s)
        /\ connected' \in BOOLEAN /\ (connected' <=> s = "open")
      BY DEF ConnectReturns
<1>2. asyncOn' = async /\ link' \in Nat
      BY DEF ConnectReturns
<1>3. /\ Freed \in [Handle -> HandleState]
      /\ \A g \in Handle : Freed[g] # "free" => g # dbc /\ drv[g] # "free"
      BY DEF Freed
<1>4. \A g \in Handle : Freed[g] = "free"
      BY <1>3 DEF Untouched, OneHandle
<1>5. /\ dbc' = h
      /\ drv' = [g \in Handle |-> IF g = h THEN s ELSE "free"]
      BY <1>1, <1>3, <1>4 DEF FreshHandle
<1>6. ConnTypeOK'
      BY <1>1, <1>2, <1>5 DEF FreshHandle
<1>7. /\ Untouched'
      /\ LinkKnown'
      /\ OneHandle'
      BY <1>1, <1>5 DEF FreshHandle, Untouched, LinkKnown, OneHandle
<1>8. QED
      BY <1>6, <1>7

\* The initial state satisfies the inductive invariant.
LEMMA InitEstablishes == ConnInit => ConnInv
<1> SUFFICES ASSUME ConnInit PROVE ConnInv
    OBVIOUS
<1> USE DEF ConnInit
<1>1. ConnTypeOK
      BY DEF ConnTypeOK, HandleState
<1>2. Untouched
      BY DEF Untouched
<1>3. LinkKnown /\ OneHandle
      BY DEF LinkKnown, OneHandle
<1>4. QED
      BY <1>1, <1>2, <1>3 DEF ConnInv

\* Every step of the connection preserves the inductive invariant.
LEMMA StepPreserves == ConnInv /\ [ConnNext]_connVars => ConnInv'
<1> SUFFICES ASSUME ConnInv, [ConnNext]_connVars PROVE ConnInv'
    OBVIOUS
<1> USE HandleAssumption, AsyncAssumption
    DEF ConnInv, ConnTypeOK, Untouched, LinkKnown, OneHandle, HasLink,
        HandleState, handleVars, connVars, DbcState, May
<1>1. CASE ConstructIdle
      BY <1>1 DEF ConstructIdle
<1>2. ASSUME NEW async \in AsyncModes, ConstructConnected(async) PROVE ConnInv'
      <2>1. async \in BOOLEAN
            OBVIOUS
      <2>2. QED
            BY <1>2, <2>1, ReturnsEstablishes DEF ConstructConnected
<1>3. CASE ConstructThrows
      BY <1>3 DEF ConstructThrows, FreshHandle, Freed
<1>4. ASSUME NEW async \in AsyncModes, Connect(async) PROVE ConnInv'
      <2> async \in BOOLEAN
          OBVIOUS
      <2>1. CASE ConnectNoEnv
            BY <1>4, <2>1 DEF Connect, ConnectNoEnv
      <2>2. CASE ConnectNotClosed
            BY <1>4, <2>2 DEF Connect, ConnectNotClosed, DisconnectThrows
      <2>3. CASE ConnectNotFreed
            BY <1>4, <2>3 DEF Connect, ConnectNotFreed, Disconnects, Released, Freeable
      <2>4. CASE ConnectNoHandle
            BY <1>4, <2>4 DEF Connect, ConnectNoHandle, Released, Freeable, Freed
      <2>5. CASE ConnectRefused(async)
            BY <1>4, <2>5
            DEF Connect, ConnectRefused, Released, Freeable, Freed, FreshHandle
      <2>6. CASE ConnectReturns(async)
            BY <1>4, <2>6, ReturnsEstablishes DEF Connect
      <2>7. QED
            BY <1>4, <2>1, <2>2, <2>3, <2>4, <2>5, <2>6 DEF Connect
<1>5. CASE Disconnect
      BY <1>5 DEF Disconnect, DisconnectThrows, Disconnects
<1>6. CASE Allocate
      BY <1>6 DEF Allocate
<1>7. CASE Deallocate
      <2>1. connected' = connected /\ obj = "alive" /\ obj' = "alive"
            BY <1>7 DEF Deallocate
      <2>2. /\ dbc' = NULL
            /\ drv' \in [Handle -> HandleState]
            /\ \A h \in Handle : drv'[h] = "free"
            BY <1>7 DEF Deallocate, Freed
      <2>3. asyncOn' = FALSE /\ link' = link
            BY <1>7 DEF Deallocate
      <2>4. env' \in BOOLEAN /\ envUp' = env'
            BY <1>7 DEF Deallocate
      <2>5. QED
            BY <2>1, <2>2, <2>3, <2>4
<1>8. CASE DriverArrives
      BY <1>8 DEF DriverArrives
<1>9. CASE AsyncComplete
      <2>1. dbc \in Handle /\ obj = "alive" /\ UNCHANGED <<obj, env, dbc, envUp>>
            BY <1>9 DEF AsyncComplete
      <2>2. CASE CompletesWell
            <3>1. PICK s \in {"open", "allocated"} : drv' = [drv EXCEPT ![dbc] = s]
                  BY <2>2 DEF CompletesWell
            <3>2. connected' = TRUE /\ link' \in Nat
                  BY <2>2 DEF CompletesWell
            <3>3. asyncOn' = FALSE \/ asyncOn' = asyncOn
                  BY <2>2 DEF CompletesWell
            <3>4. asyncOn' \in BOOLEAN
                  BY <3>3, Zenon
            <3>5. ConnTypeOK'
                  BY <2>1, <3>1, <3>2, <3>4
            <3>6. /\ drv[dbc] # "free" /\ drv'[dbc] # "free"
                  /\ \A h \in Handle \ {dbc} : drv'[h] = drv[h]
                  BY <2>1, <3>1
            <3>7. (Untouched /\ LinkKnown /\ OneHandle)'
                  BY <2>1, <3>2, <3>6
            <3>8. QED
                  BY <3>5, <3>7
      <2>3. CASE CompletesIll
            BY <2>1, <2>3 DEF CompletesIll
      <2>4. CASE CompletesNothing
            BY <2>1, <2>4 DEF CompletesNothing
      <2>5. QED
            BY <1>9, <2>2, <2>3, <2>4 DEF AsyncComplete
<1>10. CASE Destroy
      BY <1>10
      DEF Destroy, DestroyRefused, DestroyFails, DestroyFrees, DisconnectThrows, Disconnects,
          Released, Freeable, ReleasedAtEnd, StillClaimed, Freed
<1>11. CASE UNCHANGED connVars
      BY <1>11
<1>12. QED
      BY <1>1, <1>2, <1>3, <1>4, <1>5, <1>6, <1>7, <1>8, <1>9, <1>10, <1>11
      DEF ConnNext

\* The inductive invariant holds throughout.
LEMMA ConnInvariant == ConnSpec => []ConnInv
<1>1. ConnInit => ConnInv
      BY InitEstablishes
<1>2. ConnInv /\ [ConnNext]_connVars => ConnInv'
      BY StepPreserves
<1>3. QED
      BY <1>1, <1>2, PTL DEF ConnSpec

\* Type correctness of the connection, for every Handle and every Faults.
THEOREM ConnTypeCorrect == ConnSpec => []ConnTypeOK
<1>1. ConnInv => ConnTypeOK
      BY DEF ConnInv
<1>2. QED
      BY <1>1, ConnInvariant, PTL

\* No call sequence and no combination of failing calls makes a living
\* connection leak a handle or hold a freed one.
THEOREM HandlesAlwaysHeld == ConnSpec => []HandlesHeld
<1>1. ConnInv => HandlesHeld
      BY HandleAssumption DEF ConnInv, ConnTypeOK, OneHandle, HandlesHeld, Live, Held
<1>2. QED
      BY <1>1, ConnInvariant, PTL

\* connected() is the truth but for one call: no step denies a link, and none
\* but an async_complete() that completes a disconnect() starts to claim one
\* that is gone.
THEOREM ConnectedIsTrue == ConnSpec => ConnectedMeansOpen
<1>1. ASSUME ConnInv, ConnInv', [ConnNext]_connVars, obj' = "alive"
      PROVE  /\ HasLink' => connected'
             /\ connected' => \/ HasLink'
                              \/ connected /\ ~HasLink
                              \/ DbcState = "closed" /\ DbcState' = "allocated"
      <2>1. HasLink' => connected'
            BY <1>1 DEF ConnInv, LinkKnown
      <2>2. SUFFICES ASSUME connected', ~HasLink', ~(connected /\ ~HasLink)
                     PROVE  DbcState = "closed" /\ DbcState' = "allocated"
            BY <2>1
      <2> USE <1>1, <2>2, HandleAssumption
          DEF ConnInv, ConnTypeOK, OneHandle, HasLink, DbcState, HandleState
      <2>3. ~UNCHANGED connVars /\ ~ConstructIdle /\ ~ConstructThrows /\ ~Destroy
            BY DEF connVars, handleVars, ConstructIdle, ConstructThrows, Destroy,
                   DestroyRefused, DestroyFails, DestroyFrees, Untouched
      <2>4. ASSUME NEW async \in AsyncModes PROVE ~ConnectReturns(async)
            BY DEF ConnectReturns, FreshHandle, Freed
      <2>5. ASSUME NEW async \in AsyncModes PROVE ~Connect(async)
            BY <2>4
            DEF Connect, ConnectNoEnv, ConnectNotClosed, ConnectNotFreed, ConnectNoHandle,
                ConnectRefused, DisconnectThrows, handleVars
      <2>6. ~Disconnect /\ ~Allocate /\ ~DriverArrives
            BY DEF Disconnect, DisconnectThrows, Allocate, DriverArrives
      <2>7. ~Deallocate
            BY DEF Deallocate, Freeable
      <2>8. AsyncComplete
            BY <2>3, <2>4, <2>5, <2>6, <2>7 DEF ConnNext, ConstructConnected
      <2>9. QED
            BY <2>8 DEF AsyncComplete, CompletesWell, CompletesIll, CompletesNothing
<1>2. QED
      BY <1>1, ConnInvariant, PTL DEF ConnSpec, ConnectedMeansOpen

\* Destroying a connection with nothing in flight and no failing call frees
\* both handles, whatever happened to the object before.
THEOREM DestructorFrees == ConnSpec => DestructionFrees
<1>1. ASSUME ConnInv, [ConnNext]_connVars,
             obj = "alive", obj' = "dead", ~InFlight
      PROVE  Live' = {} /\ ~envUp'
      <2> USE HandleAssumption DEF ConnInv, ConnTypeOK
      <2>1. Destroy
            BY <1>1
            DEF ConnNext, connVars, ConstructIdle, ConstructConnected,
                ConstructThrows, Connect, Disconnect, Allocate, Deallocate,
                DriverArrives, AsyncComplete
      <2>2. DestroyRefused \/ DestroyFrees
            BY <1>1, <2>1 DEF Destroy, DestroyFails
      <2>3. ~DestroyRefused
            BY <1>1
            DEF DestroyRefused, InFlight, LinkKnown, HasLink, OneHandle,
                DbcState, Released, ReleasedAtEnd, Freeable, HandleState
      <2>4. DestroyFrees
            BY <2>2, <2>3
      <2>5. ~envUp' /\ drv' = Freed
            BY <2>4 DEF DestroyFrees
      <2>6. \A h \in Handle : Freed[h] = "free"
            BY <1>1 DEF Freed, OneHandle
      <2>7. QED
            BY <2>5, <2>6 DEF Live
<1>2. QED
      BY <1>1, ConnInvariant, PTL DEF ConnSpec, DestructionFrees

-----------------------------------------------------------------------------
(* Transactions.                                                           *)

\* Type correctness of what Transaction adds to Connection.
TxnTypeOK ==
  /\ transactions \in Nat /\ rollback \in BOOLEAN
  /\ status \in [Txn -> {"unborn", "open", "committed", "failed", "gone", "lost"}]
  /\ manual \in BOOLEAN
  /\ pending \subseteq Work /\ durable \subseteq Work

TxnInv == TxnTypeOK /\ CountsOpen

-----------------------------------------------------------------------------
(* Counting.                                                               *)

\* The open transactions are finitely many, now and after the step.
LEMMA OpenFinite == IsFiniteSet(Open) /\ IsFiniteSet(Open')
  BY TxnAssumption, FS_Subset DEF Open

\* One object more is open: the counter goes up by one.
LEMMA OneOpens ==
  ASSUME TxnInv, NEW t \in Txn, status[t] # "open",
         status' = [status EXCEPT ![t] = "open"],
         transactions' = transactions + 1
  PROVE  CountsOpen'
<1>1. Open' = Open \cup {t} /\ t \notin Open
      BY DEF Open, TxnInv, TxnTypeOK
<1>2. Cardinality(Open \cup {t}) = Cardinality(Open) + 1
      BY <1>1, OpenFinite, FS_AddElement
<1>3. QED
      BY <1>1, <1>2 DEF CountsOpen, TxnInv

\* One object less is open: the counter was positive, and unref_transaction
\* takes it down by one.
LEMMA OneCloses ==
  ASSUME TxnInv, NEW t \in Txn, status[t] = "open",
         NEW s \in {"committed", "failed", "gone", "lost"},
         status' = [status EXCEPT ![t] = s]
  PROVE  /\ transactions > 0
         /\ transactions' = Unref => CountsOpen'
<1>1. Open' = Open \ {t} /\ t \in Open
      BY DEF Open, TxnInv, TxnTypeOK
<1>2. /\ Cardinality(Open \ {t}) = Cardinality(Open) - 1
      /\ Cardinality(Open) \in Nat /\ Cardinality(Open) # 0
      BY <1>1, OpenFinite, FS_RemoveElement, FS_CardinalityType, FS_EmptySet
<1>3. transactions > 0
      BY <1>2 DEF CountsOpen, TxnInv
<1>4. QED
      BY <1>1, <1>2, <1>3 DEF CountsOpen, TxnInv, Unref

\* The same objects are open: the counter stays.
LEMMA NoneMoves ==
  ASSUME TxnInv, Open' = Open, transactions' = transactions
  PROVE  CountsOpen'
  BY DEF TxnInv, CountsOpen

\* At count zero no transaction is open.
LEMMA ZeroMeansNone ==
  ASSUME TxnInv
  PROVE  transactions = 0 <=> Open = {}
<1>1. Cardinality(Open) = 0 <=> Open = {}
      BY OpenFinite, FS_EmptySet
<1>2. QED
      BY <1>1 DEF TxnInv, CountsOpen

-----------------------------------------------------------------------------
(* The invariant.                                                          *)

\* The initial state satisfies the invariant.
LEMMA TxnInit == Init => TxnInv
<1> SUFFICES ASSUME Init PROVE TxnInv
    OBVIOUS
<1>1. transactions \in Nat /\ rollback \in BOOLEAN /\ manual \in BOOLEAN
      BY DEF Init
<1>2. status \in [Txn -> {"unborn", "open", "committed", "failed", "gone", "lost"}]
      BY DEF Init
<1>3. /\ pending \subseteq Work /\ durable \subseteq Work
      BY DEF Init
<1>4. Open = {}
      BY DEF Init, Open
<1>5. CountsOpen
      BY <1>4, FS_EmptySet DEF Init, CountsOpen
<1>6. QED
      BY <1>1, <1>2, <1>3, <1>5 DEF TxnInv, TxnTypeOK

\* Every step of the objects, of the program or of the connection preserves
\* the invariant.
LEMMA TxnStep == TxnInv /\ [Next]_vars => TxnInv'
<1> SUFFICES ASSUME TxnInv, [Next]_vars PROVE TxnInv'
    OBVIOUS
<1> USE DEF TxnInv
<1>1. ASSUME NEW t \in Txn, Begin(t) PROVE TxnInv'
      <2>1. TxnTypeOK'
            <3>1. manual' \in BOOLEAN
                  BY <1>1 DEF Begin, TxnTypeOK
            <3>2. QED
                  BY <1>1, <3>1 DEF Begin, TxnTypeOK
      <2>2. CountsOpen'
            BY <1>1, OneOpens DEF Begin
      <2>3. QED
            BY <2>1, <2>2
<1>2. ASSUME NEW t \in Txn, BeginThrows(t) PROVE TxnInv'
      <2>1. TxnTypeOK'
            BY <1>2 DEF BeginThrows, TxnTypeOK, dbVars
      <2>2. Open' = Open /\ transactions' = transactions
            BY <1>2 DEF BeginThrows, Open, TxnTypeOK
      <2>3. QED
            BY <2>1, <2>2, NoneMoves
<1>3. ASSUME NEW t \in Txn, Commit(t) PROVE TxnInv'
      <2>1. TxnTypeOK'
            BY <1>3 DEF Commit, TxnTypeOK, Unref
      <2>2. CountsOpen'
            BY <1>3, OneCloses DEF Commit
      <2>3. QED
            BY <2>1, <2>2
<1>4. ASSUME NEW t \in Txn, CommitThrows(t) PROVE TxnInv'
      <2>1. TxnTypeOK'
            BY <1>4 DEF CommitThrows, TxnTypeOK, dbVars
      <2>2. transactions' = Unref
            BY <1>4 DEF CommitThrows, ReleasesLast
      <2>3. CountsOpen'
            BY <1>4, <2>2, OneCloses DEF CommitThrows
      <2>4. QED
            BY <2>1, <2>3
<1>5. ASSUME NEW t \in Txn, MarkRollback(t) PROVE TxnInv'
      BY <1>5, NoneMoves DEF MarkRollback, TxnTypeOK, dbVars, Open
<1>6. ASSUME NEW t \in Txn, End(t) PROVE TxnInv'
      <2>1. TxnTypeOK'
            <3>1. transactions' \in Nat
                  BY <1>6 DEF End, CountAfter, Unref, TxnTypeOK
            <3>2. rollback' \in BOOLEAN
                  BY <1>6 DEF End, MarkedBy, TxnTypeOK
            <3>3. manual' \in BOOLEAN
                  BY <1>6 DEF End, Finish, FinishIgnored, AutocommitOn, AutocommitStays, TxnTypeOK
            <3>4. pending' \subseteq Work /\ durable' \subseteq Work
                  BY <1>6 DEF End, Finish, FinishIgnored, AutocommitOn, AutocommitStays, TxnTypeOK
            <3>5. QED
                  BY <1>6, <3>1, <3>2, <3>3, <3>4 DEF End, TxnTypeOK
      <2>2. CASE status[t] = "open"
            <3>1. transactions' = Unref
                  BY <1>6, <2>2 DEF End, CountAfter
            <3>2. CountsOpen'
                  BY <1>6, <2>2, <3>1, OneCloses DEF End
            <3>3. QED
                  BY <2>1, <3>2
      <2>3. CASE status[t] # "open"
            <3>1. Open' = Open /\ transactions' = transactions
                  BY <1>6, <2>3 DEF End, CountAfter, Open, TxnTypeOK
            <3>2. QED
                  BY <2>1, <3>1, NoneMoves
      <2>4. QED
            BY <2>2, <2>3
<1>7. ASSUME NEW w \in Work, Execute(w)
      PROVE  TxnInv'
      <2>1. TxnTypeOK'
            BY <1>7 DEF Execute, TxnTypeOK, txnVars
      <2>2. Open' = Open /\ transactions' = transactions
            BY <1>7 DEF Execute, txnVars, Open
      <2>3. QED
            BY <2>1, <2>2, NoneMoves
<1>8. CASE ConnectionStep
      <2>1. TxnTypeOK'
            BY <1>8 DEF ConnectionStep, LinkStep, TxnTypeOK, txnVars
      <2>2. Open' = Open /\ transactions' = transactions
            BY <1>8 DEF ConnectionStep, txnVars, Open
      <2>3. QED
            BY <2>1, <2>2, NoneMoves
<1>9. CASE UNCHANGED vars
      BY <1>9, NoneMoves DEF vars, txnVars, dbVars, TxnTypeOK, Open
<1>10. QED
      BY <1>1, <1>2, <1>3, <1>4, <1>5, <1>6, <1>7, <1>8, <1>9 DEF Next

\* A step of the composition is a step of the connection, or leaves it alone.
LEMMA StepOfConnection == [Next]_vars => [ConnNext]_connVars
  BY DEF Next, vars, Begin, BeginThrows, Commit, CommitThrows, MarkRollback,
         End, Execute, ConnectionStep

\* Both invariants hold throughout.
LEMMA Invariants == Spec => [](ConnInv /\ TxnInv)
<1>1. Init => ConnInv /\ TxnInv
      BY InitEstablishes, TxnInit DEF Init
<1>2. ConnInv /\ TxnInv /\ [Next]_vars => (ConnInv /\ TxnInv)'
      BY StepPreserves, StepOfConnection, TxnStep
<1>3. QED
      BY <1>1, <1>2, PTL DEF Spec

\* Type correctness of the composition, for every value of the constants.
THEOREM TypeCorrect == Spec => []TypeOK
<1>1. ConnInv /\ TxnInv => TypeOK
      BY DEF ConnInv, TxnInv, TxnTypeOK, TypeOK
<1>2. QED
      BY <1>1, Invariants, PTL

\* transactions() is the number of objects neither committed nor destroyed,
\* for any number of objects and through every failure and reconnection.
THEOREM CountIsOpen == Spec => []CountsOpen
<1>1. ConnInv /\ TxnInv => CountsOpen
      BY DEF TxnInv
<1>2. QED
      BY <1>1, Invariants, PTL

-----------------------------------------------------------------------------
(* What the counter protects.                                              *)

\* If the program never connects inside a transaction, autocommit stays off
\* as long as one is open.
THEOREM ManualInside ==
  ASSUME ~ConnectsInside
  PROVE  Spec => []ManualWhileOpen
<1>1. Init => ManualWhileOpen
      BY DEF Init, ManualWhileOpen, Open
<1>2. TxnInv /\ TxnInv' /\ ManualWhileOpen /\ [Next]_vars => ManualWhileOpen'
      <2> SUFFICES ASSUME TxnInv, TxnInv', ManualWhileOpen, [Next]_vars,
                          connected', Open' # {}
                   PROVE  manual'
          BY DEF ManualWhileOpen
      <2>1. transactions' # 0
            <3>1. Cardinality(Open') # 0
                  BY OpenFinite, FS_EmptySet
            <3>2. QED
                  BY <3>1 DEF TxnInv, CountsOpen
      <2>2. ASSUME UNCHANGED <<connected, manual>>, Open' \subseteq Open
            PROVE  manual'
            BY <2>2 DEF ManualWhileOpen
      <2>3. ASSUME NEW t \in Txn, Begin(t) PROVE manual'
            <3>1. CASE transactions = 0
                  BY <2>3, <3>1 DEF Begin, connVars, handleVars
            <3>2. CASE transactions # 0
                  <4>1. Open # {}
                        BY <3>2, ZeroMeansNone
                  <4>2. UNCHANGED <<connected, manual>>
                        BY <2>3, <3>2 DEF Begin, connVars, handleVars
                  <4>3. QED
                        BY <4>1, <4>2 DEF ManualWhileOpen
            <3>3. QED
                  BY <3>1, <3>2
      <2>4. ASSUME NEW t \in Txn,
                   BeginThrows(t) \/ Commit(t) \/ CommitThrows(t) \/ MarkRollback(t)
            PROVE  manual'
            <3>1. UNCHANGED <<connected, manual>>
                  BY <2>4 DEF BeginThrows, Commit, CommitThrows, MarkRollback,
                              connVars, handleVars, dbVars
            <3>2. Open' \subseteq Open
                  BY <2>4 DEF BeginThrows, Commit, CommitThrows, MarkRollback,
                              Open, TxnInv, TxnTypeOK
            <3>3. QED
                  BY <2>2, <3>1, <3>2
      <2>5. ASSUME NEW t \in Txn, End(t) PROVE manual'
            <3>1. UNCHANGED connected
                  BY <2>5 DEF End, connVars, handleVars
            <3>2. ~EndsLast(t)
                  BY <2>1, <2>5 DEF End, EndsLast
            <3>3. UNCHANGED manual
                  BY <2>5, <3>2 DEF End
            <3>4. Open' \subseteq Open
                  BY <2>5 DEF End, Open, TxnInv, TxnTypeOK
            <3>5. QED
                  BY <2>2, <3>1, <3>3, <3>4
      <2>6. ASSUME NEW w \in Work, Execute(w)
            PROVE  manual'
            BY <2>2, <2>6 DEF Execute, connVars, handleVars, txnVars, Open
      <2>7. CASE ConnectionStep
            <3>1. Open' = Open /\ transactions' = transactions
                  BY <2>7 DEF ConnectionStep, txnVars, Open
            <3>2. SameLink
                  BY <2>1, <2>7, <3>1 DEF ConnectionStep
            <3>3. UNCHANGED <<connected, manual>>
                  BY <2>7, <3>2 DEF ConnectionStep, LinkStep, SameLink
            <3>4. QED
                  BY <2>2, <3>1, <3>3
      <2>8. CASE UNCHANGED vars
            BY <2>2, <2>8 DEF vars, connVars, handleVars, txnVars, dbVars, Open
      <2>9. QED
            BY <2>3, <2>4, <2>5, <2>6, <2>7, <2>8 DEF Next
<1>3. QED
      BY <1>1, <1>2, Invariants, PTL DEF Spec

\* Destroying the last open transaction without commit(), with no failure
\* that its destructor ignores, discards all pending work: the count it finds
\* at zero is the true one.
THEOREM UncommittedRollsBack == Spec => LastUncommittedRollsBack
<1>1. ASSUME TxnInv, [Next]_vars, NEW t \in Txn,
             status[t] = "open", status'[t] = "gone", transactions' = 0, connected
      PROVE  pending' = {} /\ durable' = durable
      <2>1. status[t] # status'[t] /\ status'[t] \notin {"committed", "failed"}
            BY <1>1
      <2>2. End(t)
            <3>1. ~UNCHANGED status
                  BY <2>1
            <3>2. PICK u \in Txn : Begin(u) \/ BeginThrows(u) \/ Commit(u)
                                   \/ CommitThrows(u) \/ End(u)
                  BY <1>1, <3>1
                  DEF Next, vars, txnVars, ConnectionStep, Execute, MarkRollback
            <3>3. u = t
                  BY <1>1, <2>1, <3>2
                  DEF Begin, BeginThrows, Commit, CommitThrows, End,
                      TxnInv, TxnTypeOK
            <3>4. QED
                  BY <1>1, <3>2, <3>3
                  DEF Begin, BeginThrows, Commit, CommitThrows, TxnInv, TxnTypeOK
      <2>3. QED
            BY <1>1, <2>2
            DEF End, EndsLast, MarkedBy, Finish, AutocommitOn, TxnInv, TxnTypeOK
<1>2. TxnInv /\ [Next]_vars =>
        [\A t \in Txn :
           /\ status[t] = "open" /\ status'[t] = "gone"
           /\ transactions' = 0 /\ connected
           => pending' = {} /\ durable' = durable]_vars
      BY <1>1
<1>3. QED
      BY <1>2, Invariants, PTL DEF Spec, LastUncommittedRollsBack

\* Why the connection is clean once quiet: work is pending in manual mode
\* only, a link is in manual mode only while it lasts, and only on account of
\* an object that is still there or whose destructor ignored a failure.
ManualHasCause ==
  /\ pending # {} => manual
  /\ manual => connected
  /\ manual => \E t \in Txn : status[t] \notin {"unborn", "gone"}

\* An object on whose account the connection is in manual mode goes away only
\* by restoring autocommit.
LEMMA CauseStep ==
  ASSUME TxnInv, TxnInv', ManualHasCause, [Next]_vars
  PROVE  ManualHasCause'
<1> USE DEF ManualHasCause, TxnInv, TxnTypeOK, connVars, handleVars
<1>1. ASSUME NEW t \in Txn, Begin(t) PROVE ManualHasCause'
      <2>1. connected' = connected /\ pending' = pending
            BY <1>1 DEF Begin
      <2>2. status'[t] = "open"
            BY <1>1 DEF Begin
      <2>3. CASE transactions = 0 /\ connected
            BY <1>1, <2>1, <2>2, <2>3 DEF Begin
      <2>4. CASE ~(transactions = 0 /\ connected)
            <3>1. manual' = manual
                  BY <1>1, <2>4 DEF Begin
            <3>2. QED
                  BY <2>1, <2>2, <3>1
      <2>5. QED
            BY <2>3, <2>4
<1>2. ASSUME NEW t \in Txn,
             BeginThrows(t) \/ Commit(t) \/ CommitThrows(t) \/ MarkRollback(t)
      PROVE  ManualHasCause'
      <2>1. UNCHANGED <<manual, connected>> /\ (pending' = pending \/ pending' = {})
            BY <1>2 DEF BeginThrows, Commit, CommitThrows, MarkRollback, dbVars
      <2>2. \A u \in Txn : status[u] \notin {"unborn", "gone"}
                            => status'[u] \notin {"unborn", "gone"}
            BY <1>2 DEF BeginThrows, Commit, CommitThrows, MarkRollback
      <2>3. QED
            BY <2>1, <2>2
<1>3. ASSUME NEW t \in Txn, End(t) PROVE ManualHasCause'
      <2>1. connected' = connected
            BY <1>3 DEF End
      <2>2. \A u \in Txn \ {t} : status'[u] = status[u]
            BY <1>3 DEF End
      <2>3. CASE ~EndsLast(t)
            <3>1. UNCHANGED <<manual, pending>> /\ transactions' = CountAfter(t)
                  BY <1>3, <2>3 DEF End
            <3>2. CASE ~connected
                  BY <2>1, <3>1, <3>2
            <3>3. CASE connected
                  <4>1. Open' # {}
                        BY <2>3, <3>1, <3>3, OpenFinite, FS_EmptySet
                        DEF EndsLast, CountsOpen
                  <4>2. QED
                        BY <2>1, <3>1, <3>3, <4>1 DEF Open
            <3>4. QED
                  BY <3>2, <3>3
      <2>4. CASE status'[t] = "gone" /\ EndsLast(t)
            BY <1>3, <2>4 DEF End, Finish, AutocommitOn
      <2>5. CASE status'[t] = "lost" /\ EndsLast(t)
            <3>1. connected
                  BY <2>5 DEF EndsLast
            <3>2. (pending' = {} /\ ~manual') \/ (manual' = manual /\ pending' \in {{}, pending})
                  BY <1>3, <2>5 DEF End, FinishIgnored, AutocommitOn, AutocommitStays
            <3>3. QED
                  BY <2>1, <2>5, <3>1, <3>2
      <2>6. QED
            BY <1>3, <2>3, <2>4, <2>5 DEF End
<1>4. ASSUME NEW w \in Work, Execute(w)
      PROVE  ManualHasCause'
      BY <1>4 DEF Execute, txnVars
<1>5. CASE ConnectionStep
      <2>1. CASE SameLink
            BY <1>5, <2>1 DEF ConnectionStep, LinkStep, SameLink, txnVars
      <2>2. CASE ~SameLink
            BY <1>5, <2>2 DEF ConnectionStep, LinkStep
      <2>3. QED
            BY <2>1, <2>2
<1>6. CASE UNCHANGED vars
      BY <1>6 DEF vars, txnVars, dbVars
<1>7. QED
      BY <1>1, <1>2, <1>3, <1>4, <1>5, <1>6 DEF Next

\* With every transaction object gone, and no failure ignored on the way, the
\* connection is back in autocommit mode with nothing pending, in whatever
\* order the objects ended and however the link came and went.
THEOREM ConnectionRestored == Spec => []QuiescentIsClean
<1>1. Init => ManualHasCause
      BY DEF Init, ManualHasCause
<1>2. ManualHasCause => QuiescentIsClean
      BY DEF ManualHasCause, QuiescentIsClean
<1>3. TxnInv /\ TxnInv' /\ ManualHasCause /\ [Next]_vars => ManualHasCause'
      BY CauseStep
<1>4. QED
      BY <1>1, <1>2, <1>3, Invariants, PTL DEF Spec

-----------------------------------------------------------------------------
(* Refinement.                                                             *)

\* Unref is one less whenever an open transaction is released.
LEMMA ReleaseLowers ==
  ASSUME TxnInv, NEW t \in Txn, status[t] = "open",
         NEW s \in {"committed", "failed", "gone", "lost"},
         status' = [status EXCEPT ![t] = s]
  PROVE  /\ transactions > 0 /\ Unref = transactions - 1
  BY OneCloses DEF Unref, TxnInv, TxnTypeOK

\* If the program never connects inside a transaction, nested transaction
\* objects implement one unit of work, whatever driver calls fail: work
\* gathers while any of them is open and is settled as a whole outside.
THEOREM ImplementsUnitOfWork ==
  ASSUME ~ConnectsInside
  PROVE  Spec => UnitOfWorkSpec
<1>1. Init => UOW!Init
      <2>1. Init => Open = {}
            BY DEF Init, Open
      <2>2. QED
            BY <2>1, FS_EmptySet DEF Init, UOW!Init
<1>2. TxnInv /\ TxnInv' /\ ManualWhileOpen /\ [Next]_vars
        => [UOW!Next]_UOW!uowVars
      <2> SUFFICES ASSUME TxnInv, TxnInv', ManualWhileOpen, [Next]_vars
                   PROVE  [UOW!Next]_UOW!uowVars
          OBVIOUS
      <2> DEFINE depth == Cardinality(Open)
      <2>1. /\ depth = transactions /\ depth' = transactions'
            /\ transactions \in Nat /\ transactions' \in Nat
            BY DEF TxnInv, TxnTypeOK, CountsOpen
      <2>2. ASSUME UNCHANGED <<transactions, pending, durable>>
            PROVE  UNCHANGED UOW!uowVars
            BY <2>1, <2>2 DEF UOW!uowVars
      <2> HIDE DEF depth
      <2>3. ASSUME transactions > 0, transactions' = transactions - 1,
                   \/ UNCHANGED <<pending, durable>>
                   \/ /\ transactions' = 0 /\ pending' = {}
                      /\ durable' \in {durable, durable \cup pending}
            PROVE  UOW!Next
            BY <2>1, <2>3 DEF UOW!Next, UOW!Leave, UOW!Settle, depth
      <2>4. ASSUME NEW t \in Txn, Begin(t) PROVE UOW!Next
            BY <2>1, <2>4 DEF Begin, UOW!Next, UOW!Enter, depth
      <2>5. ASSUME NEW t \in Txn, BeginThrows(t) PROVE UNCHANGED UOW!uowVars
            BY <2>2, <2>5 DEF BeginThrows, dbVars
      <2>6. ASSUME NEW t \in Txn, Commit(t) PROVE UOW!Next
            <3>1. transactions > 0 /\ transactions' = transactions - 1
                  BY <2>6, ReleaseLowers DEF Commit
            <3>2. QED
                  BY <2>3, <2>6, <3>1 DEF Commit, ReleasesLast
      <2>7. ASSUME NEW t \in Txn, CommitThrows(t) PROVE UOW!Next
            <3>1. transactions > 0 /\ transactions' = transactions - 1
                  BY <2>7, ReleaseLowers DEF CommitThrows, ReleasesLast
            <3>2. QED
                  BY <2>3, <2>7, <3>1 DEF CommitThrows, dbVars
      <2>8. ASSUME NEW t \in Txn, MarkRollback(t) PROVE UNCHANGED UOW!uowVars
            BY <2>2, <2>8 DEF MarkRollback, dbVars
      <2>9. ASSUME NEW t \in Txn, End(t) PROVE [UOW!Next]_UOW!uowVars
            <3>1. \/ UNCHANGED <<pending, durable>>
                  \/ /\ transactions' = 0 /\ pending' = {}
                     /\ durable' \in {durable, durable \cup pending}
                  BY <2>9 DEF End, EndsLast, Finish, FinishIgnored, AutocommitOn, AutocommitStays
            <3>2. CASE status[t] = "open"
                  <4>1. transactions > 0 /\ transactions' = transactions - 1
                        BY <2>9, <3>2, ReleaseLowers DEF End, CountAfter
                  <4>2. QED
                        BY <2>3, <3>1, <4>1
            <3>3. CASE status[t] # "open"
                  <4>1. transactions' = transactions
                        BY <2>9, <3>3 DEF End, CountAfter
                  <4>2. CASE UNCHANGED <<pending, durable>>
                        BY <2>2, <4>1, <4>2
                  <4>3. CASE /\ transactions' = 0 /\ pending' = {}
                             /\ durable' \in {durable, durable \cup pending}
                        BY <2>1, <4>1, <4>3
                        DEF UOW!Next, UOW!SettleOutside, UOW!Settle, depth
                  <4>4. QED
                        BY <3>1, <4>2, <4>3
            <3>4. QED
                  BY <3>2, <3>3
      <2>10. ASSUME NEW w \in Work, Execute(w)
             PROVE  UOW!Next
            <3>1. transactions' = transactions /\ connected
                  BY <2>10 DEF Execute, txnVars
            <3>2. ~manual => transactions = 0
                  BY <3>1, ZeroMeansNone DEF ManualWhileOpen
            <3>3. UOW!Do(w)
                  BY <2>1, <2>10, <3>1, <3>2 DEF Execute, UOW!Do, depth
            <3>4. QED
                  BY <3>3 DEF UOW!Next
      <2>11. CASE ConnectionStep
            <3>1. /\ UNCHANGED <<transactions, durable>>
                  /\ pending' = pending \/ pending' = {}
                  BY <2>11 DEF ConnectionStep, LinkStep, txnVars
            <3>2. CASE pending' = pending
                  BY <2>2, <3>1, <3>2
            <3>3. CASE pending' = {}
                  BY <2>1, <3>1, <3>3 DEF UOW!Next, UOW!Lose, depth
            <3>4. QED
                  BY <3>1, <3>2, <3>3
      <2>12. CASE UNCHANGED vars
             BY <2>2, <2>12 DEF vars, txnVars, dbVars
      <2>13. QED
             BY <2>4, <2>5, <2>6, <2>7, <2>8, <2>9, <2>10, <2>11, <2>12 DEF Next
<1>3. QED
      BY <1>1, <1>2, Invariants, ManualInside, PTL DEF Spec, UnitOfWorkSpec, UOW!Spec
=============================================================================
