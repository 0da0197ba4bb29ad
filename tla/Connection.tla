----------------------------- MODULE Connection -----------------------------
(***************************************************************************)
(* One connection_impl (nanodbc.cpp) and the driver manager below it: the  *)
(* environment and connection handles it allocates and frees, and the link *)
(* to the data source it opens and closes, synchronously or not.           *)
(*                                                                         *)
(* The library runs on the caller's thread and holds no lock, so a method  *)
(* is one action.  What makes it hard is that every ODBC call inside it    *)
(* may fail: the action has one disjunct per call at which it may throw,   *)
(* each with the handles and flags the unwinding leaves behind.  Faults    *)
(* says which calls may fail of their own accord; a call the driver        *)
(* manager refuses because of the state of the handle fails always.        *)
(***************************************************************************)
EXTENDS Naturals, FiniteSets

CONSTANTS
  Handle,    \* values a connection handle may take; freed ones are reused
  NULL,      \* the null handle
  Faults,    \* the driver calls that may fail of their own accord
  AsyncModes,\* the modes a caller may connect in: {FALSE}, {TRUE} or both
  MaxLinks   \* bound: how many links are opened in one behaviour

ConnectionFaults ==
  {"allocEnv", "allocDbc", "setAttr", "connect", "disconnect",
   "disconnectPends", "freeDbc", "freeEnv"}

ASSUME HandleAssumption == NULL \notin Handle
ASSUME AsyncAssumption  == AsyncModes \subseteq BOOLEAN
ASSUME LinksAssumption  == MaxLinks \in Nat

VARIABLES
  obj,       \* life of the connection_impl: unborn, alive, dead, or leaked:
             \* dead, and a call that frees failed in the destructor
  env,       \* env_ is not null
  dbc,       \* dbc_
  connected, \* connected_
  envUp,     \* driver manager: the environment handle is allocated
  drv,       \* driver manager: the state of each connection handle
  asyncOn,   \* driver: SQL_ATTR_ASYNC_DBC_FUNCTIONS_ENABLE of the handle
  link       \* how many links were opened so far

handleVars == <<env, dbc, connected, envUp, drv, asyncOn, link>>
connVars   == <<obj, handleVars>>

\* A connect in the background is connecting, then arrived or refused; a
\* disconnect that was put off is closing, then closed, or kept if it failed.
HandleState ==
  {"free", "allocated", "connecting", "arrived", "refused",
   "open", "closing", "closed", "kept"}

ConnInit ==
  /\ obj = "unborn"
  /\ env = FALSE /\ dbc = NULL /\ connected = FALSE
  /\ envUp = FALSE /\ drv = [h \in Handle |-> "free"]
  /\ asyncOn = FALSE /\ link = 0

May(call) == call \in Faults

-----------------------------------------------------------------------------
(* The helpers the methods are made of.                                    *)

\* The state of the handle in dbc_.
DbcState == IF dbc = NULL THEN "none" ELSE drv[dbc]

\* deallocate_handle on dbc_ succeeds: the manager frees an idle handle only.
Freeable == DbcState \in {"none", "allocated"}

\* The handle table once deallocate_handle has freed dbc_.
Freed == IF dbc = NULL THEN drv ELSE [drv EXCEPT ![dbc] = "free"]

\* disconnect() throws: SQLDisconnect fails, or answers SQL_STILL_EXECUTING
\* on a handle left in asynchronous mode, which disconnect() takes for a
\* failure; from then on the manager refuses every call on the handle.
DisconnectThrows ==
  /\ connected
  /\ \/ DbcState = "open" /\ May("disconnect") /\ UNCHANGED drv
     \/ /\ DbcState = "open" /\ asyncOn /\ May("disconnectPends")
        /\ drv' = [drv EXCEPT ![dbc] = "closing"]
     \/ DbcState # "open" /\ UNCHANGED drv

\* disconnect() gets past SQLDisconnect, or has nothing to do.
Disconnects == connected => DbcState = "open"

\* disconnect() and deallocate_handle(dbc_), in this order, both succeed.
Released == IF connected THEN DbcState = "open" ELSE Freeable

\* deallocate_handle(dbc_) succeeds after disconnect() did what it could: an
\* idle handle is freed also when disconnect() threw for want of a link.
ReleasedAtEnd == Freeable \/ Released

\* Slip: the old handle is overwritten, not freed.
OverwrittenHandle(h, s) ==
  /\ drv[h] = "free"
  /\ env' = TRUE /\ envUp' = TRUE
  /\ dbc' = h
  /\ drv' = [drv EXCEPT ![h] = s]

\* What connect() leaves when it throws or returns after it has put a fresh
\* handle h, in state s, in place of dbc_.
FreshHandle(h, s) ==
  /\ Freed[h] = "free"
  /\ env' = TRUE /\ envUp' = TRUE
  /\ dbc' = h
  /\ drv' = [Freed EXCEPT ![h] = s]

-----------------------------------------------------------------------------
(* connect(), in both its forms, throwing.                                 *)

\* allocate_env_handle throws; what it allocated it has freed again (a second
\* failure, of that freeing, is left out).
ConnectNoEnv == ~env /\ May("allocEnv") /\ UNCHANGED handleVars

\* disconnect() throws; the environment is allocated by then.
ConnectNotClosed ==
  /\ DisconnectThrows
  /\ env' = TRUE /\ envUp' = TRUE
  /\ UNCHANGED <<dbc, connected, asyncOn, link>>

\* deallocate_handle throws: the link is closed, the handle is still there.
ConnectNotFreed ==
  /\ Disconnects /\ dbc # NULL
  /\ May("freeDbc") \/ ~Released
  /\ connected' = FALSE
  /\ drv' = IF connected THEN [drv EXCEPT ![dbc] = "allocated"] ELSE drv
  /\ UNCHANGED <<env, dbc, envUp, asyncOn, link>>

\* allocate_dbc_handle throws: the old handle is gone and there is no new one.
ConnectNoHandle ==
  /\ Released
  /\ May("allocDbc")
  /\ env' = TRUE /\ envUp' = TRUE
  /\ dbc' = NULL /\ drv' = Freed /\ connected' = FALSE /\ asyncOn' = FALSE
  /\ UNCHANGED link

\* A set_attribute or SQLConnect itself throws, on the fresh handle.
ConnectRefused(async) ==
  /\ Released
  /\ \E h \in Handle : FreshHandle(h, "allocated")
  /\ \/ May("setAttr") /\ asyncOn' \in {FALSE, async}
     \/ May("connect") /\ asyncOn' = async
  /\ connected' = FALSE
  /\ UNCHANGED link

\* Slip: connected_ gets no value while the link is still being opened.
ConnectReturnsUnset(async) ==
  /\ Released
  /\ link < MaxLinks
  /\ asyncOn' = async
  /\ \E h \in Handle : FreshHandle(h, IF async THEN "connecting" ELSE "open")
  /\ connected' = IF async THEN NULL ELSE TRUE
  /\ link' = link + 1

\* connect() returns: the link is open, or still being opened.
ConnectReturns(async) ==
  /\ Released
  /\ link < MaxLinks
  /\ asyncOn' = async
  /\ \/ /\ \E h \in Handle : FreshHandle(h, "open")
        /\ connected' = TRUE /\ link' = link + 1
     \/ /\ async
        /\ \E h \in Handle : FreshHandle(h, "connecting")
        /\ connected' = FALSE /\ UNCHANGED link

\* connect() and async_connect(), which only add the attributes of the mode.
Connect(async) ==
  /\ obj = "alive"
  /\ \/ ConnectNoEnv
     \/ ConnectNotClosed
     \/ ConnectNotFreed
     \/ ConnectNoHandle
     \/ ConnectRefused(async)
     \/ ConnectReturns(async)
  /\ UNCHANGED obj

-----------------------------------------------------------------------------
(* Construction and destruction.                                           *)

\* connection(): nothing is allocated until it is needed.
ConstructIdle ==
  obj = "unborn" /\ obj' = "alive" /\ UNCHANGED handleVars

\* The connecting constructors: allocate(), then connect().
ConstructConnected(async) ==
  obj = "unborn" /\ obj' = "alive" /\ ConnectReturns(async)

\* A connecting constructor throws.  connect() failing is caught and both
\* handles are deallocated; allocate() is outside the try block, so when its
\* second call fails the environment stays allocated, with nobody to free it.
\* The unwinding may fail too, and then leaves what it could not free.
ConstructThrows ==
  /\ obj = "unborn" /\ obj' = "dead"
  /\ Faults \cap {"allocEnv", "allocDbc", "setAttr", "connect", "freeDbc"} # {}
  /\ \/ UNCHANGED handleVars
     \/ /\ May("allocDbc") \/ May("freeEnv")
        /\ env' = TRUE /\ envUp' = TRUE
        /\ UNCHANGED <<dbc, connected, drv, asyncOn, link>>
     \/ /\ May("freeDbc")
        /\ \E h \in Handle : FreshHandle(h, "allocated")
        /\ UNCHANGED <<connected, asyncOn, link>>

\* ~connection: disconnect(), then deallocate(), the exceptions of each
\* swallowed.  A handle that cannot be freed keeps the environment allocated.
\* The manager refuses:
DestroyRefused ==
  /\ obj' = "dead"
  /\ ~ReleasedAtEnd
  /\ UNCHANGED <<env, dbc, envUp, drv, connected>>

\* What disconnect() makes of connected_ on the way to freeing the handle.
StillClaimed == connected /\ DbcState # "open"

\* a call fails:
DestroyFails ==
  /\ obj' = "leaked"
  /\ \/ /\ DbcState = "open" /\ DisconnectThrows
        /\ UNCHANGED <<env, dbc, envUp, connected>>
     \/ /\ ReleasedAtEnd /\ dbc # NULL /\ May("freeDbc")
        /\ drv' = [drv EXCEPT ![dbc] = "allocated"] /\ connected' = StillClaimed
        /\ UNCHANGED <<env, dbc, envUp>>
     \/ /\ ReleasedAtEnd /\ May("freeEnv")
        /\ drv' = Freed /\ dbc' = NULL /\ connected' = StillClaimed
        /\ UNCHANGED <<env, envUp>>

\* or all is freed.
DestroyFrees ==
  /\ obj' = "dead"
  /\ ReleasedAtEnd
  /\ drv' = Freed /\ dbc' = NULL /\ connected' = StillClaimed
  /\ env' = FALSE /\ envUp' = FALSE

\* Slip: the destructor deallocates without disconnecting first.
DestroyConnected ==
  /\ obj = "alive"
  /\ IF connected THEN obj' = "dead" /\ UNCHANGED <<env, dbc, envUp, drv, connected>>
                  ELSE DestroyRefused \/ DestroyFails \/ DestroyFrees
  /\ UNCHANGED <<asyncOn, link>>

Destroy ==
  /\ obj = "alive"
  /\ DestroyRefused \/ DestroyFails \/ DestroyFrees
  /\ UNCHANGED <<asyncOn, link>>

-----------------------------------------------------------------------------
(* The other operations.                                                   *)

\* Slip: connected_ is cleared before SQLDisconnect is known to succeed.
DisconnectEarly ==
  /\ obj = "alive" /\ connected
  /\ \/ DisconnectThrows
     \/ Disconnects /\ drv' = [drv EXCEPT ![dbc] = "allocated"]
  /\ connected' = FALSE
  /\ UNCHANGED <<obj, env, dbc, envUp, asyncOn, link>>

\* disconnect(): the handles are kept; on failure connected_ stays true.
Disconnect ==
  /\ obj = "alive" /\ connected
  /\ \/ DisconnectThrows /\ UNCHANGED connected
     \/ /\ Disconnects
        /\ drv' = [drv EXCEPT ![dbc] = "allocated"]
        /\ connected' = FALSE
  /\ UNCHANGED <<obj, env, dbc, envUp, asyncOn, link>>

\* allocate(), called directly to set attributes before connecting.  It may
\* throw between the two handles.
Allocate ==
  /\ obj = "alive" /\ dbc = NULL
  /\ env' = TRUE /\ envUp' = TRUE
  /\ \/ May("allocDbc") /\ UNCHANGED <<dbc, drv>>
     \/ \E h \in Handle :
          drv[h] = "free" /\ dbc' = h /\ drv' = [drv EXCEPT ![h] = "allocated"]
  /\ asyncOn' = FALSE
  /\ UNCHANGED <<obj, connected, link>>

\* deallocate(), called directly: refused unless the handle is idle.
Deallocate ==
  /\ obj = "alive" /\ Freeable
  /\ drv' = Freed /\ dbc' = NULL /\ asyncOn' = FALSE
  /\ \/ env' = FALSE /\ envUp' = FALSE
     \/ May("freeEnv") /\ UNCHANGED <<env, envUp>>
  /\ UNCHANGED <<obj, connected, link>>

\* The driver finishes in the background what it put off, connecting or
\* disconnecting, and signals the event.
DriverArrives ==
  /\ \E h \in Handle :
       \/ /\ drv[h] = "connecting"
          /\ \/ drv' = [drv EXCEPT ![h] = "arrived"]
             \/ May("connect") /\ drv' = [drv EXCEPT ![h] = "refused"]
       \/ /\ drv[h] = "closing"
          /\ \/ drv' = [drv EXCEPT ![h] = "closed"]
             \/ May("disconnect") /\ drv' = [drv EXCEPT ![h] = "kept"]
  /\ UNCHANGED <<obj, env, dbc, connected, envUp, asyncOn, link>>

\* SQLCompleteAsync reports success: async_complete() sets connected_, whatever
\* it was that completed, and throws after it when asynchronous mode stays on.
CompletesWell ==
  /\ DbcState \in {"arrived", "closed"}
  /\ IF DbcState = "arrived"
       THEN drv' = [drv EXCEPT ![dbc] = "open"] /\ link' = link + 1
       ELSE drv' = [drv EXCEPT ![dbc] = "allocated"] /\ UNCHANGED link
  /\ connected' = TRUE
  /\ asyncOn' = FALSE \/ (May("setAttr") /\ UNCHANGED asyncOn)

\* It reports that what was put off has failed: async_complete() throws.
CompletesIll ==
  /\ \/ DbcState = "refused" /\ drv' = [drv EXCEPT ![dbc] = "allocated"]
     \/ DbcState = "kept" /\ drv' = [drv EXCEPT ![dbc] = "open"]
  /\ UNCHANGED <<connected, link, asyncOn>>

\* It is refused, nothing having completed: async_complete() throws.
CompletesNothing ==
  /\ DbcState \notin {"arrived", "refused", "closed", "kept"}
  /\ UNCHANGED <<drv, connected, link, asyncOn>>

\* async_complete(), which asserts a handle and asks no more.
AsyncComplete ==
  /\ obj = "alive" /\ dbc # NULL
  /\ CompletesWell \/ CompletesIll \/ CompletesNothing
  /\ UNCHANGED <<obj, env, dbc, envUp>>

ConnNext ==
  \/ ConstructIdle
  \/ \E async \in AsyncModes : ConstructConnected(async)
  \/ ConstructThrows
  \/ \E async \in AsyncModes : Connect(async)
  \/ Disconnect
  \/ Allocate
  \/ Deallocate
  \/ DriverArrives
  \/ AsyncComplete
  \/ Destroy

ConnSpec == ConnInit /\ [][ConnNext]_connVars

-----------------------------------------------------------------------------
(* Properties                                                              *)

ConnTypeOK ==
  /\ obj \in {"unborn", "alive", "dead", "leaked"}
  /\ env \in BOOLEAN /\ dbc \in Handle \cup {NULL} /\ connected \in BOOLEAN
  /\ envUp \in BOOLEAN /\ drv \in [Handle -> HandleState]
  /\ asyncOn \in BOOLEAN /\ link \in Nat

Live == {h \in Handle : drv[h] # "free"}
Held == IF dbc = NULL THEN {} ELSE {dbc}

\* While the object lives, the driver manager holds exactly the handles the
\* object knows of: whatever call threw in the middle of allocating, freeing
\* or connecting, nothing leaked and nothing it holds was freed under it.
HandlesHeld ==
  obj = "alive" => /\ Live = Held
                   /\ envUp = env
                   /\ dbc # NULL => env

\* There is a link on the handle: open, or put off closing by the driver,
\* which has not reported the end of it.
HasLink == DbcState \in {"open", "closing", "closed", "kept"}

\* connected() tells the truth, through every failing or asynchronous connect()
\* and disconnect().  A link is never denied, for a destructor that overlooks
\* it leaks it; and of all calls only async_complete(), when what completes is
\* a disconnect(), makes the object claim a link that is gone.
ConnectedMeansOpen ==
  [][obj' = "alive" =>
       /\ HasLink' => connected'
       /\ connected' => \/ HasLink'
                        \/ connected /\ ~HasLink
                        \/ DbcState = "closed" /\ DbcState' = "allocated"]_connVars

\* A connect or disconnect in the background, or one not yet reported.
InFlight ==
  \E h \in Handle :
    drv[h] \in {"connecting", "arrived", "refused", "closing", "closed", "kept"}

\* ~connection loses handles only to the driver: if nothing is in flight on
\* the link and no call of the destructor that disconnects or frees fails, it
\* leaves neither handle behind, whatever failed before.
DestructionFrees ==
  [][obj = "alive" /\ obj' = "dead" /\ ~InFlight => Live' = {} /\ ~envUp']_connVars
=============================================================================
