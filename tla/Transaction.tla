---------------------------- MODULE Transaction ----------------------------
(***************************************************************************)
(* Transaction objects over one shared connection (transaction_impl and    *)
(* the transaction counter and rollback mark of connection_impl, in        *)
(* nanodbc.cpp), with the unit of work the driver keeps below them.        *)
(*                                                                         *)
(* ODBC has one transaction per connection; the library nests transaction  *)
(* objects on it by counting them.  Constructing the first turns the       *)
(* driver's autocommit mode off, the commit() that brings the count to     *)
(* zero commits the driver's transaction, and the destructor that finds it *)
(* at zero rolls back if the connection is marked and turns autocommit on. *)
(* Objects share the connection by value, may end in any order, outlive    *)
(* their commit(), and outlive the link: the connection may be dropped and *)
(* opened again under them, by any of the ways Connection has.             *)
(***************************************************************************)
EXTENDS Connection

CONSTANTS
  Txn,              \* the transaction objects a program may construct
  Work,             \* the modifications it may execute
  ConnectsInside    \* may the program connect while transactions are open?

TransactionFaults == {"autocommitOff", "commit", "rollback", "autocommitOn"}

ASSUME TxnAssumption      == IsFiniteSet(Txn)
ASSUME InsideAssumption   == ConnectsInside \in BOOLEAN

VARIABLES
  transactions,  \* transactions_
  rollback,      \* rollback_
  status,        \* of each object: unborn, open, committed, failed, gone,
                 \* or lost: gone, and its destructor ignored a failure
  manual,        \* driver: SQL_ATTR_AUTOCOMMIT is off
  pending,       \* driver: work in its open transaction
  durable        \* driver: work that took effect

txnVars == <<transactions, rollback, status>>
dbVars  == <<manual, pending, durable>>
vars    == <<connVars, txnVars, dbVars>>

\* committed_ is set by commit() before it calls the driver, so an object
\* whose commit() threw counts as committed too.
Open        == {t \in Txn : status[t] = "open"}
Constructed == {t \in Txn : status[t] \in {"open", "committed", "failed"}}

Init ==
  /\ ConnInit
  /\ transactions = 0 /\ rollback = FALSE
  /\ status = [t \in Txn |-> "unborn"]
  /\ manual = FALSE /\ pending = {} /\ durable = {}

-----------------------------------------------------------------------------
(* The driver's side of a transaction.                                     *)

\* The link in place after a step is the one that was there before it.
SameLink == link' = link /\ connected' = connected

\* A new link starts in autocommit mode with nothing pending, and a link that
\* is dropped takes the pending work with it: the driver rolls it back.
LinkStep ==
  IF SameLink THEN UNCHANGED <<manual, pending>>
              ELSE manual' = FALSE /\ pending' = {}

\* SQLSetConnectAttr(SQL_ATTR_AUTOCOMMIT, ON) commits what is pending by then,
\* or fails.
AutocommitOn(work) ==
  manual' = FALSE /\ durable' = durable \cup work /\ pending' = {}

AutocommitStays(work) ==
  May("autocommitOn") /\ UNCHANGED <<manual, durable>> /\ pending' = work

-----------------------------------------------------------------------------
(* transaction_impl                                                        *)

\* The constructor.  Only the first object on a connected connection turns
\* autocommit off; if the driver refuses it throws and counts nothing.
Begin(t) ==
  /\ obj = "alive" /\ status[t] = "unborn"
  /\ IF transactions = 0 /\ connected THEN manual' = TRUE ELSE UNCHANGED manual
  /\ transactions' = transactions + 1
  /\ status' = [status EXCEPT ![t] = "open"]
  /\ UNCHANGED <<connVars, rollback, pending, durable>>

BeginThrows(t) ==
  /\ obj = "alive" /\ status[t] = "unborn"
  /\ transactions = 0 /\ connected /\ May("autocommitOff")
  /\ status' = [status EXCEPT ![t] = "gone"]
  /\ UNCHANGED <<connVars, transactions, rollback, dbVars>>

\* connection_impl::unref_transaction, which stops at zero.
Unref == IF transactions > 0 THEN transactions - 1 ELSE 0

\* Slip: every commit() reaches the driver, also a nested one.
ReleasesAny == connected

\* The call releases the last open transaction of a connected connection.
ReleasesLast == Unref = 0 /\ connected

\* commit(): only the call that brings the count to zero reaches the driver,
\* and it commits whether or not the connection is marked for rollback.
Commit(t) ==
  /\ status[t] = "open"
  /\ transactions' = Unref
  /\ status' = [status EXCEPT ![t] = "committed"]
  /\ IF ReleasesLast
       THEN durable' = durable \cup pending /\ pending' = {}
       ELSE UNCHANGED <<durable, pending>>
  /\ UNCHANGED <<connVars, rollback, manual>>

CommitThrows(t) ==
  /\ status[t] = "open"
  /\ ReleasesLast /\ May("commit")
  /\ transactions' = 0
  /\ status' = [status EXCEPT ![t] = "failed"]
  /\ UNCHANGED <<connVars, rollback, dbVars>>

\* Slip: the mark names the transaction, where a flag is kept.
MarkByName(t) ==
  /\ status[t] = "open"
  /\ rollback' = t
  /\ UNCHANGED <<connVars, transactions, status, dbVars>>

\* rollback(): marks the connection, not the object.
MarkRollback(t) ==
  /\ status[t] = "open"
  /\ rollback' = TRUE
  /\ UNCHANGED <<connVars, transactions, status, dbVars>>

\* Slips: the destructor of a committed object releases its count again; the
\* mark is read before an uncommitted object sets it; autocommit is restored
\* whatever the count.
CountAfterTwice(t) == Unref
MarkedEarlier(t)   == rollback
EndsAny(t)         == connected

\* ~transaction_impl, in its order: an object that is not committed marks the
\* connection and releases its count; the one that finds the count at zero
\* rolls back if the connection is marked and restores autocommit.
CountAfter(t) == IF status[t] = "open" THEN Unref ELSE transactions
MarkedBy(t)   == rollback \/ status[t] = "open"
EndsLast(t)   == CountAfter(t) = 0 /\ connected

\* Slip: autocommit is restored after a rollback only.
FinishMarked(marked) ==
  IF marked THEN AutocommitOn({}) ELSE UNCHANGED <<manual, pending, durable>>

\* What the last object's destructor does on the driver: SQLEndTran if the
\* connection is marked, then SQLSetConnectAttr.
Finish(marked) == AutocommitOn(IF marked THEN {} ELSE pending)

\* The answers of both calls are ignored.  A rollback that fails leaves the
\* work for turning autocommit on to commit.
FinishIgnored(marked) ==
  \/ AutocommitStays(IF marked THEN {} ELSE pending)
  \/ /\ marked /\ May("rollback")
     /\ AutocommitOn(pending) \/ AutocommitStays(pending)

End(t) ==
  /\ t \in Constructed
  /\ transactions' = CountAfter(t)
  /\ \/ /\ ~EndsLast(t)
        /\ status' = [status EXCEPT ![t] = "gone"]
        /\ rollback' = MarkedBy(t) /\ UNCHANGED <<manual, pending, durable>>
     \/ /\ EndsLast(t)
        /\ rollback' = FALSE
        /\ \/ status' = [status EXCEPT ![t] = "gone"] /\ Finish(MarkedBy(t))
           \/ status' = [status EXCEPT ![t] = "lost"] /\ FinishIgnored(MarkedBy(t))
  /\ UNCHANGED connVars

-----------------------------------------------------------------------------
(* The program around them.                                                *)

\* A statement that modifies the database runs on the shared connection, for
\* whichever transaction, or for none: the driver does not know.
Execute(w) ==
  /\ obj = "alive" /\ connected
  /\ w \notin pending \cup durable
  /\ IF manual THEN pending' = pending \cup {w} /\ UNCHANGED durable
               ELSE durable' = durable \cup {w} /\ UNCHANGED pending
  /\ UNCHANGED <<connVars, txnVars, manual>>

\* Every step of the connection but a disconnect() that the driver puts off:
\* until it ends every call of an object is refused, and after that connected()
\* may no longer tell.  transaction_impl holds the connection by value, so a
\* connection_impl is destroyed only when no object is left.
ConnectionStep ==
  /\ ConnNext
  /\ DbcState' # "closing"
  /\ obj' = obj \/ Constructed = {}
  /\ (connected' /\ ~SameLink) => (ConnectsInside \/ transactions = 0)
  /\ LinkStep
  /\ UNCHANGED <<txnVars, durable>>

Next ==
  \/ ConnectionStep
  \/ \E t \in Txn :
       \/ Begin(t) \/ BeginThrows(t)
       \/ Commit(t) \/ CommitThrows(t)
       \/ MarkRollback(t)
       \/ End(t)
  \/ \E w \in Work : Execute(w)

Spec == Init /\ [][Next]_vars

-----------------------------------------------------------------------------
(* Properties                                                              *)

TypeOK ==
  /\ ConnTypeOK
  /\ transactions \in Nat /\ rollback \in BOOLEAN
  /\ status \in [Txn -> {"unborn", "open", "committed", "failed", "gone", "lost"}]
  /\ manual \in BOOLEAN
  /\ pending \subseteq Work /\ durable \subseteq Work

\* transactions(): "the number of transactions currently held for this
\* connection" (nanodbc.h).  However objects begin, commit, fail to commit and
\* end, out of order and across reconnections, the counter is the number of
\* objects not yet committed or destroyed: nobody releases twice or never.
CountsOpen == transactions = Cardinality(Open)

\* While a transaction is open on a connected connection, nothing executed on
\* that connection takes effect by itself: autocommit is off.  It is turned
\* off only at count zero, so this needs the program not to connect inside.
ManualWhileOpen ==
  ~ConnectsInside => (connected /\ Open # {} => manual)

\* With every transaction object gone the connection is as it was before the
\* first: autocommit on and no work pending, unless a destructor ignored a
\* failure of the driver's.
QuiescentIsClean ==
  /\ obj = "alive" /\ connected
  /\ \A t \in Txn : status[t] \in {"unborn", "gone"}
  => ~manual /\ pending = {}

\* When the last open transaction is destroyed without commit(), and rolling
\* back does not fail, all that is pending on the connection is discarded and
\* none of it takes effect.
LastUncommittedRollsBack ==
  [][\A t \in Txn :
       /\ status[t] = "open" /\ status'[t] = "gone"
       /\ transactions' = 0 /\ connected
       => pending' = {} /\ durable' = durable]_vars

\* Nested objects amount to one unit of work over the connection: whatever
\* calls fail, no work takes effect while one of them is open, and what has
\* gathered is kept or discarded as a whole once none is.
UOW == INSTANCE UnitOfWork WITH depth <- Cardinality(Open)

UnitOfWorkSpec == UOW!Spec
=============================================================================
