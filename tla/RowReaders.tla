----------------------------- MODULE RowReaders -----------------------------
(***************************************************************************)
(* The two ways nanodbc wraps a loop over next(): the iterator of          *)
(* nanodbc.h, which compares equal to the end once next() answers false or *)
(* throws, and the row cache (variant_row_cached_result.cpp), which copies *)
(* all columns of each row and answers get() from the copy.  Both share    *)
(* the result with the caller, who may go on calling next() as well.       *)
(***************************************************************************)
EXTENDS ResultCursor

VARIABLES
  iterator, \* "none", "on" a row, or equal to the "end"
  cache,    \* row_: the row it copies, 0 when empty, Partial when some
            \* columns of it were not read
  cached    \* history: the last call was of the row cache

readerVars == <<vars, iterator, cache, cached>>

Partial == -1

ReaderInit == Init /\ iterator = "none" /\ cache = 0 /\ cached = FALSE

-----------------------------------------------------------------------------
(* result_iterator                                                         *)

\* Slip: the iterator only ends when next() throws.
BecomeIfThrown ==
  iterator' = IF said' = "threw" THEN "end" ELSE "on"

\* operator++ takes an exception for the end.
Become ==
  iterator' = IF said' = "true" THEN "on" ELSE "end"

\* begin() makes an iterator, whose constructor calls operator++.  Nothing
\* increments one that has reached the end.
Iterate ==
  /\ Next /\ UNCHANGED given
  /\ Become
  /\ cached' = FALSE /\ UNCHANGED cache

-----------------------------------------------------------------------------
(* variant_row_cached_result                                               *)

\* The row get() reads once next() has answered true: an unbound column is
\* read from the driver's current row.
Readable == IF unbound THEN row ELSE Here

\* fill_row() copies the row, unless the cache has one already; reading a
\* column may throw.
FillRow(had) ==
  IF had # 0 THEN cache' = had ELSE
  \/ cache' = Readable'
  \/ "get" \in Faults /\ cache' = Partial

\* Slip: the cache keeps its row when the result moves on.
ClearedNot == cache

\* clear_row(), before the result moves.
Cleared == 0

CachedNext ==
  /\ Next /\ UNCHANGED given
  /\ IF said' = "true" THEN FillRow(Cleared) ELSE cache' = Cleared
  /\ cached' = TRUE /\ UNCHANGED iterator

-----------------------------------------------------------------------------
(* The readers together with the caller.                                   *)

CallerNavigates ==
  Navigate /\ cached' = FALSE /\ UNCHANGED <<iterator, cache>>

ReaderNext == Iterate \/ CachedNext \/ CallerNavigates

\* A loop over an iterator increments it as long as it is not the end.
FairReaders == ReaderInit /\ [][ReaderNext]_readerVars /\ WF_readerVars(Iterate)

-----------------------------------------------------------------------------
(* Properties                                                              *)

\* A reader of one result set that loops over an iterator sees each row once,
\* in order, and the iterator is the end after the last one, though others
\* call next() in between and take rows away from it.
Iterated == INSTANCE RowStream WITH
              Rows  <- Sets[1],
              read  <- IF Here > Sets[1] THEN Sets[1] ELSE Here,
              ended <- iterator = "end"

IteratorIsStream == Iterated!Spec

\* As long as nobody moves the result behind its back the row cache holds the
\* row the result stands on, or part of it when reading it threw, and nothing
\* once there is no row: get() never answers with the values of an earlier row.
CacheIsCurrentRow ==
  cached /\ (set = 1 \/ rowsetSize = 1) =>
    cache \in (IF said = "true" THEN {Here, Partial} ELSE {0})
=============================================================================
