---------------------------- MODULE ListingStore ----------------------------
(***************************************************************************)
(* upsert_raw_listings: one scraped page is written to raw.raw_listings in *)
(* one transaction, item by item.  The ORM session buffers the row of an   *)
(* item and sends it with the SELECT of the next item (autoflush), or with *)
(* the final commit; what the database answers is blamed on whichever item *)
(* is being handled then.                                                  *)
(*                                                                         *)
(* The database is PostgreSQL at READ COMMITTED with a unique index on     *)
(* (portal_id, external_id): a row another open transaction has written    *)
(* is waited for, and a cycle of such waits fails one of its members.  All *)
(* listings here are of one portal; of a row, only its presence is kept.   *)
(***************************************************************************)
EXTENDS Integers, Sequences, FiniteSets

CONSTANTS
  Runs,        \* the scrapes that write, each with a session of its own
  Listings,    \* external ids
  Bad,         \* listings with a value the database rejects
  NoListing    \* "no row is buffered"

ASSUME BadAssumption == Bad \subseteq Listings
ASSUME NoListingAssumption == NoListing \notin Listings

VARIABLES
  stored,   \* committed rows of raw_listings
  batch     \* the call of upsert_raw_listings each run is in

\* items: the page, empty between calls; next: the item whose SELECT is next;
\* op, on: the buffered row; held: rows sent and not committed; the rest: stats.
Batch ==
  [items : Seq(Listings), next : Nat, op : {"none", "insert", "update"},
   on : Listings \cup {NoListing}, held : SUBSET Listings,
   new : Nat, updated : Nat, errors : Nat]

Call(items) ==
  [items |-> items, next |-> 1, op |-> "none", on |-> NoListing, held |-> {},
   new |-> 0, updated |-> 0, errors |-> 0]

Idle == Call(<<>>)
Busy(r) == batch[r].items # <<>>
MoreItems(r) == Busy(r) /\ batch[r].next =< Len(batch[r].items)
AllItems(r) == Busy(r) /\ batch[r].next > Len(batch[r].items)

StoreInit(rows) ==
  /\ stored = rows
  /\ batch = [r \in Runs |-> Idle]

-----------------------------------------------------------------------------
(* What the database answers when the buffered row is sent *)

Waits(r, q) == q # r /\ batch[r].op # "none" /\ batch[r].on \in batch[q].held
Waiting(r) == \E q \in Runs : Waits(r, q)

\* r is on a cycle of waits (each run waits for one row, which one run holds).
Deadlocked(r) ==
  \E S \in SUBSET Runs :
    r \in S /\ \A p \in S : (\E q \in S : Waits(p, q)) /\ (\E q \in S : Waits(q, p))

\* Rejected value, deadlock victim, or unique violation.
FlushFails(r) ==
  /\ batch[r].op # "none"
  /\ \/ batch[r].on \in Bad
     \/ Deadlocked(r)
     \/ ~Waiting(r) /\ batch[r].op = "insert" /\ batch[r].on \in stored

FlushSucceeds(r) ==
  \/ batch[r].op = "none"
  \/ /\ batch[r].on \notin Bad
     /\ ~Waiting(r)
     /\ batch[r].op = "insert" => batch[r].on \notin stored

Flushed(r) == batch[r].held \cup (IF batch[r].op = "none" THEN {} ELSE {batch[r].on})

-----------------------------------------------------------------------------
(* The loop over the items *)

\* The previous item's row is accepted; the item's own row is found or not, and is
\* buffered as an update or an insert.
Upsert(r) ==
  LET item == batch[r].items[batch[r].next]
      exists == item \in stored \cup Flushed(r) IN
  /\ MoreItems(r)
  /\ FlushSucceeds(r)
  /\ batch' = [batch EXCEPT ![r] =
       [batch[r] EXCEPT !.next = @ + 1,
                        !.held = Flushed(r),
                        !.op = IF exists THEN "update" ELSE "insert",
                        !.on = item,
                        !.new = IF exists THEN @ ELSE @ + 1,
                        !.updated = IF exists THEN @ + 1 ELSE @]]
  /\ UNCHANGED stored

\* Mutant: the item in hand is not counted.
UpsertFailsSilently(r) ==
  /\ MoreItems(r)
  /\ batch' = [batch EXCEPT ![r] =
       [batch[r] EXCEPT !.next = @ + 1, !.held = {}, !.op = "none", !.on = NoListing]]
  /\ UNCHANGED stored

\* The except block: the item in hand is counted and skipped, and the rollback drops
\* everything the call had written so far; the counts of it stay.
UpsertFails(r) ==
  /\ MoreItems(r)
  /\ batch' = [batch EXCEPT ![r] =
       [batch[r] EXCEPT !.next = @ + 1, !.held = {}, !.op = "none", !.on = NoListing,
                        !.errors = @ + 1]]
  /\ UNCHANGED stored

\* The last row is sent and everything is committed.
Commit(r) ==
  /\ AllItems(r)
  /\ FlushSucceeds(r)
  /\ stored' = stored \cup Flushed(r)
  /\ batch' = [batch EXCEPT ![r] = Idle]

\* Mutant: the call's state survives it.
AbortKeepsPage(r) ==
  /\ batch' = [batch EXCEPT ![r].held = {}]
  /\ UNCHANGED stored

\* Mutant: the session is not closed, its transaction stays open.
AbortLeavesSessionOpen(r) ==
  /\ batch' = [batch EXCEPT ![r] = [Idle EXCEPT !.held = batch[r].held]]
  /\ UNCHANGED stored

\* The commit raises, or the process ends: the transaction is rolled back.
Abort(r) ==
  /\ batch' = [batch EXCEPT ![r] = Idle]
  /\ UNCHANGED stored

StoreTypeOK ==
  /\ stored \subseteq Listings
  /\ batch \in [Runs -> Batch]
=============================================================================
