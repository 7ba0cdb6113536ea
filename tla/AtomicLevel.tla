---------------------------- MODULE AtomicLevel -----------------------------
(***************************************************************************)
(* A price level of atomic_orderbook.rs: price and quantity in two atomics *)
(* behind a version counter (sequence lock).  Every atomic access is an    *)
(* action; release/acquire pairs make the accesses of one thread visible   *)
(* in program order, so interleaving them is enough.  The k-th store of    *)
(* all writes the pair <<k, k>>, which makes a torn pair visible; clear is *)
(* the store of a zero pair and follows the same steps.                    *)
(***************************************************************************)
EXTENDS Integers

CONSTANTS
  Writers, Readers,
  MaxStores   \* bound: calls of store

ASSUME LevelAssumption == MaxStores \in Nat

VARIABLES
  version, price, quantity,
  writer,   \* per writer: position, version it saw, value it stores
  reader,   \* per reader: position, version and values it has read
  stores    \* stores begun so far

levelVars == <<version, price, quantity, writer, reader, stores>>

NotWriting == [pc |-> "rest", v |-> 0, value |-> 0]
NotReading == [pc |-> "rest", v |-> 0, p |-> 0, q |-> 0]

LevelInit ==
  /\ version = 0 /\ price = 0 /\ quantity = 0
  /\ writer = [w \in Writers |-> NotWriting]
  /\ reader = [r \in Readers |-> NotReading]
  /\ stores = 0

----------------------------------------------------------------------------
(* store and clear: fetch_add, two stores, and the version made even.      *)
BeginStore(w) ==
  /\ writer[w].pc = "rest"
  /\ stores < MaxStores
  /\ stores' = stores + 1
  /\ version' = version + 1
  /\ writer' = [writer EXCEPT ![w] =
       [pc |-> "price", v |-> version, value |-> stores + 1]]
  /\ UNCHANGED <<price, quantity, reader>>

StorePrice(w) ==
  /\ writer[w].pc = "price"
  /\ price' = writer[w].value
  /\ writer' = [writer EXCEPT ![w].pc = "quantity"]
  /\ UNCHANGED <<version, quantity, reader, stores>>

StoreQuantity(w) ==
  /\ writer[w].pc = "quantity"
  /\ quantity' = writer[w].value
  /\ writer' = [writer EXCEPT ![w].pc = "publish"]
  /\ UNCHANGED <<version, price, reader, stores>>

PublishedOdd(w) == writer[w].v + 1
Published(w) == writer[w].v + 2

Publish(w) ==
  /\ writer[w].pc = "publish"
  /\ version' = Published(w)
  /\ writer' = [writer EXCEPT ![w].pc = "rest"]
  /\ UNCHANGED <<price, quantity, reader, stores>>

----------------------------------------------------------------------------
(* load: an odd version, or one that changed, sends the reader back.       *)
StartLoad(r) ==
  /\ reader[r].pc \in {"rest", "done"}
  /\ reader' = [reader EXCEPT ![r] = [NotReading EXCEPT !.pc = "version"]]
  /\ UNCHANGED <<version, price, quantity, writer, stores>>

EvenUnchecked == TRUE
Even == version % 2 = 0

LoadVersion(r) ==
  /\ reader[r].pc = "version"
  /\ Even
  /\ reader' = [reader EXCEPT ![r] =
       [pc |-> "price", v |-> version, p |-> 0, q |-> 0]]
  /\ UNCHANGED <<version, price, quantity, writer, stores>>

LoadPrice(r) ==
  /\ reader[r].pc = "price"
  /\ reader' = [reader EXCEPT ![r] =
       [pc |-> "quantity", v |-> @.v, p |-> price, q |-> 0]]
  /\ UNCHANGED <<version, price, quantity, writer, stores>>

LoadQuantity(r) ==
  /\ reader[r].pc = "quantity"
  /\ reader' = [reader EXCEPT ![r] =
       [pc |-> "verify", v |-> @.v, p |-> @.p, q |-> quantity]]
  /\ UNCHANGED <<version, price, quantity, writer, stores>>

Verify(r) ==
  /\ reader[r].pc = "verify"
  /\ reader' = [reader EXCEPT ![r] =
       [pc |-> IF @.v = version THEN "done" ELSE "version",
        v |-> @.v, p |-> @.p, q |-> @.q]]
  /\ UNCHANGED <<version, price, quantity, writer, stores>>

----------------------------------------------------------------------------
WriterStep(w) ==
  BeginStore(w) \/ StorePrice(w) \/ StoreQuantity(w) \/ Publish(w)

LoadStep(r) ==
  LoadVersion(r) \/ LoadPrice(r) \/ LoadQuantity(r) \/ Verify(r)

LevelNext ==
  \/ \E w \in Writers : WriterStep(w)
  \/ \E r \in Readers : StartLoad(r) \/ LoadStep(r)

LevelSpec == LevelInit /\ [][LevelNext]_levelVars

(* Threads inside store or load keep running.                              *)
LevelFairness ==
  /\ \A w \in Writers : WF_levelVars(writer[w].pc # "rest" /\ WriterStep(w))
  /\ \A r \in Readers : WF_levelVars(LoadStep(r))

----------------------------------------------------------------------------
WriterState ==
  [pc : {"rest", "price", "quantity", "publish"}, v : Nat, value : Nat]
ReaderState ==
  [pc : {"rest", "version", "price", "quantity", "verify", "done"},
   v : Nat, p : Nat, q : Nat]

(* Type invariant.                                                         *)
LevelTypeOK ==
  /\ version \in Nat /\ price \in Nat /\ quantity \in Nat /\ stores \in Nat
  /\ writer \in [Writers -> WriterState]
  /\ reader \in [Readers -> ReaderState]

(* load never returns the price of one store with the quantity of another. *)
NoTornRead ==
  \A r \in Readers : reader[r].pc = "done" => reader[r].p = reader[r].q

(* What a reader returns was the level's content when it read the version: *)
(* no older store, and no store that began later.                          *)
ReadsCurrent ==
  \A r \in Readers :
    reader[r].pc = "done" => 2 * reader[r].p = reader[r].v

(* A load returns once the writers let it.                                 *)
LoadsReturn ==
  \A r \in Readers : reader[r].pc = "version" ~> reader[r].pc = "done"
=============================================================================
