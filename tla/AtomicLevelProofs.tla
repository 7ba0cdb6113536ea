------------------------- MODULE AtomicLevelProofs --------------------------
(***************************************************************************)
(* With one writer, load returns a pair that was stored as a pair: for any *)
(* number of readers and stores.                                           *)
(***************************************************************************)
EXTENDS AtomicLevel, TLAPS

(* What version, price and quantity are at each position of writer w, as   *)
(* functions of the number of stores begun.                                *)
WriterInv(w) ==
  /\ writer[w].pc = "rest" =>
       version = 2 * stores /\ price = stores /\ quantity = stores
  /\ writer[w].pc # "rest" =>
       /\ writer[w].value = stores /\ stores > 0
       /\ writer[w].v = 2 * (stores - 1)
       /\ version = 2 * stores - 1
  /\ writer[w].pc = "price" => price = stores - 1 /\ quantity = stores - 1
  /\ writer[w].pc = "quantity" => price = stores /\ quantity = stores - 1
  /\ writer[w].pc = "publish" => price = stores /\ quantity = stores

(* A reader whose version is still the current one has read values that    *)
(* belong to that version; what it has returned belongs to its version.    *)
ReaderInv(r) ==
  /\ reader[r].pc \in {"price", "quantity", "verify", "done"} =>
       reader[r].v % 2 = 0 /\ reader[r].v <= version
  /\ reader[r].pc \in {"quantity", "verify"} /\ reader[r].v = version =>
       2 * reader[r].p = reader[r].v
  /\ reader[r].pc = "verify" /\ reader[r].v = version =>
       2 * reader[r].q = reader[r].v
  /\ reader[r].pc = "done" =>
       2 * reader[r].p = reader[r].v /\ 2 * reader[r].q = reader[r].v

LevelInv(w) == LevelTypeOK /\ WriterInv(w) /\ \A r \in Readers : ReaderInv(r)

(* Every step of store, clear and load keeps the types.                    *)
LEMMA LevelTypes == LevelTypeOK /\ [LevelNext]_levelVars => LevelTypeOK'
<1> SUFFICES ASSUME LevelTypeOK, [LevelNext]_levelVars PROVE LevelTypeOK'
  OBVIOUS
<1> USE DEF LevelTypeOK, WriterState, ReaderState
<1>1. ASSUME NEW w \in Writers, WriterStep(w) PROVE LevelTypeOK'
  BY <1>1 DEF WriterStep, BeginStore, StorePrice, StoreQuantity, Publish,
     Published
<1>2. ASSUME NEW r \in Readers, StartLoad(r) \/ LoadStep(r) PROVE LevelTypeOK'
  BY <1>2 DEF StartLoad, LoadStep, LoadVersion, LoadPrice, LoadQuantity,
     Verify, NotReading
<1>3. CASE UNCHANGED levelVars
  BY <1>3 DEF levelVars
<1> QED BY <1>1, <1>2, <1>3 DEF LevelNext

(* The version of a store in progress is odd.                              *)
LEMMA OddInProgress == \A n \in Nat : (2 * n - 1) % 2 = 1
  OBVIOUS

(* A version read when it was even and that is at most the old version is  *)
(* not the version after a step that moved on or found it odd.             *)
LEMMA VersionMoved ==
  ASSUME NEW v \in Nat, NEW old \in Nat, NEW new \in Nat,
         new > old \/ (new = old /\ old % 2 = 1)
  PROVE  /\ v <= old => v <= new
         /\ v <= old /\ v % 2 = 0 => v # new
  OBVIOUS

(* A step of the only writer keeps its own invariant, and raises the       *)
(* version whenever it touches what readers rely on.                       *)
LEMMA WriterKeeps ==
  ASSUME NEW w \in Writers, LevelInv(w), WriterStep(w)
  PROVE  WriterInv(w)' /\ \A r \in Readers : ReaderInv(r)'
<1> USE DEF LevelInv, LevelTypeOK, WriterState, ReaderState, WriterInv
<1>1. WriterInv(w)'
  BY DEF WriterStep, BeginStore, StorePrice, StoreQuantity, Publish, Published
<1>2. reader' = reader
  BY DEF WriterStep, BeginStore, StorePrice, StoreQuantity, Publish
<1>3. version' > version \/ (version' = version /\ version % 2 = 1)
  <2>1. CASE BeginStore(w) \/ Publish(w)
    BY <2>1 DEF BeginStore, Publish, Published
  <2>2. CASE StorePrice(w) \/ StoreQuantity(w)
    <3>1. version' = version /\ version = 2 * stores - 1 /\ stores \in Nat
      BY <2>2 DEF StorePrice, StoreQuantity
    <3> QED BY <3>1, OddInProgress
  <2> QED BY <2>1, <2>2 DEF WriterStep
<1>4. ASSUME NEW r \in Readers PROVE ReaderInv(r)'
  <2>1. version \in Nat /\ version' \in Nat /\ reader[r].v \in Nat
    BY DEF WriterStep, BeginStore, StorePrice, StoreQuantity, Publish, Published
  <2>2. /\ reader[r].v <= version => reader[r].v <= version'
        /\ reader[r].v <= version /\ reader[r].v % 2 = 0
             => reader[r].v # version'
    BY <1>3, <2>1, VersionMoved
  <2> QED BY <1>2, <2>2, ReaderInv(r) DEF ReaderInv
<1> QED BY <1>1, <1>4

(* A step of a load reads values that belong to an even current version.   *)
LEMMA ReaderKeeps ==
  ASSUME NEW w \in Writers, LevelInv(w), NEW r \in Readers,
         StartLoad(r) \/ LoadStep(r)
  PROVE  WriterInv(w)' /\ \A s \in Readers : ReaderInv(s)'
<1> USE DEF LevelInv, LevelTypeOK, WriterState, ReaderState
<1>1. UNCHANGED <<version, price, quantity, writer, stores>>
  BY DEF StartLoad, LoadStep, LoadVersion, LoadPrice, LoadQuantity, Verify
<1>2. WriterInv(w)'
  BY <1>1 DEF WriterInv
<1>3. version % 2 = 0 => 2 * price = version /\ 2 * quantity = version
  <2>1. writer[w].pc # "rest" => version = 2 * stores - 1 /\ stores \in Nat
    BY DEF WriterInv
  <2>2. writer[w].pc # "rest" => version % 2 = 1
    BY <2>1, OddInProgress
  <2> QED BY <2>2 DEF WriterInv
<1>4. ReaderInv(r)'
  BY <1>1, <1>3 DEF StartLoad, LoadStep, LoadVersion, LoadPrice, LoadQuantity,
     Verify, NotReading, ReaderInv, Even
<1>5. ASSUME NEW s \in Readers, s # r PROVE ReaderInv(s)'
  BY <1>1, <1>5 DEF StartLoad, LoadStep, LoadVersion, LoadPrice, LoadQuantity,
     Verify, ReaderInv
<1> QED BY <1>2, <1>4, <1>5

(* load is free of torn reads and returns the content of its version: one  *)
(* writer per level, as the feed that owns the book has it.                *)
THEOREM LoadIsConsistent ==
  ASSUME NEW CONSTANT w, Writers = {w}
  PROVE  LevelSpec => [](NoTornRead /\ ReadsCurrent)
<1>1. LevelInit => LevelInv(w)
  BY DEF LevelInit, LevelInv, LevelTypeOK, WriterInv, ReaderInv, WriterState,
     ReaderState, NotWriting, NotReading
<1>2. LevelInv(w) /\ [LevelNext]_levelVars => LevelInv(w)'
  <2> SUFFICES ASSUME LevelInv(w), [LevelNext]_levelVars PROVE LevelInv(w)'
    OBVIOUS
  <2>1. LevelTypeOK'
    BY LevelTypes DEF LevelInv
  <2>2. CASE WriterStep(w)
    BY <2>1, <2>2, WriterKeeps DEF LevelInv
  <2>3. CASE \E r \in Readers : StartLoad(r) \/ LoadStep(r)
    BY <2>1, <2>3, ReaderKeeps DEF LevelInv
  <2>4. CASE UNCHANGED levelVars
    BY <2>1, <2>4 DEF LevelInv, WriterInv, ReaderInv, levelVars
  <2> QED BY <2>2, <2>3, <2>4 DEF LevelNext
<1>3. LevelInv(w) => NoTornRead /\ ReadsCurrent
  BY DEF LevelInv, LevelTypeOK, ReaderState, ReaderInv, NoTornRead, ReadsCurrent
<1> QED BY <1>1, <1>2, <1>3, PTL DEF LevelSpec
=============================================================================
