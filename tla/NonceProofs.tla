----------------------------- MODULE NonceProofs -----------------------------
(***************************************************************************)
(* Nonces increase, for any number of threads, every width of the counter  *)
(* and every value that is set.  The step that matters is the successful   *)
(* swap of next_nonce: the counter is above the last nonce issued, which   *)
(* holds since only a swap to a larger value, a forced value or a          *)
(* registration moves it.                                                  *)
(***************************************************************************)
EXTENDS NonceManager, TLAPS

(* The counter of a registered exchange is above every nonce it issued,    *)
(* and a call is only under way for a registered exchange.                 *)
NonceInv ==
  /\ NonceTypeOK
  /\ counter = Unregistered => issued = NoneYet
  /\ counter # Unregistered => issued < counter
  /\ \A t \in Askers : asker[t].pc # "rest" => counter # Unregistered

(* No nonce is issued and no call runs before the first registration.      *)
LEMMA NonceInitially == NonceInit => NonceInv
BY NonceAssumption
   DEF NonceInit, NonceInv, NonceTypeOK, AskerState, NotAsking, Unregistered, NoneYet

(* Every access of next_nonce, set_nonce, force_set_nonce and              *)
(* register_exchange keeps the counter above the nonces issued.            *)
LEMMA NoncePreserved == NonceInv /\ [NonceNext]_nonceVars => NonceInv'
<1> SUFFICES ASSUME NonceInv, [NonceNext]_nonceVars PROVE NonceInv'
  OBVIOUS
<1> USE NonceAssumption DEF NonceInv, NonceTypeOK, AskerState, NotAsking,
        Unregistered, NoneYet
<1>1. ASSUME NEW t \in Askers, NextLoad(t) PROVE NonceInv'
  BY <1>1 DEF NextLoad, Loaded
<1>2. ASSUME NEW t \in Askers, NextSwap(t) PROVE NonceInv'
  <2>1. CASE Overflows(asker[t].seen) /\ asker' = [asker EXCEPT ![t] = NotAsking]
             /\ UNCHANGED <<counter, issued, given, resets>>
    BY <2>1
  <2>2. CASE /\ ~Overflows(asker[t].seen) /\ counter = asker[t].seen
             /\ counter' = counter + 1 /\ issued' = counter /\ given' = given + 1
             /\ asker' = [asker EXCEPT ![t] = NotAsking] /\ UNCHANGED resets
    <3>1. counter \in 0..NonceMax /\ counter # NonceMax
      BY <2>2 DEF Overflows
    <3> QED BY <2>2, <3>1
  <2>3. CASE /\ asker' = Loaded(t, "next", 0)
             /\ UNCHANGED <<counter, issued, given, resets>>
    <3>1. counter \in 0..NonceMax
      BY <1>2 DEF NextSwap
    <3> QED BY <2>3, <3>1 DEF Loaded
  <2> QED BY <1>2, <2>1, <2>2, <2>3 DEF NextSwap
<1>3. ASSUME NEW t \in Askers, SetLoad(t) PROVE NonceInv'
  BY <1>3 DEF SetLoad, Loaded
<1>4. ASSUME NEW t \in Askers, SetSwap(t) PROVE NonceInv'
  <2>1. asker[t].min \in 0..NonceMax /\ counter \in 0..NonceMax
    BY <1>4 DEF SetSwap
  <2>2. CASE UNCHANGED counter
    BY <1>4, <2>1, <2>2 DEF SetSwap, Loaded
  <2>3. CASE /\ ~MinReached(t) /\ counter = asker[t].seen /\ counter' = asker[t].min
             /\ asker' = [asker EXCEPT ![t] = NotAsking]
    BY <1>4, <2>1, <2>3 DEF SetSwap, MinReached
  <2> QED BY <1>4, <2>2, <2>3 DEF SetSwap
<1>5. ASSUME NEW v \in Minima, Restart(v) PROVE NonceInv'
  BY <1>5 DEF Restart
<1>6. CASE UNCHANGED nonceVars
  BY <1>6 DEF nonceVars
<1> QED BY <1>1, <1>2, <1>3, <1>4, <1>5, <1>6 DEF NonceNext, ForceSet, Register

(* Only the swap of next_nonce issues a nonce, and it issues the counter.  *)
LEMMA NonceStep ==
  ASSUME NonceInv, [NonceNext]_nonceVars
  PROVE  given' > given => issued' > issued
<1> USE DEF NonceInv, NonceTypeOK
<1>1. ASSUME NEW t \in Askers, NextSwap(t), given' > given PROVE issued' > issued
  <2>1. counter # Unregistered
    BY <1>1 DEF NextSwap
  <2>2. issued' = counter
    BY <1>1 DEF NextSwap
  <2> QED BY <2>1, <2>2, NonceAssumption DEF Unregistered, NoneYet
<1>2. ASSUME NEW v \in Minima, Restart(v) PROVE ~(given' > given)
  BY <1>2 DEF Restart
<1>3. ASSUME NEW t \in Askers, NextLoad(t) \/ SetLoad(t) \/ SetSwap(t)
      PROVE  ~(given' > given)
  BY <1>3 DEF NextLoad, SetLoad, SetSwap
<1>4. CASE UNCHANGED nonceVars
  BY <1>4 DEF nonceVars
<1> QED BY <1>1, <1>2, <1>3, <1>4 DEF NonceNext, ForceSet, Register

(* Nonces strictly increase between forced values, however next_nonce,     *)
(* set_nonce and sync_with_server interleave.                              *)
THEOREM NoncesStrictlyIncrease == NonceSpec => NoncesIncrease
<1>1. NonceInv /\ [NonceNext]_nonceVars => [given' > given => issued' > issued]_nonceVars
  BY NonceStep
<1> QED BY <1>1, NonceInitially, NoncePreserved, PTL DEF NonceSpec, NoncesIncrease
=============================================================================
