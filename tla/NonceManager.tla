----------------------------- MODULE NonceManager -----------------------------
(***************************************************************************)
(* The counter of one exchange in nonce_manager.rs; the counters of others *)
(* are independent.  fetch_update and ensure_min are loops of a load and a *)
(* compare_exchange_weak, which may fail for no reason.  A call holds the  *)
(* read lock of the map from its lookup to its end.                        *)
(***************************************************************************)
EXTENDS Integers

CONSTANTS
  Askers,     \* threads that call the manager
  NonceMax,   \* u64::MAX
  Minima,     \* values given to set_nonce, sync_with_server, force_set_nonce
              \* and register_exchange
  MaxResets   \* bound: registrations and forced values

ASSUME NonceAssumption ==
  NonceMax \in Nat /\ Minima \subseteq 0..NonceMax /\ MaxResets \in Nat

Unregistered == -1
NoneYet == -1

VARIABLES
  counter,  \* current, or Unregistered
  asker,    \* per thread: position, value it loaded, min_value
  issued,   \* history: the last nonce since a registration or forced value
  given,    \* history: number of nonces since then
  resets    \* number of registrations and forced values

nonceVars == <<counter, asker, issued, given, resets>>
NotAsking == [pc |-> "rest", seen |-> 0, min |-> 0]

NonceInit ==
  /\ counter = Unregistered
  /\ asker = [t \in Askers |-> NotAsking]
  /\ issued = NoneYet /\ given = 0 /\ resets = 0

----------------------------------------------------------------------------
(* next_nonce: None for an exchange that is not registered.  The nonce is  *)
(* the value before the increment, which fails at the last value.          *)
Loaded(t, pc, min) == [asker EXCEPT ![t] = [pc |-> pc, seen |-> counter, min |-> min]]
NextLoad(t) ==
  /\ asker[t].pc = "rest" /\ counter # Unregistered
  /\ asker' = Loaded(t, "next", 0)
  /\ UNCHANGED <<counter, issued, given, resets>>

Overflows(v) == v = NonceMax
NextSwap(t) ==
  /\ asker[t].pc = "next"
  /\ \/ /\ Overflows(asker[t].seen)
        /\ asker' = [asker EXCEPT ![t] = NotAsking]
        /\ UNCHANGED <<counter, issued, given>>
     \/ /\ ~Overflows(asker[t].seen)
        /\ counter = asker[t].seen
        /\ counter' = counter + 1
        /\ issued' = counter /\ given' = given + 1
        /\ asker' = [asker EXCEPT ![t] = NotAsking]
     \/ /\ ~Overflows(asker[t].seen)
        /\ asker' = Loaded(t, "next", 0)
        /\ UNCHANGED <<counter, issued, given>>
  /\ UNCHANGED resets

(* set_nonce and sync_with_server: ensure_min.                           *)
SetLoad(t) ==
  /\ asker[t].pc = "rest" /\ counter # Unregistered
  /\ \E v \in Minima : asker' = Loaded(t, "ensure", v)
  /\ UNCHANGED <<counter, issued, given, resets>>

MinNeverReached(t) == FALSE
MinReached(t) == asker[t].seen >= asker[t].min
SetSwap(t) ==
  /\ asker[t].pc = "ensure"
  /\ \/ /\ MinReached(t)
        /\ asker' = [asker EXCEPT ![t] = NotAsking]
        /\ UNCHANGED counter
     \/ /\ ~MinReached(t)
        /\ counter = asker[t].seen
        /\ counter' = asker[t].min
        /\ asker' = [asker EXCEPT ![t] = NotAsking]
     \/ /\ ~MinReached(t)
        /\ asker' = Loaded(t, "ensure", asker[t].min)
        /\ UNCHANGED counter
  /\ UNCHANGED <<issued, given, resets>>

(* force_set_nonce is one store; register_exchange replaces the counter    *)
(* under the write lock, when no other call is under way.                  *)
Restart(v) ==
  /\ resets < MaxResets
  /\ counter' = v
  /\ issued' = NoneYet /\ given' = 0 /\ resets' = resets + 1
  /\ UNCHANGED asker
ForceSet == counter # Unregistered /\ \E v \in Minima : Restart(v)
Register == (\A t \in Askers : asker[t].pc = "rest") /\ \E v \in Minima : Restart(v)

NonceNext ==
  \/ \E t \in Askers : NextLoad(t) \/ NextSwap(t) \/ SetLoad(t) \/ SetSwap(t)
  \/ ForceSet \/ Register
NonceSpec == NonceInit /\ [][NonceNext]_nonceVars

----------------------------------------------------------------------------
(* The type of the counter, the threads and the histories.                 *)
AskerState == [pc : {"rest", "next", "ensure"}, seen : 0..NonceMax, min : 0..NonceMax]
NonceTypeOK ==
  /\ counter \in 0..NonceMax \cup {Unregistered}
  /\ asker \in [Askers -> AskerState]
  /\ issued \in 0..NonceMax \cup {NoneYet}
  /\ given \in Nat /\ resets \in 0..MaxResets

(* Unless an operator forces the counter or registers the exchange anew,   *)
(* every nonce is larger than all before it: not two of them are equal,    *)
(* however calls of next_nonce, set_nonce with an old value and            *)
(* sync_with_server interleave, and the counter does not wrap.             *)
NoncesIncrease == [][given' > given => issued' > issued]_nonceVars
=============================================================================
