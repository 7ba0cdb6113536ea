------------------------------ MODULE LockFree ------------------------------
(***************************************************************************)
(* The lock-free structures the crate offers side by side: the price level *)
(* of atomic_orderbook.rs, the market frame of shared_memory.rs, the trade *)
(* log ring of ring_buffer_logger.rs, the freeze switch of                 *)
(* circuit_breaker.rs and the nonces of nonce_manager.rs.  They share no   *)
(* state, so a behaviour exercises one of them while the others rest.      *)
(***************************************************************************)
EXTENDS AtomicLevel, SharedMemory, RingBufferLogger, EngineCircuitBreaker, NonceManager

VARIABLE exercised

vars == <<levelVars, arenaVars, ringVars, engineVars, nonceVars, exercised>>

Init ==
  /\ LevelInit /\ ArenaInit /\ RingInit /\ BreakerInit /\ NonceInit
  /\ exercised \in {"level", "arena", "ring", "breaker", "nonce"}

Next ==
  /\ UNCHANGED exercised
  /\ \/ exercised = "level" /\ LevelNext
        /\ UNCHANGED <<arenaVars, ringVars, engineVars, nonceVars>>
     \/ exercised = "arena" /\ ArenaNext
        /\ UNCHANGED <<levelVars, ringVars, engineVars, nonceVars>>
     \/ exercised = "ring" /\ RingNext
        /\ UNCHANGED <<levelVars, arenaVars, engineVars, nonceVars>>
     \/ exercised = "breaker" /\ BreakerNext
        /\ UNCHANGED <<levelVars, arenaVars, ringVars, nonceVars>>
     \/ exercised = "nonce" /\ NonceNext
        /\ UNCHANGED <<levelVars, arenaVars, ringVars, engineVars>>

Spec == Init /\ [][Next]_vars

(* Threads inside a store or a load of the level keep running.             *)
FairSpec == Spec /\ LevelFairness

=============================================================================
