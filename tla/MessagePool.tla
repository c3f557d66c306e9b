----------------------------- MODULE MessagePool ----------------------------
(***************************************************************************)
(* The MQX private message pool the slave task allocates from (msg.c,      *)
(* msgpool.c): SIZE free messages out of MAX existing ones, MAX growing by *)
(* GROW_NUMBER up to GROW_LIMIT.  A pool is a record; the operators give   *)
(* the pool after a call.                                                  *)
(***************************************************************************)
EXTENDS Naturals

CONSTANTS PoolInit,   (* _msgpool_create's num_messages: 64 in the bridge   *)
          PoolGrow,   (* its grow_number: 4                                 *)
          PoolMax     (* its grow_limit: 2048                               *)

ASSUME PoolAssumption ==
    /\ PoolInit \in Nat \ {0}
    /\ PoolGrow \in Nat \ {0}
    /\ PoolMax \in Nat
    /\ PoolInit <= PoolMax

PoolType == [size : 0..PoolMax, max : PoolInit..PoolMax]

CreatedPool == [size |-> PoolInit, max |-> PoolInit]

(* _msg_available: the free messages there are, not those growth could add *)
Available(pool) == pool.size

(* _msg_alloc grows an exhausted pool before it takes a message. *)
Grown(pool) ==
    IF pool.size = 0 /\ pool.max < PoolMax
    THEN LET n == IF PoolGrow > PoolMax - pool.max THEN PoolMax - pool.max ELSE PoolGrow
         IN  [size |-> n, max |-> pool.max + n]
    ELSE pool

CanAlloc(pool) == Grown(pool).size > 0
AfterAlloc(pool) == [Grown(pool) EXCEPT !.size = @ - 1]
AfterFree(pool)  == [pool EXCEPT !.size = @ + 1]
=============================================================================
