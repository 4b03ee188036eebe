--------------------------- MODULE StakingHandler ---------------------------
(***************************************************************************)
(* Stakes as balance locks (runtime-modules/staking-handler).              *)
(*                                                                         *)
(* A lock table lk maps a lock identifier and an account to the amount     *)
(* locked, 0 meaning that the account has no lock with that identifier.    *)
(* The operators return a new table, so that a handler that unlocks one    *)
(* stake and locks another composes them in the order of its calls.        *)
(***************************************************************************)
EXTENDS Integers

CONSTANTS
    Accounts,           \* accounts that can carry a lock
    LockIds,            \* lock identifiers in use
    NonRivalrousLocks,  \* identifiers that never conflict with another lock
    FreeBalance         \* genesis balance of an account, locked funds included

ASSUME StakingAssumption ==
    /\ NonRivalrousLocks \subseteq LockIds
    /\ FreeBalance \in [Accounts -> Nat]

LockTables == [LockIds -> [Accounts -> Nat]]

NoLocks == [id \in LockIds |-> [a \in Accounts |-> 0]]

(* Faulty variant: extends a lock, so that it never shrinks. *)
SetLockExtends(lk, id, a, amount) ==
    IF amount <= lk[id][a] THEN lk
    ELSE [lk EXCEPT ![id][a] = amount]

(* pallet_balances::set_lock: overwrites the lock with this identifier and *)
(* ignores a zero amount.                                                  *)
SetLock(lk, id, a, amount) ==
    IF amount = 0 THEN lk
    ELSE [lk EXCEPT ![id][a] = amount]

(* pallet_balances::remove_lock: removing an absent lock does nothing.     *)
RemoveLock(lk, id, a) == [lk EXCEPT ![id][a] = 0]

RemoveLocks(lk, id, S) ==
    [lk EXCEPT ![id] = [a \in Accounts |-> IF a \in S THEN 0 ELSE @[a]]]

LocksOf(lk, a) == {id \in LockIds : lk[id][a] # 0}

(* Faulty variant: a lock conflicts only with itself. *)
ConflictsWithItself(newLock, existing) ==
    newLock \notin NonRivalrousLocks /\ newLock \in existing

(* LockComparator::are_locks_conflicting of the runtime. *)
AreLocksConflicting(newLock, existing) ==
    /\ existing # {}
    /\ newLock \notin NonRivalrousLocks
    /\ existing \ NonRivalrousLocks # {}

IsAccountFreeOfConflictingStakes(lk, id, a) ==
    ~ AreLocksConflicting(id, LocksOf(lk, a))

IsEnoughBalanceForStake(free, a, amount) == free[a] >= amount

(* What StakingManager::slash takes: the stake, up to the amount asked for. *)
Slashable(lk, id, a, amount) ==
    IF lk[id][a] > amount THEN amount ELSE lk[id][a]

(* pallet_balances::slash burns what there is. *)
BalanceAfterSlash(balance, amount) ==
    IF amount > balance THEN 0 ELSE balance - amount

-----------------------------------------------------------------------------
(* A stake that is not meant to be shared: no account carries two of them. *)
RivalrousLocksExclusive(lk) ==
    \A a \in Accounts : \A i, j \in LocksOf(lk, a) \ NonRivalrousLocks : i = j
=============================================================================
