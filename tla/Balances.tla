------------------------------ MODULE Balances ------------------------------
(***************************************************************************)
(* The accounts of the Libra chain, as the p2p-payment pallet sees them    *)
(* through T::Currency (pallet_balances, external) and as every extrinsic  *)
(* meets them through ChargeTransactionPayment: one free balance per       *)
(* account, overlaid by locks.  A lock does not move tokens, it forbids    *)
(* the free balance to drop below it, and the locks of an account overlap: *)
(* what is frozen is their maximum, not their sum.                         *)
(*                                                                         *)
(* Payments and Resolvers EXTEND this module; P2pPayment puts them         *)
(* together.                                                               *)
(***************************************************************************)
EXTENDS Integers, Functions, FiniteSets

CONSTANTS
    Accounts,           \* the accounts that sign extrinsics
    EndowedAccounts,    \* the accounts that hold tokens in the genesis block
    Endowment,          \* what each of them holds
    ExistentialDeposit, \* an account below it is reaped
    Fee,                \* the fee of an extrinsic (0: the fee is abstracted away)
    FaucetAmount,       \* what a call of faucet mints
    MaxBalance,         \* the largest u128 balance
    Amounts             \* the amounts a caller may name

ASSUME BalancesAssumption ==
    /\ EndowedAccounts \subseteq Accounts
    /\ ExistentialDeposit \in Nat \ {0}
    /\ Fee \in Nat
    /\ MaxBalance \in Nat
    /\ Endowment \in ExistentialDeposit .. MaxBalance
    /\ Amounts \subseteq 0 .. MaxBalance
    /\ FaucetAmount \in Nat /\ FaucetAmount >= ExistentialDeposit

\* An account identifier is the identifier of a public key: there are many,
\* but finitely many.
ASSUME AccountsAssumption == IsFiniteSet(Accounts)

VARIABLES
    free,   \* free[a]: the free balance of a, 0 when a does not exist
    locks   \* locks[a][id]: the amount of a's lock id, 0 when there is none

balanceVars == <<free, locks>>

LockIds == {"lockerid", "resolver", "delegate"}

Balance == 0 .. MaxBalance

BalancesTypeOK ==
    /\ free \in [Accounts -> Balance]
    /\ locks \in [Accounts -> [LockIds -> Balance]]

BalancesInit ==
    /\ free = [a \in Accounts |-> IF a \in EndowedAccounts THEN Endowment ELSE 0]
    /\ locks = [a \in Accounts |-> [id \in LockIds |-> 0]]

-----------------------------------------------------------------------------
(* The lock table.                                                         *)

\* Slips: set_lock as extend_lock, as an addition, and as the account's only
\* lock.
SetLockExtending(a, id, amount) ==
    IF amount <= locks[a][id] THEN locks ELSE [locks EXCEPT ![a][id] = amount]

SetLockAdding(a, id, amount) == [locks EXCEPT ![a][id] = @ + amount]

SetLockAlone(a, id, amount) ==
    [locks EXCEPT ![a] = [x \in LockIds |-> IF x = id THEN amount ELSE 0]]

\* set_lock: an amount of zero is a no-op, an existing lock is overwritten.
SetLock(a, id, amount) ==
    IF amount = 0 THEN locks ELSE [locks EXCEPT ![a][id] = amount]

RemoveLock(a, id) == [locks EXCEPT ![a][id] = 0]

\* Slip: only the lock of the payments is looked at.
CanWithdrawUnlocked(lk, a, rest) == lk[a]["lockerid"] <= rest

\* ensure_can_withdraw: no lock of a may exceed what the withdrawal leaves.
CanWithdraw(lk, a, rest) == \A id \in LockIds : lk[a][id] <= rest

HasNoLock(lk, a) == \A id \in LockIds : lk[a][id] = 0

-----------------------------------------------------------------------------
(* Currency::transfer on balances f and locks lk.                          *)

Noop(from, to, amount) == amount = 0 \/ from = to

\* Slip: the receiver's balance may overflow.
CoveredUnbounded(f, lk, from, to, amount) ==
    /\ amount <= f[from]
    /\ f[to] + amount >= ExistentialDeposit
    /\ CanWithdraw(lk, from, f[from] - amount)

\* What every transfer checks, before it looks at the sender's survival.
Covered(f, lk, from, to, amount) ==
    /\ amount <= f[from]
    /\ f[to] + amount \in ExistentialDeposit .. MaxBalance
    /\ CanWithdraw(lk, from, f[from] - amount)

\* Slip: AllowDeath, without the reaping.
CanTransferAll(f, lk, from, to, amount) ==
    Noop(from, to, amount) \/ Covered(f, lk, from, to, amount)

\* ExistenceRequirement::KeepAlive
CanTransfer(f, lk, from, to, amount) ==
    \/ Noop(from, to, amount)
    \/ /\ Covered(f, lk, from, to, amount)
       /\ f[from] - amount >= ExistentialDeposit

\* Slip: the amount is not taken from the sender.
MovedTwice(f, from, to, amount) ==
    IF Noop(from, to, amount) THEN f ELSE [f EXCEPT ![to] = @ + amount]

Moved(f, from, to, amount) ==
    IF Noop(from, to, amount) THEN f
    ELSE [f EXCEPT ![from] = @ - amount, ![to] = @ + amount]

-----------------------------------------------------------------------------
(* The fee, withdrawn before the dispatch with KeepAlive and kept whatever *)
(* the dispatch returns.  It is burnt: the runtime's OnUnbalanced is ().   *)

CanPayFee(a) ==
    \/ Fee = 0
    \/ /\ free[a] - Fee >= ExistentialDeposit
       /\ CanWithdraw(locks, a, free[a] - Fee)

AfterFee(a) == [free EXCEPT ![a] = @ - Fee]

-----------------------------------------------------------------------------
(* Calls that touch nothing but the accounts.                              *)

\* A call that an ensure! or an ok_or refuses before its first write.
DispatchError(a) ==
    /\ CanPayFee(a)
    /\ free' = AfterFee(a)
    /\ UNCHANGED locks

\* Balances::transfer of the runtime, ExistenceRequirement::AllowDeath: a
\* sender left below the existential deposit is reaped and its dust is lost,
\* unless a lock keeps it alive.
WalletTransfer(from, to, amount) ==
    LET paid == AfterFee(from)
        rest == paid[from] - amount
    IN  /\ CanPayFee(from)
        /\ ~ Noop(from, to, amount)
        /\ Covered(paid, locks, from, to, amount)
        /\ rest >= ExistentialDeposit \/ HasNoLock(locks, from)
        /\ free' = [Moved(paid, from, to, amount) EXCEPT
                        ![from] = IF rest < ExistentialDeposit THEN 0 ELSE rest]
        /\ UNCHANGED locks

\* faucet: no fee; deposit_creating drops a deposit that overflows.
Faucet(a) ==
    /\ free' = IF free[a] + FaucetAmount <= MaxBalance
               THEN [free EXCEPT ![a] = @ + FaucetAmount]
               ELSE free
    /\ UNCHANGED locks

BalancesNext ==
    \E a \in Accounts :
        \/ DispatchError(a)
        \/ Faucet(a)
        \/ \E b \in Accounts, amount \in Amounts : WalletTransfer(a, b, amount)

-----------------------------------------------------------------------------
(* Properties of the accounts, whatever extends this module.               *)

\* No step of any call leaves an account with a balance between zero and the
\* existential deposit: pallet code moves tokens with KeepAlive only, the fee
\* cannot kill its payer, and a wallet transfer reaps what it leaves behind.
Dustless(f) == \A a \in Accounts : f[a] = 0 \/ f[a] >= ExistentialDeposit

NoDust == Dustless(free)

\* Every lock the pallet sets is covered by tokens the account still holds:
\* fees, transfers, completions and settlements of one role of an account
\* never eat into what another role of it has locked.
Backed(f, lk) == \A a \in Accounts, id \in LockIds : lk[a][id] <= f[a]

LocksBacked == Backed(free, locks)

\* Tokens appear by faucet alone and disappear as fees and as the dust of a
\* reaped sender alone: no sequence of deposits, failed completions, cancels
\* and settlements pays anyone from nothing or loses an amount on the way.
Supply(f) == SumFunctionOnSet(f, Accounts)

SupplyStep ==
    LET change == Supply(free') - Supply(free)
    IN  \/ change \in {FaucetAmount, 0, -Fee}
        \/ \E a \in Accounts :
              /\ free[a] > 0 /\ free'[a] = 0
              /\ -Fee - change \in 1 .. ExistentialDeposit - 1

SupplyAccounted == [][SupplyStep]_balanceVars
=============================================================================
