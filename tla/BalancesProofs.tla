--------------------------- MODULE BalancesProofs ---------------------------
(***************************************************************************)
(* What the operations on accounts preserve: an account book is sound when *)
(* its balances and locks are in range, no account is dust and every lock  *)
(* is backed.  The fee, the locks, transfers and the faucet each keep it   *)
(* sound, and each changes the sum of the balances by what it says: that   *)
(* is all the proofs about the pallet's calls need.                        *)
(***************************************************************************)
EXTENDS Balances, DataFacts

Sound(f, lk) ==
    /\ f \in [Accounts -> Balance]
    /\ lk \in [Accounts -> [LockIds -> Balance]]
    /\ Dustless(f)
    /\ Backed(f, lk)

\* The genesis accounts are sound.
LEMMA InitSound == BalancesInit => Sound(free, locks)
  BY BalancesAssumption
  DEF BalancesInit, Sound, Dustless, Backed, Balance, LockIds

\* The fee takes nothing that a lock or the existential deposit needs.
LEMMA FeeSound ==
  ASSUME Sound(free, locks), NEW a \in Accounts, CanPayFee(a)
  PROVE  Sound(AfterFee(a), locks)
  <1> DEFINE paid == AfterFee(a)
  <1>1. free[a] \in Nat /\ Fee \in Nat /\ ExistentialDeposit \in Nat \ {0}
    BY BalancesAssumption DEF Sound, Balance
  <1>2. paid = [b \in Accounts |-> IF b = a THEN free[a] - Fee ELSE free[b]]
    BY DEF AfterFee, Sound
  <1>3. free[a] - Fee \in Balance
    BY <1>1, BalancesAssumption DEF CanPayFee, Sound, Balance
  <1>4. paid \in [Accounts -> Balance]
    BY <1>2, <1>3 DEF Sound
  <1>5. Dustless(paid)
    BY <1>1, <1>2 DEF CanPayFee, Sound, Dustless
  <1>6. Backed(paid, locks)
    BY <1>1, <1>2 DEF CanPayFee, CanWithdraw, Sound, Backed
  <1> QED BY <1>4, <1>5, <1>6 DEF Sound

\* A lock of no more than the free balance is backed.
LEMMA SetLockSound ==
  ASSUME NEW f, Sound(f, locks), NEW a \in Accounts, NEW id \in LockIds,
         NEW amount \in Balance, amount <= f[a]
  PROVE  Sound(f, SetLock(a, id, amount))
  BY DEF SetLock, Sound, Backed

\* Removing a lock endangers no other.
LEMMA RemoveLockSound ==
  ASSUME NEW f, Sound(f, locks), NEW a \in Accounts, NEW id \in LockIds
  PROVE  Sound(f, RemoveLock(a, id))
  <1> DEFINE lk == RemoveLock(a, id)
  <1>1. lk = [b \in Accounts |-> IF b = a THEN [locks[a] EXCEPT ![id] = 0]
                                 ELSE locks[b]]
    BY DEF RemoveLock, Sound
  <1>2. 0 \in Balance /\ \A b \in Accounts : f[b] >= 0
    BY BalancesAssumption DEF Balance, Sound
  <1>3. lk \in [Accounts -> [LockIds -> Balance]]
    BY <1>1, <1>2 DEF Sound
  <1>4. Backed(f, lk)
    BY <1>1, <1>2 DEF Sound, Backed
  <1> QED BY <1>3, <1>4 DEF Sound

\* A transfer that keeps its sender alive keeps the book sound.
LEMMA MovedSound ==
  ASSUME NEW f, NEW lk, Sound(f, lk), NEW from \in Accounts, NEW to \in Accounts,
         NEW amount \in Balance, CanTransfer(f, lk, from, to, amount)
  PROVE  Sound(Moved(f, from, to, amount), lk)
  <1> DEFINE g == Moved(f, from, to, amount)
  <1>1. CASE Noop(from, to, amount)
    BY <1>1 DEF Moved
  <1>2. CASE ~ Noop(from, to, amount)
    <2>1. g = [a \in Accounts |-> IF a = to THEN f[to] + amount
                                  ELSE IF a = from THEN f[from] - amount ELSE f[a]]
      BY <1>2 DEF Moved, Noop, Sound
    <2>2. /\ amount \in Nat /\ ExistentialDeposit \in Nat \ {0} /\ MaxBalance \in Nat
          /\ \A a \in Accounts : f[a] \in Nat /\ f[a] <= MaxBalance
      BY BalancesAssumption DEF Sound, Balance
    <2>3. /\ f[to] + amount \in Balance /\ f[to] + amount >= ExistentialDeposit
          /\ f[from] - amount \in Balance /\ f[from] - amount >= ExistentialDeposit
          /\ CanWithdraw(lk, from, f[from] - amount)
      BY <1>2, <2>2 DEF CanTransfer, Covered, Balance
    <2>4. g \in [Accounts -> Balance] BY <2>1, <2>3 DEF Sound
    <2>5. Dustless(g) BY <2>1, <2>3 DEF Sound, Dustless
    <2>6. Backed(g, lk)
      <3> SUFFICES ASSUME NEW a \in Accounts, NEW id \in LockIds
                   PROVE  lk[a][id] <= g[a]
        BY DEF Backed
      <3>1. lk[a][id] <= f[a] /\ lk[a][id] \in Nat
        BY DEF Sound, Backed, Balance
      <3> QED BY <2>1, <2>2, <2>3, <3>1 DEF CanWithdraw
    <2> QED BY <2>4, <2>5, <2>6 DEF Sound
  <1> QED BY <1>1, <1>2

\* A wallet transfer reaps its sender or leaves it alive, and reaps only an
\* account without locks.
LEMMA WalletSound ==
  ASSUME Sound(free, locks), NEW from \in Accounts, NEW to \in Accounts,
         NEW amount \in Amounts, WalletTransfer(from, to, amount)
  PROVE  Sound(free', locks')
  <1> DEFINE paid == AfterFee(from)
             rest == paid[from] - amount
             left == IF rest < ExistentialDeposit THEN 0 ELSE rest
  <1>1. Sound(paid, locks)
    BY FeeSound DEF WalletTransfer
  <1>2. /\ amount \in Nat /\ ExistentialDeposit \in Nat \ {0} /\ MaxBalance \in Nat
        /\ \A a \in Accounts : paid[a] \in Nat /\ paid[a] <= MaxBalance
    BY <1>1, BalancesAssumption DEF Sound, Balance
  <1>3. /\ from # to
        /\ rest \in Balance /\ CanWithdraw(locks, from, rest)
        /\ paid[to] + amount \in Balance /\ paid[to] + amount >= ExistentialDeposit
        /\ rest >= ExistentialDeposit \/ HasNoLock(locks, from)
    BY <1>2 DEF WalletTransfer, Noop, Covered, Balance
  <1>4. locks' = locks
    BY DEF WalletTransfer
  <1>5. free' = [a \in Accounts |-> IF a = from THEN left
                                    ELSE IF a = to THEN paid[to] + amount
                                    ELSE paid[a]]
    BY <1>1, <1>3 DEF WalletTransfer, Moved, Sound
  <1>6. left \in Balance BY <1>2, <1>3 DEF Balance
  <1> HIDE DEF paid, rest
  <1>7. free' \in [Accounts -> Balance]
    BY <1>1, <1>3, <1>5, <1>6 DEF Sound
  <1>8. Dustless(free')
    BY <1>1, <1>2, <1>3, <1>5 DEF Dustless, Sound, Balance
  <1>9. Backed(free', locks)
    <2> SUFFICES ASSUME NEW a \in Accounts, NEW id \in LockIds
                 PROVE  locks[a][id] <= free'[a]
      BY DEF Backed
    <2>1. locks[a][id] <= paid[a] /\ locks[a][id] \in Nat
      BY <1>1 DEF Sound, Backed, Balance
    <2> QED BY <1>2, <1>3, <1>5, <2>1 DEF CanWithdraw, HasNoLock, Balance
  <1> QED BY <1>1, <1>4, <1>7, <1>8, <1>9 DEF Sound

\* The calls that touch nothing but the accounts keep them sound.
LEMMA BalancesNextSound ==
  ASSUME Sound(free, locks), BalancesNext
  PROVE  Sound(free', locks')
  <1>1. PICK a \in Accounts :
           \/ DispatchError(a)
           \/ Faucet(a)
           \/ \E b \in Accounts, amount \in Amounts : WalletTransfer(a, b, amount)
    BY DEF BalancesNext
  <1>2. CASE DispatchError(a)
    <2>1. Sound(AfterFee(a), locks) BY <1>2, FeeSound DEF DispatchError
    <2> QED BY <1>2, <2>1 DEF DispatchError
  <1>3. CASE Faucet(a)
    <2>1. free[a] \in Nat /\ FaucetAmount \in Nat /\ FaucetAmount >= ExistentialDeposit
          /\ ExistentialDeposit \in Nat \ {0} /\ MaxBalance \in Nat
      BY BalancesAssumption DEF Sound, Balance
    <2>2. CASE free[a] + FaucetAmount <= MaxBalance
      <3>1. free' = [b \in Accounts |-> IF b = a THEN free[a] + FaucetAmount ELSE free[b]]
        BY <1>3, <2>2 DEF Faucet, Sound
      <3>2. free[a] + FaucetAmount \in Balance BY <2>1, <2>2 DEF Balance
      <3>3. free' \in [Accounts -> Balance] BY <3>1, <3>2 DEF Sound
      <3>4. Dustless(free') BY <2>1, <3>1 DEF Sound, Dustless
      <3>5. Backed(free', locks)
        <4> SUFFICES ASSUME NEW b \in Accounts, NEW id \in LockIds
                     PROVE  locks[b][id] <= free'[b]
          BY DEF Backed
        <4>1. locks[b][id] <= free[b] /\ locks[b][id] \in Nat /\ free[b] \in Nat
          BY DEF Sound, Backed, Balance
        <4> QED BY <2>1, <3>1, <4>1
      <3> QED BY <1>3, <3>3, <3>4, <3>5 DEF Faucet, Sound
    <2>3. CASE ~ (free[a] + FaucetAmount <= MaxBalance)
      BY <1>3, <2>3 DEF Faucet
    <2> QED BY <2>2, <2>3
  <1>4. CASE \E b \in Accounts, amount \in Amounts : WalletTransfer(a, b, amount)
    BY <1>4, WalletSound
  <1> QED BY <1>1, <1>2, <1>3, <1>4

-----------------------------------------------------------------------------
(* The supply: the sum of all balances.                                    *)

\* Two books that agree but for one account differ in supply by what they
\* differ there.
LEMMA SupplyChange ==
  ASSUME NEW f, NEW g, f \in [Accounts -> Int], g \in [Accounts -> Int],
         NEW a \in Accounts, \A b \in Accounts : b # a => g[b] = f[b]
  PROVE  /\ Supply(f) \in Int
         /\ Supply(g) = Supply(f) + g[a] - f[a]
  <1>1. /\ Supply(f) \in Int
        /\ Supply(f) = f[a] + SumFunctionOnSet(f, Accounts \ {a})
    <2>1. IsFiniteSet(Accounts) /\ \A b \in Accounts : f[b] \in Int
      BY AccountsAssumption
    <2> QED BY <2>1, SumRemove DEF Supply
  <1>2. /\ Supply(g) \in Int
        /\ Supply(g) = g[a] + SumFunctionOnSet(g, Accounts \ {a})
    <2>1. IsFiniteSet(Accounts) /\ \A b \in Accounts : g[b] \in Int
      BY AccountsAssumption
    <2> QED BY <2>1, SumRemove DEF Supply
  <1>3. SumFunctionOnSet(f, Accounts \ {a}) = SumFunctionOnSet(g, Accounts \ {a})
    <2>1. PICK R : R = Accounts \ {a} OBVIOUS
    <2>2. IsFiniteSet(R) /\ \A b \in R : f[b] = g[b]
      BY <2>1, AccountsAssumption, FS_Subset
    <2> QED BY <2>1, <2>2, SumEqual
  <1>4. SumFunctionOnSet(f, Accounts \ {a}) \in Int
    <2>1. PICK R : R = Accounts \ {a} OBVIOUS
    <2>2. IsFiniteSet(R) /\ \A b \in R : f[b] \in Int
      BY <2>1, AccountsAssumption, FS_Subset
    <2> QED BY <2>1, <2>2, SumRemove
  <1>5. PICK v \in Int : v = SumFunctionOnSet(f, Accounts \ {a}) BY <1>4
  <1>6. f[a] \in Int /\ g[a] \in Int OBVIOUS
  <1> QED BY <1>1, <1>2, <1>3, <1>5, <1>6

\* The fee is burnt.
LEMMA FeeSupply ==
  ASSUME Sound(free, locks), NEW a \in Accounts
  PROVE  /\ AfterFee(a) \in [Accounts -> Int]
         /\ Supply(free) \in Int /\ Fee \in Int
         /\ Supply(AfterFee(a)) = Supply(free) - Fee
  <1>1. Fee \in Int /\ MaxBalance \in Int BY BalancesAssumption
  <1>2. free \in [Accounts -> Int] BY <1>1 DEF Sound, Balance
  <1>3. PICK paid \in [Accounts -> Int] :
           /\ paid = AfterFee(a) /\ paid[a] = free[a] - Fee
           /\ \A b \in Accounts : b # a => paid[b] = free[b]
    <2>1. free[a] - Fee \in Int BY <1>1, <1>2
    <2>2. /\ AfterFee(a) \in [Accounts -> Int] /\ AfterFee(a)[a] = free[a] - Fee
          /\ \A b \in Accounts : b # a => AfterFee(a)[b] = free[b]
      BY <1>2, <2>1 DEF AfterFee
    <2> QED BY <2>2
  <1>4. Supply(free) \in Int /\ Supply(paid) = Supply(free) + paid[a] - free[a]
    BY <1>2, <1>3, SupplyChange
  <1>5. free[a] \in Int BY <1>2
  <1> QED BY <1>1, <1>3, <1>4, <1>5

\* A transfer takes from one account what it gives to another.
LEMMA MovedSupply ==
  ASSUME NEW f \in [Accounts -> Int], NEW from \in Accounts, NEW to \in Accounts,
         NEW amount \in Int
  PROVE  /\ Moved(f, from, to, amount) \in [Accounts -> Int]
         /\ Supply(Moved(f, from, to, amount)) = Supply(f)
  <1>1. CASE Noop(from, to, amount) BY <1>1 DEF Moved
  <1>2. CASE ~ Noop(from, to, amount)
    <2>1. from # to BY <1>2 DEF Noop
    <2>2. PICK g \in [Accounts -> Int] :
             /\ g[from] = f[from] - amount
             /\ \A b \in Accounts : b # from => g[b] = f[b]
      <3>1. [f EXCEPT ![from] = f[from] - amount] \in [Accounts -> Int] OBVIOUS
      <3> QED BY <3>1
    <2>3. PICK h \in [Accounts -> Int] :
             /\ h = Moved(f, from, to, amount) /\ h[to] = g[to] + amount
             /\ \A b \in Accounts : b # to => h[b] = g[b]
      <3>1. Moved(f, from, to, amount) = [f EXCEPT ![from] = @ - amount, ![to] = @ + amount]
        BY <1>2 DEF Moved
      <3> QED BY <2>1, <2>2, <3>1
    <2>4. Supply(f) \in Int /\ Supply(g) = Supply(f) + g[from] - f[from]
      BY <2>2, SupplyChange
    <2>5. Supply(h) = Supply(g) + h[to] - g[to]
      BY <2>3, SupplyChange
    <2>6. f[from] \in Int /\ g[to] \in Int OBVIOUS
    <2> QED BY <2>2, <2>3, <2>4, <2>5, <2>6
  <1> QED BY <1>1, <1>2

\* Every pallet call leaves the supply at what it was less the fee, whether or
\* not it moved an amount from an account to another.
LEMMA CallSupply ==
  ASSUME Sound(free, locks), NEW a \in Accounts,
         \/ free' = AfterFee(a)
         \/ \E from, to \in Accounts, amount \in Balance :
               free' = Moved(AfterFee(a), from, to, amount)
  PROVE  SupplyStep
  <1>1. /\ AfterFee(a) \in [Accounts -> Int] /\ Supply(free) \in Int /\ Fee \in Int
        /\ Supply(AfterFee(a)) = Supply(free) - Fee
    BY FeeSupply
  <1>2. Supply(free') = Supply(free) - Fee
    <2>1. CASE free' = AfterFee(a) BY <1>1, <2>1
    <2>2. CASE \E from, to \in Accounts, amount \in Balance :
                  free' = Moved(AfterFee(a), from, to, amount)
      <3>1. PICK from \in Accounts, to \in Accounts, amount \in Balance :
               free' = Moved(AfterFee(a), from, to, amount)
        BY <2>2
      <3>2. amount \in Int BY BalancesAssumption DEF Balance
      <3>3. Supply(free') = Supply(AfterFee(a)) BY <1>1, <3>1, <3>2, MovedSupply
      <3> QED BY <1>1, <3>3
    <2> QED BY <2>1, <2>2
  <1>3. Supply(free') - Supply(free) = -Fee
    <2>1. PICK v \in Int : v = Supply(free) BY <1>1
    <2> QED BY <1>1, <1>2, <2>1
  <1> QED BY <1>3 DEF SupplyStep

\* A wallet transfer loses the fee, and the dust of a sender it reaps.
LEMMA WalletSupply ==
  ASSUME Sound(free, locks), NEW from \in Accounts, NEW to \in Accounts,
         NEW amount \in Amounts, WalletTransfer(from, to, amount)
  PROVE  SupplyStep
  <1>1. PICK paid : paid = AfterFee(from) OBVIOUS
  <1>2. PICK rest : rest = paid[from] - amount OBVIOUS
  <1>3. PICK left : left = IF rest < ExistentialDeposit THEN 0 ELSE rest OBVIOUS
  <1>4. /\ paid \in [Accounts -> Int] /\ Supply(free) \in Int /\ Fee \in Nat
        /\ Supply(paid) = Supply(free) - Fee /\ paid[from] = free[from] - Fee
    <2>1. Fee \in Nat BY BalancesAssumption
    <2>2. paid[from] = free[from] - Fee BY <1>1 DEF AfterFee, Sound
    <2> QED BY <1>1, <2>1, <2>2, FeeSupply
  <1>5. /\ amount \in Nat /\ amount # 0 /\ from # to /\ amount <= paid[from]
        /\ ExistentialDeposit \in Nat \ {0}
        /\ free' = [Moved(paid, from, to, amount) EXCEPT ![from] = left]
    BY <1>1, <1>2, <1>3, BalancesAssumption DEF WalletTransfer, Covered, Noop
  <1>6. PICK g \in [Accounts -> Int] : g = Moved(paid, from, to, amount) /\ Supply(g) = Supply(paid)
    BY <1>4, <1>5, MovedSupply
  <1>7. g[from] = rest BY <1>2, <1>4, <1>5, <1>6 DEF Moved, Noop
  <1>8. rest \in Nat /\ left \in Nat BY <1>2, <1>3, <1>4, <1>5
  <1>9. PICK h \in [Accounts -> Int] :
           h = free' /\ h[from] = left /\ \A b \in Accounts : b # from => h[b] = g[b]
    BY <1>5, <1>6, <1>8
  <1>10. Supply(g) \in Int /\ Supply(h) = Supply(g) + h[from] - g[from]
    BY <1>6, <1>9, SupplyChange
  <1>11. PICK change \in Int : change = Supply(free') - Supply(free) /\ change = left - rest - Fee
    <2>1. PICK v \in Int : v = Supply(free) BY <1>4
    <2>2. Supply(h) = v - Fee + left - rest BY <1>4, <1>6, <1>7, <1>8, <1>9, <1>10, <2>1
    <2> QED BY <1>4, <1>8, <1>9, <2>1, <2>2
  <1>12. CASE left = rest
    <2>1. change = -Fee BY <1>4, <1>8, <1>11, <1>12
    <2> QED BY <1>11, <2>1 DEF SupplyStep
  <1>13. CASE left # rest
    <2>1. left = 0 /\ rest \in 1 .. ExistentialDeposit - 1
      BY <1>3, <1>5, <1>8, <1>13
    <2>2. -Fee - change \in 1 .. ExistentialDeposit - 1 BY <1>4, <1>5, <1>11, <2>1
    <2>3. free'[from] = 0 BY <1>9, <2>1
    <2>4. free[from] > 0
      <3>1. free[from] \in Int BY BalancesAssumption DEF Sound, Balance
      <3> QED BY <1>2, <1>4, <1>5, <2>1, <3>1
    <2> QED BY <1>11, <2>2, <2>3, <2>4 DEF SupplyStep
  <1> QED BY <1>12, <1>13

\* Of the calls that touch nothing but the accounts, the faucet mints.
LEMMA BalancesNextSupply ==
  ASSUME Sound(free, locks), BalancesNext
  PROVE  SupplyStep
  <1>1. PICK a \in Accounts :
           \/ DispatchError(a)
           \/ Faucet(a)
           \/ \E b \in Accounts, amount \in Amounts : WalletTransfer(a, b, amount)
    BY DEF BalancesNext
  <1>2. CASE DispatchError(a) BY <1>2, CallSupply DEF DispatchError
  <1>3. CASE Faucet(a)
    <2>1. FaucetAmount \in Int /\ free \in [Accounts -> Int]
      BY BalancesAssumption DEF Sound, Balance
    <2>2. PICK f : f = free' OBVIOUS
    <2>3. /\ f \in [Accounts -> Int] /\ f[a] - free[a] \in {FaucetAmount, 0}
          /\ \A b \in Accounts : b # a => f[b] = free[b]
      BY <1>3, <2>1, <2>2 DEF Faucet
    <2>4. Supply(free) \in Int /\ Supply(f) = Supply(free) + f[a] - free[a]
      BY <2>1, <2>3, SupplyChange
    <2>5. PICK v \in Int, w \in Int, x \in Int : v = Supply(free) /\ w = f[a] /\ x = free[a]
      BY <2>1, <2>3, <2>4
    <2>6. Supply(free') - Supply(free) \in {FaucetAmount, 0}
      BY <2>2, <2>3, <2>4, <2>5
    <2> QED BY <2>6 DEF SupplyStep
  <1>4. CASE \E b \in Accounts, amount \in Amounts : WalletTransfer(a, b, amount)
    BY <1>4, WalletSupply
  <1> QED BY <1>1, <1>2, <1>3, <1>4
=============================================================================
