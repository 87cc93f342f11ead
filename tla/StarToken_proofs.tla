--------------------------- MODULE StarToken_proofs ---------------------------
(***************************************************************************)
(* What TLAPS proves of the STAR token, for every finite set of addresses, *)
(* every cap, and all amounts and fee rates.                               *)
(***************************************************************************)
EXTENDS StarToken, Sums_proofs

\* The shape of a step: which parts of the state each group of entry points
\* can touch.  The theorems below split on it.
LEMMA StepCases ==
    ASSUME [Next]_vars
    PROVE  \/ \E caller \in Accounts : AdminStep(caller)
           \/ \E caller \in Accounts : HolderStep(caller)
           \/ \E caller \in Accounts : SpenderStep(caller)
           \/ \E caller \in Accounts : MinterStep(caller)
           \/ CloseLedger
           \/ UNCHANGED vars
BY DEF Next

\* Type correctness of the token's state: at the start and over a step.
LEMMA TypeInit == ASSUME Init PROVE TypeOK
<1>1. paused \in BOOLEAN
  BY DEF Init
<1> QED
  BY <1>1, StarTokenAssumption
     DEF StarTokenAssumption, Init, TypeOK, AllowanceValue

-----------------------------------------------------------------------------
(* How a step moves STAR.  Four shapes cover the entry points: nothing      *)
(* moves, a credit (both mints), a debit (the three burns) or a transfer;   *)
(* the last two take either from the signer or out of its allowance.        *)

Credit(to, amount) ==
    /\ ~paused
    /\ MintInternal(to, amount)
    /\ UNCHANGED <<roleVars, paused, allowance>>

\* STAR may be taken from `from' by the signer of this step.
Granted(from, amount) ==
    \/ signer' = from /\ UNCHANGED allowance
    \/ spend_allowance(from, signer', amount)

Debit(from, amount) ==
    /\ ~paused
    /\ burn_internal(from, amount)
    /\ Granted(from, amount)
    /\ UNCHANGED <<roleVars, paused>>

Move(from, to, amount) ==
    /\ ~paused
    /\ transfer_internal(from, to, amount)
    /\ Granted(from, amount)
    /\ UNCHANGED <<roleVars, paused, supply>>

LEMMA MoneyCases ==
    ASSUME TypeOK, [Next]_vars
    PROVE  \/ UNCHANGED <<supply, balance>>
           \/ \E to \in Accounts, amount \in Int : Credit(to, amount)
           \/ \E from \in Accounts, amount \in Int : Debit(from, amount)
           \/ \E from, to \in Accounts, amount \in Int : Move(from, to, amount)
<1> DEFINE Goal ==
        \/ UNCHANGED <<supply, balance>>
        \/ \E to \in Accounts, amount \in Int : Credit(to, amount)
        \/ \E from \in Accounts, amount \in Int : Debit(from, amount)
        \/ \E from, to \in Accounts, amount \in Int : Move(from, to, amount)
<1> USE StarTokenAssumption DEF StarTokenAssumption
<1>1. ASSUME NEW caller \in Accounts, AdminStep(caller)
      PROVE  Goal
  BY <1>1 DEF AdminStep, set_admin, accept_admin, SetPaused, set_minter,
              set_authorized, set_fee_burn_config, moneyVars
<1>2. ASSUME NEW caller \in Accounts, HolderStep(caller)
      PROVE  Goal
  <2>1. ASSUME NEW amount \in Amounts, burn(caller, amount)
        PROVE  Goal
    <3>1. Debit(caller, amount)
      BY <2>1 DEF burn, Debit, Granted, Authenticated, roleVars
    <3> QED
      BY <3>1
  <2>2. ASSUME NEW amount \in Amounts, burn_fee(caller, amount)
        PROVE  Goal
    <3> DEFINE fee == (amount * feeBps) \div 10000
    <3>1. fee \in Int
      BY DEF TypeOK
    <3>2. burn_internal(caller, fee)
      BY <2>2 DEF burn_fee
    <3> HIDE DEF fee
    <3>3. Debit(caller, fee)
      BY <2>2, <3>2 DEF burn_fee, Debit, Granted, Authenticated, roleVars
    <3> QED
      BY <3>1, <3>3
  <2>3. ASSUME NEW to \in Holders, NEW amount \in Amounts,
               transfer(caller, to, amount)
        PROVE  Goal
    <3>1. Move(caller, to, amount)
      BY <2>3 DEF transfer, Move, Granted, Authenticated, roleVars
    <3> QED
      BY <3>1
  <2>4. ASSUME NEW spender \in Spenders, NEW amount \in Amounts,
               NEW e \in 0..MaxLedger, approve(caller, spender, amount, e)
        PROVE  Goal
    BY <2>4 DEF approve
  <2> QED
    BY <1>2, <2>1, <2>2, <2>3, <2>4 DEF HolderStep
<1>3. ASSUME NEW caller \in Accounts, SpenderStep(caller)
      PROVE  Goal
  <2>1. ASSUME NEW from \in Accounts, NEW amount \in Amounts,
               burn_from(caller, from, amount)
        PROVE  Goal
    <3>1. Debit(from, amount)
      BY <2>1 DEF burn_from, Debit, Granted, Authenticated, roleVars
    <3> QED
      BY <3>1
  <2>2. ASSUME NEW from \in Accounts, NEW to \in Holders, NEW amount \in Amounts,
               transfer_from(caller, from, to, amount)
        PROVE  Goal
    <3>1. Move(from, to, amount)
      BY <2>2 DEF transfer_from, Move, Granted, Authenticated, roleVars
    <3> QED
      BY <3>1
  <2> QED
    BY <1>3, <2>1, <2>2 DEF SpenderStep
<1>4. ASSUME NEW caller \in Accounts, MinterStep(caller)
      PROVE  Goal
  <2>1. ASSUME NEW to \in Holders, NEW amount \in Amounts,
               mint(caller, to, amount) \/ mint_from_minter(caller, to, amount)
        PROVE  Goal
    <3>1. Credit(to, amount)
      BY <2>1 DEF mint, mint_from_minter, AdminCall, Credit, Authenticated, roleVars
    <3> QED
      BY <3>1
  <2> QED
    BY <1>4, <2>1 DEF MinterStep
<1>5. CASE CloseLedger
  BY <1>5 DEF CloseLedger, moneyVars
<1>6. CASE UNCHANGED vars
  BY <1>6 DEF vars
<1> QED
  BY <1>1, <1>2, <1>3, <1>4, <1>5, <1>6, StepCases

-----------------------------------------------------------------------------
(* Types.                                                                  *)

\* Every credit, debit and transfer is of whole STAR.
LEMMA MoneyTypes ==
    ASSUME TypeOK, [Next]_vars PROVE supply' \in Int /\ balance' \in [Accounts -> Int]
<1>0. supply \in Int /\ balance \in [Accounts -> Int]
  BY DEF TypeOK
<1>1. CASE UNCHANGED <<supply, balance>>
  BY <1>0, <1>1
<1>2. ASSUME NEW to \in Accounts, NEW amount \in Int, Credit(to, amount)
      PROVE  supply' \in Int /\ balance' \in [Accounts -> Int]
  BY <1>0, <1>2 DEF Credit, MintInternal
<1>3. ASSUME NEW from \in Accounts, NEW amount \in Int, Debit(from, amount)
      PROVE  supply' \in Int /\ balance' \in [Accounts -> Int]
  BY <1>0, <1>3 DEF Debit, burn_internal
<1>4. ASSUME NEW from \in Accounts, NEW to \in Accounts, NEW amount \in Int,
             Move(from, to, amount)
      PROVE  supply' \in Int /\ balance' \in [Accounts -> Int]
  <2>1. balance' = [[balance EXCEPT ![from] = @ - amount] EXCEPT ![to] = @ + amount]
    BY <1>4 DEF Move, transfer_internal
  <2>2. supply' = supply
    BY <1>4 DEF Move
  <2> QED
    BY <1>0, <2>1, <2>2
<1> QED
  BY <1>1, <1>2, <1>3, <1>4, MoneyCases

\* Allowances are granted by approve and spent out of.
LEMMA AllowanceTypes ==
    ASSUME TypeOK, [Next]_vars
    PROVE  allowance' \in [Accounts \X Accounts -> AllowanceValue]
<1> DEFINE Goal == allowance' \in [Accounts \X Accounts -> AllowanceValue]
<1>0. allowance \in [Accounts \X Accounts -> AllowanceValue]
  BY DEF TypeOK
<1>1. UNCHANGED allowance => Goal
  BY <1>0
<1>2. ASSUME NEW from \in Accounts, NEW spender \in Accounts, NEW amount \in Int,
             spend_allowance(from, spender, amount)
      PROVE  Goal
  <2> DEFINE left == [allowance[<<from, spender>>] EXCEPT !.amount = @ - amount]
  <2>1. left \in AllowanceValue
    BY <1>0 DEF AllowanceValue
  <2>2. allowance' = [allowance EXCEPT ![<<from, spender>>] = left]
    BY <1>2 DEF spend_allowance
  <2> HIDE DEF left
  <2> QED
    BY <1>0, <2>1, <2>2
<1>3. ASSUME NEW caller \in Accounts, NEW spender \in Accounts, NEW amount \in Int,
             NEW e \in Nat, approve(caller, spender, amount, e)
      PROVE  Goal
  <2> DEFINE granted == [amount |-> amount, expiration_ledger |-> e]
  <2>1. granted \in AllowanceValue
    BY DEF AllowanceValue
  <2>2. allowance' = [allowance EXCEPT ![<<caller, spender>>] = granted]
    BY <1>3 DEF approve
  <2> HIDE DEF granted
  <2> QED
    BY <1>0, <2>1, <2>2
<1> HIDE DEF Goal
<1>4. ASSUME NEW caller \in Accounts, AdminStep(caller)
      PROVE  UNCHANGED allowance
  BY <1>4 DEF AdminStep, set_admin, accept_admin, SetPaused, set_minter,
              set_authorized, set_fee_burn_config, moneyVars
<1>5. ASSUME NEW caller \in Accounts, HolderStep(caller)
      PROVE  Goal
  <2>1. ASSUME NEW amount \in Amounts, burn(caller, amount) \/ burn_fee(caller, amount)
        PROVE  UNCHANGED allowance
    BY <2>1 DEF burn, burn_fee
  <2>2. ASSUME NEW to \in Holders, NEW amount \in Amounts, transfer(caller, to, amount)
        PROVE  UNCHANGED allowance
    BY <2>2 DEF transfer
  <2>3. ASSUME NEW spender \in Spenders, NEW amount \in Amounts, NEW e \in 0..MaxLedger,
               approve(caller, spender, amount, e)
        PROVE  Goal
    <3>1. spender \in Accounts /\ amount \in Int /\ e \in Nat
      BY StarTokenAssumption DEF StarTokenAssumption
    <3> QED
      BY <1>3, <2>3, <3>1
  <2> QED
    BY <1>1, <1>5, <2>1, <2>2, <2>3 DEF HolderStep
<1>6. ASSUME NEW caller \in Accounts, SpenderStep(caller)
      PROVE  Goal
  <2>1. PICK from \in Accounts, amount \in Amounts : spend_allowance(from, caller, amount)
    BY <1>6 DEF SpenderStep, burn_from, transfer_from
  <2>2. amount \in Int
    BY StarTokenAssumption DEF StarTokenAssumption
  <2> QED
    BY <1>2, <2>1, <2>2
<1>7. ASSUME NEW caller \in Accounts, MinterStep(caller)
      PROVE  UNCHANGED allowance
  BY <1>7 DEF MinterStep, mint, mint_from_minter
<1>8. CloseLedger \/ UNCHANGED vars => UNCHANGED allowance
  BY DEF CloseLedger, moneyVars, vars
<1>9. Goal
  BY <1>1, <1>4, <1>5, <1>6, <1>7, <1>8, StepCases
<1> QED
  BY <1>9 DEF Goal

\* The roles and flags, the fee rate, the ledger and the last signer.
RoleTypes ==
    /\ admin \in Accounts
    /\ pendingAdmin \in Accounts \cup {None}
    /\ paused \in BOOLEAN
    /\ minter \subseteq Accounts
    /\ frozen \subseteq Accounts
    /\ feeBps \in 0..10000
    /\ ledger \in Nat
    /\ signer \in Accounts

LEMMA RoleTypesStep == ASSUME RoleTypes, [Next]_vars PROVE RoleTypes'
<1>1. ASSUME NEW caller \in Accounts, AdminStep(caller)
      PROVE  RoleTypes'
  <2>1. ASSUME NEW a \in Candidates, set_admin(caller, a)
        PROVE  RoleTypes'
    <3>1. a \in Accounts
      BY StarTokenAssumption DEF StarTokenAssumption
    <3> QED
      BY <2>1, <3>1 DEF RoleTypes, set_admin, AdminCall, Authenticated
  <2>2. CASE accept_admin(caller)
    BY <2>2 DEF RoleTypes, accept_admin, Authenticated
  <2>3. ASSUME NEW flag \in BOOLEAN, SetPaused(caller, flag)
        PROVE  RoleTypes'
    BY <2>3 DEF RoleTypes, SetPaused, roleVars
  <2>4. ASSUME NEW a \in RoleHolders, NEW flag \in BOOLEAN,
               set_minter(caller, a, flag) \/ set_authorized(caller, a, flag)
        PROVE  RoleTypes'
    <3>1. a \in Accounts
      BY StarTokenAssumption DEF StarTokenAssumption
    <3>2. /\ minter' \subseteq Accounts /\ frozen' \subseteq Accounts
          /\ signer' = caller /\ UNCHANGED <<admin, pendingAdmin, paused, feeBps, ledger>>
      BY <2>4, <3>1 DEF RoleTypes, set_minter, set_authorized, AdminCall, Authenticated
    <3> QED
      BY <3>2 DEF RoleTypes
  <2>5. ASSUME NEW bps \in BasisPoints, set_fee_burn_config(caller, bps)
        PROVE  RoleTypes'
    <3>1. bps \in Nat
      BY StarTokenAssumption DEF StarTokenAssumption
    <3> QED
      BY <2>5, <3>1 DEF RoleTypes, set_fee_burn_config, AdminCall, Authenticated, roleVars
  <2> QED
    BY <1>1, <2>1, <2>2, <2>3, <2>4, <2>5 DEF AdminStep
<1>2. ASSUME NEW caller \in Accounts,
             HolderStep(caller) \/ SpenderStep(caller) \/ MinterStep(caller)
      PROVE  UNCHANGED <<roleVars, paused, feeBps, ledger>> /\ signer' = caller
  <2> DEFINE Still == UNCHANGED <<roleVars, paused, feeBps, ledger>> /\ signer' = caller
  <2>1. \A amount \in Amounts : burn(caller, amount) => Still
    BY DEF burn, Authenticated
  <2>2. \A amount \in Amounts : burn_fee(caller, amount) => Still
    BY DEF burn_fee, Authenticated
  <2>3. \A to \in Holders, amount \in Amounts : transfer(caller, to, amount) => Still
    BY DEF transfer, Authenticated
  <2>4. \A spender \in Spenders, amount \in Amounts, e \in 0..MaxLedger :
            approve(caller, spender, amount, e) => Still
    BY DEF approve, Authenticated
  <2>5. \A from \in Accounts, amount \in Amounts : burn_from(caller, from, amount) => Still
    BY DEF burn_from, Authenticated
  <2>6. \A from \in Accounts, to \in Holders, amount \in Amounts :
            transfer_from(caller, from, to, amount) => Still
    BY DEF transfer_from, Authenticated
  <2>7. \A to \in Holders, amount \in Amounts :
            mint(caller, to, amount) \/ mint_from_minter(caller, to, amount) => Still
    BY DEF mint, mint_from_minter, AdminCall, Authenticated
  <2> HIDE DEF Still
  <2>8. Still
    BY <1>2, <2>1, <2>2, <2>3, <2>4, <2>5, <2>6, <2>7
       DEF HolderStep, SpenderStep, MinterStep
  <2> QED
    BY <2>8 DEF Still
<1>3. ASSUME NEW caller \in Accounts,
             UNCHANGED <<roleVars, paused, feeBps, ledger>> /\ signer' = caller
      PROVE  RoleTypes'
  BY <1>3 DEF RoleTypes, roleVars
<1>4. CASE CloseLedger
  BY <1>4 DEF RoleTypes, CloseLedger, roleVars
<1>5. CASE UNCHANGED vars
  BY <1>5 DEF RoleTypes, vars
<1> QED
  BY <1>1, <1>2, <1>3, <1>4, <1>5, StepCases

LEMMA TypeStep == ASSUME TypeOK, [Next]_vars PROVE TypeOK'
<1>1. RoleTypes
  BY SMTT(30) DEF TypeOK, RoleTypes
<1>2. RoleTypes'
  BY <1>1, RoleTypesStep
<1>3. supply' \in Int /\ balance' \in [Accounts -> Int]
  BY MoneyTypes
<1>4. allowance' \in [Accounts \X Accounts -> AllowanceValue]
  BY AllowanceTypes
<1> QED
  BY <1>2, <1>3, <1>4, SMTT(30) DEF TypeOK, RoleTypes

\* Type correctness of the token's state.
THEOREM TypeCorrect == Spec => []TypeOK
BY TypeInit, TypeStep, PTL DEF Spec

-----------------------------------------------------------------------------
\* The cap of __constructor holds for ever: both mints check it against the
\* running supply, and nothing else raises the supply.
THEOREM SupplyCapped == Spec => []SupplyWithinCap
<1>1. Init => SupplyWithinCap
  BY StarTokenAssumption DEF StarTokenAssumption, Init, SupplyWithinCap
<1>2. TypeOK /\ SupplyWithinCap /\ [Next]_vars => SupplyWithinCap'
  <2> SUFFICES ASSUME TypeOK, SupplyWithinCap, [Next]_vars
               PROVE  SupplyWithinCap'
    OBVIOUS
  <2> USE StarTokenAssumption DEF StarTokenAssumption, TypeOK, SupplyWithinCap
  <2>1. CASE UNCHANGED <<supply, balance>>
    BY <2>1
  <2>2. ASSUME NEW to \in Accounts, NEW amount \in Int, Credit(to, amount)
        PROVE  SupplyWithinCap'
    BY <2>2 DEF Credit, MintInternal, Mintable
  <2>3. ASSUME NEW from \in Accounts, NEW amount \in Int, Debit(from, amount)
        PROVE  SupplyWithinCap'
    BY <2>3 DEF Debit, burn_internal
  <2>4. ASSUME NEW from \in Accounts, NEW to \in Accounts, NEW amount \in Int,
               Move(from, to, amount)
        PROVE  SupplyWithinCap'
    BY <2>4 DEF Move
  <2> QED
    BY <2>1, <2>2, <2>3, <2>4, MoneyCases
<1> QED
  BY <1>1, <1>2, TypeCorrect, PTL DEF Spec

\* What the sum of the balances is, and what one changed balance does to it.
LEMMA SupplyIsSum == SupplyIsSumOfBalances <=>
    (\A a \in Accounts : balance[a] >= 0) /\ supply = Sum(balance)
  BY Zenon DEF SupplyIsSumOfBalances, Sum

LEMMA OneBalanceChanges ==
    ASSUME NEW f \in [Accounts -> Int], NEW a \in Accounts, NEW v \in Int
    PROVE  Sum([f EXCEPT ![a] = v]) = Sum(f) + v - f[a]
<1>1. IsFiniteSet(Accounts)
  BY StarTokenAssumption DEF StarTokenAssumption
<1> QED
  BY <1>1, SumOfOneChange, Zenon

LEMMA SumOfBalancesIsInt == ASSUME NEW f \in [Accounts -> Int] PROVE Sum(f) \in Int
<1>1. IsFiniteSet(Accounts)
  BY StarTokenAssumption DEF StarTokenAssumption
<1> QED
  BY <1>1, SumIsInt, Zenon

\* Every entry point that moves STAR changes the counter and the balances by the
\* same: the supply is the sum of the balances, over any number of addresses, and
\* a transfer to oneself, which writes one balance twice, is no exception.
LEMMA SupplyStep ==
    ASSUME TypeOK, SupplyIsSumOfBalances, [Next]_vars PROVE SupplyIsSumOfBalances'
<1> DEFINE Goal == (\A a \in Accounts : balance'[a] >= 0) /\ supply' = Sum(balance')
<1>0. /\ supply \in Int /\ balance \in [Accounts -> Int]
      /\ \A a \in Accounts : balance[a] >= 0
      /\ supply = Sum(balance)
  BY SupplyIsSum, StarTokenAssumption DEF TypeOK
<1>1. ASSUME UNCHANGED <<supply, balance>> PROVE Goal
  BY <1>0, <1>1
<1>2. ASSUME NEW to \in Accounts, NEW amount \in Int, Credit(to, amount)
      PROVE  Goal
  <2>1. /\ amount > 0 /\ supply' = supply + amount
        /\ balance' = [balance EXCEPT ![to] = balance[to] + amount]
    BY <1>2 DEF Credit, MintInternal, Mintable
  <2>2. balance[to] \in Int /\ balance[to] + amount \in Int
    BY <1>0
  <2>3. Sum(balance') = Sum(balance) + (balance[to] + amount) - balance[to]
    BY <1>0, <2>1, <2>2, OneBalanceChanges
  <2>4. supply' = Sum(balance')
    BY <1>0, <2>1, <2>2, <2>3
  <2> QED BY <1>0, <2>1, <2>2, <2>4
<1>3. ASSUME NEW from \in Accounts, NEW amount \in Int, Debit(from, amount)
      PROVE  Goal
  <2>1. /\ supply' = supply - amount /\ balance[from] >= amount
        /\ balance' = [balance EXCEPT ![from] = balance[from] - amount]
    BY <1>3 DEF Debit, burn_internal
  <2>2. balance[from] \in Int /\ balance[from] - amount \in Int
    BY <1>0
  <2>3. Sum(balance') = Sum(balance) + (balance[from] - amount) - balance[from]
    BY <1>0, <2>1, <2>2, OneBalanceChanges
  <2>4. supply' = Sum(balance')
    BY <1>0, <2>1, <2>2, <2>3
  <2> QED BY <1>0, <2>1, <2>2, <2>4
<1>4. ASSUME NEW from \in Accounts, NEW to \in Accounts, NEW amount \in Int,
             Move(from, to, amount)
      PROVE  Goal
  <2> DEFINE taken == [balance EXCEPT ![from] = balance[from] - amount]
  <2>1. /\ amount > 0 /\ supply' = supply /\ balance[from] >= amount
        /\ balance' = [taken EXCEPT ![to] = taken[to] + amount]
    BY <1>4 DEF Move, transfer_internal
  <2>2. balance[from] \in Int /\ balance[from] - amount \in Int
    BY <1>0
  <2>3. taken \in [Accounts -> Int] /\ \A a \in Accounts : taken[a] >= 0
    BY <1>0, <2>1, <2>2
  <2>4. Sum(taken) = Sum(balance) + (balance[from] - amount) - balance[from]
    BY <1>0, <2>2, OneBalanceChanges
  <2> HIDE DEF taken
  <2>5. taken[to] \in Int /\ taken[to] + amount \in Int
    BY <2>3
  <2>6. Sum(balance') = Sum(taken) + (taken[to] + amount) - taken[to]
    BY <2>1, <2>3, <2>5, OneBalanceChanges
  <2>7. supply' = Sum(balance')
    BY <1>0, <2>1, <2>2, <2>4, <2>5, <2>6
  <2> QED BY <2>1, <2>3, <2>5, <2>7
<1>5. Goal
  <2> HIDE DEF Goal
  <2> QED BY <1>1, <1>2, <1>3, <1>4, MoneyCases
<1> QED
  BY <1>5 DEF SupplyIsSumOfBalances, Sum, FoldFunction, FoldFunctionOnSet,
              MapThenFoldSet

LEMMA SupplyInit == ASSUME Init PROVE SupplyIsSumOfBalances
<1>1. balance = [a \in Accounts |-> 0] /\ supply = 0
  BY DEF Init
<1>2. Sum([a \in Accounts |-> 0]) = 0
  BY SumOfZeros, StarTokenAssumption DEF StarTokenAssumption
<1> QED BY <1>1, <1>2, SupplyIsSum

\* The total_supply counter, which is kept by hand next to the balances, is their
\* sum for ever, and no balance is negative.
THEOREM SupplyIsBalances == Spec => []SupplyIsSumOfBalances
BY SupplyInit, SupplyStep, TypeCorrect, PTL DEF Spec

\* A frozen address's STAR stays where it is, whoever acts: each of the three
\* ways STAR moves demands that every address it touches is not frozen.
THEOREM FrozenIsStill == Spec => FrozenBalanceIsStill
<1>1. TypeOK /\ [Next]_vars =>
          [\A a \in frozen : balance'[a] = balance[a]]_vars
  <2> SUFFICES ASSUME TypeOK, [Next]_vars, NEW a \in frozen
               PROVE  balance'[a] = balance[a]
    OBVIOUS
  <2>0. a \in Accounts /\ balance \in [Accounts -> Int]
    BY DEF TypeOK
  <2>1. CASE UNCHANGED <<supply, balance>>
    BY <2>1
  <2>2. ASSUME NEW to \in Accounts, NEW amount \in Int, Credit(to, amount)
        PROVE  balance'[a] = balance[a]
    BY <2>0, <2>2 DEF Credit, MintInternal, Mintable
  <2>3. ASSUME NEW from \in Accounts, NEW amount \in Int, Debit(from, amount)
        PROVE  balance'[a] = balance[a]
    BY <2>0, <2>3 DEF Debit, burn_internal
  <2>4. ASSUME NEW from \in Accounts, NEW to \in Accounts, NEW amount \in Int,
               Move(from, to, amount)
        PROVE  balance'[a] = balance[a]
    BY <2>0, <2>4 DEF Move, transfer_internal
  <2> QED
    BY <2>1, <2>2, <2>3, <2>4, MoneyCases
<1> QED
  BY <1>1, TypeCorrect, PTL DEF Spec, FrozenBalanceIsStill

\* STAR leaves an address by its own signature or out of an unexpired
\* allowance, which shrinks by exactly the amount taken.
THEOREM SpendingGranted == Spec => SpendingIsGranted
<1>1. TypeOK /\ TypeOK' /\ [Next]_vars =>
          [\A a \in Accounts : balance'[a] < balance[a] =>
               signer' = a \/ TakenFromAllowance(a)]_vars
  <2> SUFFICES ASSUME TypeOK, TypeOK', [Next]_vars, NEW a \in Accounts,
                      balance'[a] < balance[a], signer' # a
               PROVE  TakenFromAllowance(a)
    OBVIOUS
  <2>0. /\ balance \in [Accounts -> Int] /\ ledger \in Nat /\ signer' \in Accounts
        /\ allowance \in [Accounts \X Accounts -> AllowanceValue]
    BY DEF TypeOK
  <2>1. CASE UNCHANGED <<supply, balance>>
    BY <2>0, <2>1
  <2>2. ASSUME NEW to \in Accounts, NEW amount \in Int, Credit(to, amount)
        PROVE  FALSE
    BY <2>0, <2>2 DEF Credit, MintInternal, Mintable
  <2>3. ASSUME NEW amount \in Int, spend_allowance(a, signer', amount),
               balance'[a] = balance[a] - amount
        PROVE  TakenFromAllowance(a)
    BY <2>0, <2>3 DEF spend_allowance, TakenFromAllowance, AllowanceValue
  <2>4. ASSUME NEW from \in Accounts, NEW amount \in Int, Debit(from, amount)
        PROVE  TakenFromAllowance(a)
    <3>1. from = a /\ balance'[a] = balance[a] - amount
      BY <2>0, <2>4 DEF Debit, burn_internal
    <3>2. spend_allowance(a, signer', amount)
      BY <2>4, <3>1 DEF Debit, Granted
    <3> QED
      BY <2>3, <3>1, <3>2
  <2>5. ASSUME NEW from \in Accounts, NEW to \in Accounts, NEW amount \in Int,
               Move(from, to, amount)
        PROVE  TakenFromAllowance(a)
    <3>1. from = a /\ balance'[a] = balance[a] - amount
      BY <2>0, <2>5 DEF Move, transfer_internal
    <3>2. spend_allowance(a, signer', amount)
      BY <2>5, <3>1 DEF Move, Granted
    <3> QED
      BY <2>3, <3>1, <3>2
  <2> QED
    BY <2>1, <2>2, <2>4, <2>5, MoneyCases
<1> QED
  BY <1>1, TypeCorrect, PTL DEF Spec, SpendingIsGranted

-----------------------------------------------------------------------------
\* Pausing freezes roles, money and fees: every entry point but pause and
\* unpause calls require_not_paused first.
THEOREM PausedStill == Spec => PausedIsStill
<1> DEFINE Still == UNCHANGED <<roleVars, moneyVars, feeBps>>
<1>1. [Next]_vars => [paused => Still]_vars
  <2> SUFFICES ASSUME [Next]_vars, paused
               PROVE  Still
    BY Zenon
  <2>1. \A caller \in Accounts : ~Authenticated(caller)
    BY Zenon DEF Authenticated
  <2>2. ASSUME NEW caller \in Accounts
        PROVE  ~HolderStep(caller) /\ ~SpenderStep(caller) /\ ~MinterStep(caller)
    <3>1. ~HolderStep(caller)
      <4>1. ASSUME NEW amount \in Amounts
            PROVE  ~burn(caller, amount) /\ ~burn_fee(caller, amount)
        <5>1. ~burn(caller, amount)
          BY <2>1, Zenon DEF burn
        <5>2. ASSUME burn_fee(caller, amount)
              PROVE  Authenticated(caller)
          BY <5>2, SMT DEF burn_fee
        <5> QED
          BY <2>1, <5>1, <5>2, Zenon
      <4>2. \A to \in Holders, amount \in Amounts : ~transfer(caller, to, amount)
        BY <2>1 DEF transfer
      <4>3. \A spender \in Spenders, amount \in Amounts, e \in 0..MaxLedger :
                ~approve(caller, spender, amount, e)
        BY <2>1, Zenon DEF approve
      <4> QED
        BY <4>1, <4>2, <4>3, Zenon DEF HolderStep
    <3>2. ~SpenderStep(caller)
      BY <2>1 DEF SpenderStep, burn_from, transfer_from
    <3>3. ~MinterStep(caller)
      BY <2>1 DEF MinterStep, mint, mint_from_minter, AdminCall
    <3> QED
      BY <3>1, <3>2, <3>3
  <2>3. ASSUME NEW caller \in Accounts, AdminStep(caller)
        PROVE  Still
    <3>1. PICK flag \in BOOLEAN : SetPaused(caller, flag)
      <4>1. \A a \in Candidates : ~set_admin(caller, a)
        BY <2>1, Zenon DEF set_admin, AdminCall
      <4>2. ~accept_admin(caller)
        BY <2>1, Zenon DEF accept_admin
      <4>3. \A a \in RoleHolders, f \in BOOLEAN :
                ~set_minter(caller, a, f) /\ ~set_authorized(caller, a, f)
        BY <2>1, Zenon DEF set_minter, set_authorized, AdminCall
      <4>4. ASSUME NEW bps \in BasisPoints
            PROVE  ~set_fee_burn_config(caller, bps)
        <5>1. set_fee_burn_config(caller, bps) => Authenticated(caller)
          BY SMT DEF set_fee_burn_config, AdminCall
        <5> QED
          BY <2>1, <5>1, Zenon
      <4> QED
        BY <2>3, <4>1, <4>2, <4>3, <4>4, Zenon DEF AdminStep
    <3> QED
      BY <3>1 DEF SetPaused
  <2>4. CASE CloseLedger
    BY <2>4 DEF CloseLedger
  <2>5. CASE UNCHANGED vars
    BY <2>5 DEF vars, roleVars, moneyVars
  <2> QED
    BY <2>2, <2>3, <2>4, <2>5, StepCases, Zenon
<1> QED
  BY <1>1, PTL DEF Spec, PausedIsStill

\* Only the admin, or the successor it proposed, can widen a role, and a
\* handoff strips the outgoing admin of both flags.
THEOREM RolesFromTheAdmin == Spec => RolesComeFromTheAdmin
<1> DEFINE Allowed ==
        /\ Grants # {} => \/ signer' = admin
                           \/ /\ signer' = pendingAdmin
                              /\ Grants \subseteq {admin'}
        /\ admin' # admin => admin \notin minter' /\ admin \in frozen'
<1>1. TypeOK /\ [Next]_vars => [Allowed]_vars
  <2> SUFFICES ASSUME TypeOK, [Next]_vars
               PROVE  Allowed
    OBVIOUS
  <2>1. ASSUME UNCHANGED roleVars
        PROVE  Allowed
    BY <2>1 DEF roleVars, Grants
  <2>2. ASSUME NEW caller \in Accounts, AdminCall(caller), admin' = admin
        PROVE  Allowed
    BY <2>2 DEF AdminCall, Authenticated
  <2>3. ASSUME NEW caller \in Accounts, accept_admin(caller)
        PROVE  Allowed
    BY <2>3 DEF accept_admin, Authenticated, Grants
  <2>4. ASSUME NEW caller \in Accounts, AdminStep(caller)
        PROVE  Allowed
    <3>1. accept_admin(caller) \/ (AdminCall(caller) /\ admin' = admin)
             \/ UNCHANGED roleVars
      BY <2>4 DEF AdminStep, set_admin, SetPaused, set_minter,
          set_authorized, set_fee_burn_config
    <3> QED
      BY <2>1, <2>2, <2>3, <3>1
  <2>5. ASSUME NEW caller \in Accounts,
               HolderStep(caller) \/ SpenderStep(caller) \/ MinterStep(caller)
        PROVE  UNCHANGED roleVars
    <3>1. HolderStep(caller) => UNCHANGED roleVars
      <4>1. \A amount \in Amounts :
                burn(caller, amount) \/ burn_fee(caller, amount) => UNCHANGED roleVars
        BY DEF burn, burn_fee
      <4>2. \A to \in Holders, amount \in Amounts :
                transfer(caller, to, amount) => UNCHANGED roleVars
        BY DEF transfer
      <4>3. \A spender \in Spenders, amount \in Amounts, e \in 0..MaxLedger :
                approve(caller, spender, amount, e) => UNCHANGED roleVars
        BY DEF approve
      <4> QED
        BY <4>1, <4>2, <4>3, Zenon DEF HolderStep
    <3>2. SpenderStep(caller) => UNCHANGED roleVars
      BY DEF SpenderStep, burn_from, transfer_from
    <3>3. MinterStep(caller) => UNCHANGED roleVars
      BY DEF MinterStep, mint, mint_from_minter
    <3> QED
      BY <2>5, <3>1, <3>2, <3>3
  <2>6. CASE CloseLedger \/ UNCHANGED vars
    BY <2>1, <2>6 DEF CloseLedger, vars, roleVars
  <2> QED
    BY <2>1, <2>4, <2>5, <2>6, StepCases, Zenon
<1> QED
  BY <1>1, TypeCorrect, PTL DEF Spec, RolesComeFromTheAdmin
=============================================================================
