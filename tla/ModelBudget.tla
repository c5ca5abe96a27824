------------------------------ MODULE ModelBudget ------------------------------
(***************************************************************************)
(* The budget of one run at the model egress proxy: the durable ledger     *)
(* (model-budget.ts), the route that reserves before it calls the provider *)
(* and settles afterwards (services/model-egress-proxy.ts).                *)
(*                                                                         *)
(* Calls are handled concurrently by one process: between reserve() and    *)
(* settle() a call awaits the provider, and the process may die there.     *)
(* What the provider bills is its own affair: it may bill a call nobody    *)
(* waits for any more.                                                     *)
(***************************************************************************)
EXTENDS Naturals, FiniteSets, Functions

CONSTANTS
  Calls,          \* POST requests to the proxy
  Amounts,        \* what reserveModelRequest() may compute for a request
  Priors,         \* prior_micro_usd in the signed claims
  Ceiling,        \* ceiling_micro_usd
  MaxConcurrent,  \* MAX_CONCURRENT_DISPATCH
  Overrun         \* bound: by how much the provider may exceed a reservation

\* What the ledger's constructor and the signed claims are checked for.
ASSUME BudgetAssumption ==
  /\ IsFiniteSet(Calls)
  /\ Amounts \subseteq Nat \ {0}
  /\ Ceiling \in Nat /\ \A p \in Priors : p \in Nat /\ p < Ceiling
  /\ MaxConcurrent \in Nat /\ Overrun \in Nat

VARIABLES
  spent,   \* model_budgets.spent
  frozen,  \* model_budgets.frozen
  res,     \* res[c]: the row of model_reservations of call c
  call,    \* call[c]: how far the handler is
  billed   \* billed[c]: what the provider bills for c

budgetVars == <<spent, frozen, res, call, billed>>

NoRow == [state |-> "none", amount |-> 0, actual |-> 0]

BudgetTypeOK ==
  /\ spent \in Nat
  /\ frozen \in BOOLEAN
  /\ res \in [Calls -> [state: {"none", "pending", "settled"}, amount: Nat, actual: Nat]]
  /\ call \in [Calls -> {"new", "fetching", "replied", "lost"}]
  /\ billed \in [Calls -> Nat]

BudgetInit ==
  /\ spent = 0 /\ frozen = FALSE
  /\ res = [c \in Calls |-> NoRow]
  /\ call = [c \in Calls |-> "new"]
  /\ billed = [c \in Calls |-> 0]

-----------------------------------------------------------------------------
(***************************************************************************)
(* The ledger: every operation is one immediate transaction.               *)
(***************************************************************************)
In(state) == {c \in Calls : res[c].state = state}

Amount == [c \in Calls |-> res[c].amount]

outstanding == SumFunctionOnSet(Amount, In("pending"))

\* Mutant: the worst cases of the calls in flight are not held.
insufficient_SpentOnly(base, amount) == base + amount > Ceiling

insufficient(base, amount) == base + outstanding + amount > Ceiling

saturated == Cardinality(In("pending")) >= MaxConcurrent

\* The larger of the ledger's subtotal and the one in the claims.
base(prior) == IF prior > spent THEN prior ELSE spent

\* reserve(): the first reservation also inserts the budget, with the prior.
reserve(c, amount, prior) ==
  /\ ~frozen /\ ~saturated
  /\ ~insufficient(base(prior), amount)
  /\ spent' = base(prior)
  /\ res' = [res EXCEPT ![c] = [state |-> "pending", amount |-> amount, actual |-> 0]]

settledRow(row, actual) == [state |-> "settled", amount |-> row.amount, actual |-> actual]

frozenAfter(row, actual) == frozen \/ actual > row.amount

\* settle(reservation, actual)
settle(c, actual) ==
  /\ res[c].state = "pending"
  /\ res' = [res EXCEPT ![c] = settledRow(@, actual)]
  /\ spent' = spent + actual
  /\ frozen' = frozenAfter(res[c], actual)

\* settle(reservation, null): the reservation stays pending for good.
settleUnknown(c) ==
  /\ res[c].state = "pending"
  /\ frozen' = TRUE
  /\ UNCHANGED <<spent, res>>

\* Mutant: a call that failed is taken to have cost nothing.
worstCase_Nothing(c) == 0

\* What a call without a usable answer is charged.
worstCase(c) == res[c].amount

-----------------------------------------------------------------------------
(***************************************************************************)
(* The route.                                                              *)
(***************************************************************************)
Reply(c) == call' = [call EXCEPT ![c] = "replied"]

\* The token, the payload or the ledger refuses the call: it never leaves.
Refuse(c) ==
  /\ call[c] = "new"
  /\ Reply(c)
  /\ UNCHANGED <<spent, frozen, res, billed>>

DispatchCall(c) ==
  /\ call[c] = "new"
  /\ \E amount \in Amounts, prior \in Priors : reserve(c, amount, prior)
  /\ call' = [call EXCEPT ![c] = "fetching"]
  /\ UNCHANGED <<frozen, billed>>

\* The provider works on a call that was sent, once.
Bill(c) ==
  /\ res[c].state # "none" /\ billed[c] = 0
  /\ \E cost \in 1 .. (res[c].amount + Overrun) : billed' = [billed EXCEPT ![c] = cost]
  /\ UNCHANGED <<spent, frozen, res, call>>

\* A completion with readable usage: charged as billed.
Completed(c) ==
  /\ call[c] = "fetching" /\ billed[c] > 0
  /\ settle(c, billed[c])
  /\ Reply(c)
  /\ UNCHANGED billed

\* A completion without usage.
UsageUnknown(c) ==
  /\ call[c] = "fetching" /\ billed[c] > 0
  /\ settleUnknown(c)
  /\ Reply(c)
  /\ UNCHANGED billed

\* The provider refused, the answer is too large, the deadline passed, the
\* client went away, or the first settle() threw: the worst case is charged.
Failed(c) ==
  /\ call[c] = "fetching"
  /\ settle(c, worstCase(c))
  /\ Reply(c)
  /\ UNCHANGED billed

\* The store cannot be written: the reservation stays pending.
StoreUnavailable(c) ==
  /\ call[c] = "fetching"
  /\ Reply(c)
  /\ UNCHANGED <<spent, frozen, res, billed>>

\* The proxy dies; the ledger is on disk.
Crash ==
  /\ \E c \in Calls : call[c] = "fetching"
  /\ call' = [c \in Calls |-> IF call[c] = "fetching" THEN "lost" ELSE call[c]]
  /\ UNCHANGED <<spent, frozen, res, billed>>

BudgetNext ==
  \/ \E c \in Calls :
       \/ Refuse(c) \/ DispatchCall(c) \/ Bill(c)
       \/ Completed(c) \/ UsageUnknown(c) \/ Failed(c) \/ StoreUnavailable(c)
  \/ Crash

BudgetSpec == BudgetInit /\ [][BudgetNext]_budgetVars

-----------------------------------------------------------------------------
(***************************************************************************)
(* Properties.                                                             *)
(***************************************************************************)
\* Concurrent dispatches cannot overspend: as long as the provider was not seen
\* to exceed a reservation, what is charged and what is held stay within the
\* ceiling, frozen or not.
WithinCeiling ==
  (\A c \in In("settled") : res[c].actual <= res[c].amount) => spent + outstanding <= Ceiling

\* Nothing the provider bills escapes the ledger, whoever hung up, timed out or
\* crashed: the bills are covered by what is charged and what is held.
BillsAreCovered ==
  (\A c \in Calls : billed[c] <= res[c].amount) =>
    SumFunction(billed) <= spent + outstanding

\* At most MAX_CONCURRENT_DISPATCH reservations are pending, the ones a crash
\* left behind included.
DispatchesBounded == Cardinality(In("pending")) <= MaxConcurrent

\* A frozen budget stays frozen and admits no further dispatch.
FrozenForGood ==
  [][frozen => /\ frozen'
               /\ \A c \in Calls : res[c].state = "none" => res'[c].state = "none"]_budgetVars

\* model-budget.ts on settled_micro_usd: the amounts actually charged by the
\* provider, not the reserved worst case.
SettledAsBilled == \A c \in In("settled") : res[c].actual <= billed[c]
=============================================================================
