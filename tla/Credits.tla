------------------------------- MODULE Credits ------------------------------
(***************************************************************************)
(* Credits (the first part of chain/financial_evaluator.cpp) and the part  *)
(* of a member's income that repays them (deposit_cashback in              *)
(* chain/db_balance.cpp, pay_staking_reward in chain/poc_evaluator.cpp).   *)
(*                                                                         *)
(* A credit has no schedule.  While it is open, the income of the          *)
(* debitor is withheld (allowed_to_repay) until it reaches total_credit;   *)
(* the creditor may collect what is withheld before that (credit_repaid).  *)
(* The system itself gives credits by issuing core asset, and burns twice  *)
(* the amount when they are repaid.  Account 0, the committee account, is  *)
(* also the value of "creditor" that stands for the system.                *)
(***************************************************************************)
EXTENDS Integers, FiniteSets, Functions

CONSTANTS
    Accounts,         \* account ids; 0 is the committee account
    Lenders,          \* the accounts that offer credits
    Earners,          \* the accounts that earn cashback
    Balances,         \* initial core balances
    Pending,          \* fees collected so far and to be paid out as cashback
    CreditTerms,      \* credit offers: [min_income, credit_amount, repay_amount]
    Amounts,          \* amounts of cashback, repayments and system credits
    Rewards,          \* shares of stakings
    MaxOffers,        \* bound: credit offers ever created
    MaxStakings,      \* bound: shares of stakings ever paid
    None              \* no object

AccountAssumption ==
    /\ 0 \in Accounts /\ Accounts \subseteq Nat /\ IsFiniteSet(Accounts)
    /\ Lenders \cup Earners \subseteq Accounts
    /\ Balances \in [Accounts -> Nat] /\ Pending \in Nat
    /\ {MaxOffers, MaxStakings} \subseteq Nat
TermsAssumption ==
    /\ \A t \in CreditTerms : /\ {t.min_income, t.credit_amount, t.repay_amount} \subseteq Nat
                             /\ t.credit_amount > 0 /\ t.repay_amount >= t.credit_amount
    /\ Amounts \subseteq Nat /\ Rewards \subseteq Nat
    /\ None \notin [creditor : Accounts, terms : CreditTerms]

VARIABLES
    balance,      \* core balances
    vested,       \* cashback vesting balances
    stats,        \* the credit and income fields of account_statistics_object
    offers,       \* credit_offer objects, by id
    next,         \* the next offer id
    supply,       \* current_supply of the core asset
    pending,      \* fees still to be paid out
    credits_open, \* head_block_time() <= HARDFORK_CORE_145_TIME
    got,          \* history: what each account was paid as a creditor
    settled,      \* history: repay amounts of the credits it gave that are closed
    stakings      \* history: shares of stakings paid so far

vars == <<balance, vested, stats, offers, next, supply, pending,
          credits_open, got, settled, stakings>>

offerVars == <<offers, next>>
history   == <<got, settled>>

OfferIds == 1..MaxOffers

OpenCredit(total, creditor) ==
    [total_credit |-> total, allowed_to_repay |-> 0, credit_repaid |-> 0, creditor |-> creditor]
NoCredit == OpenCredit(0, 0)

NewStats == [credit |-> NoCredit, first |-> 0, second |-> 0, third |-> 0, current |-> 0]

Init ==
    /\ balance = Balances
    /\ vested = [a \in Accounts |-> 0]
    /\ stats = [a \in Accounts |-> NewStats]
    /\ offers = [i \in OfferIds |-> None]
    /\ next = 1
    /\ supply = SumFunctionOnSet(Balances, Accounts) + Pending
    /\ pending = Pending
    /\ credits_open = TRUE
    /\ got = [a \in Accounts |-> 0]
    /\ settled = [a \in Accounts |-> 0]
    /\ stakings = 0

Credit(a)  == stats[a].credit
HasCredit(a) == Credit(a).total_credit # 0

(* The income of the last three full months. *)
Income(a) == stats[a].first + stats[a].second + stats[a].third

-----------------------------------------------------------------------------
(* Credits of the system *)

CreditSystemGet(a, amount) ==
    /\ credits_open
    /\ ~HasCredit(a)
    /\ amount <= Income(a)
    /\ supply' = supply + amount
    /\ stats' = [stats EXCEPT ![a].credit = OpenCredit(2 * amount, 0)]
    /\ balance' = [balance EXCEPT ![a] = @ + amount]
    /\ UNCHANGED <<vested, offerVars, pending, credits_open, history, stakings>>

Hardfork145 ==
    /\ credits_open
    /\ credits_open' = FALSE
    /\ UNCHANGED <<balance, vested, stats, offerVars, supply, pending, history, stakings>>

-----------------------------------------------------------------------------
(* Credits between members *)

CreditOfferCreate(c, terms) ==
    /\ next \in OfferIds
    /\ offers' = [offers EXCEPT ![next] = [creditor |-> c, terms |-> terms]]
    /\ next' = next + 1
    /\ UNCHANGED <<balance, vested, stats, supply, pending, credits_open, history, stakings>>

CreditOfferCancel(i) ==
    /\ offers[i] # None
    /\ offers' = [offers EXCEPT ![i] = None]
    /\ UNCHANGED <<balance, vested, stats, next, supply, pending, credits_open, history, stakings>>

(* Mutant: a second credit replaces the first. *)
CreditOfferFillTwice(i, a) ==
    LET c == offers[i].creditor  terms == offers[i].terms
    IN  /\ offers[i] # None
        /\ balance[c] >= terms.credit_amount
        /\ terms.min_income <= Income(a)
        /\ stats' = [stats EXCEPT ![a].credit = OpenCredit(terms.repay_amount, c)]
        /\ balance' = [[balance EXCEPT ![c] = @ - terms.credit_amount]
                                EXCEPT ![a] = @ + terms.credit_amount]
        /\ offers' = [offers EXCEPT ![i] = None]
        /\ UNCHANGED <<vested, next, supply, pending, credits_open, history, stakings>>

CreditOfferFill(i, a) ==
    LET c == offers[i].creditor  terms == offers[i].terms
    IN  /\ offers[i] # None
        /\ balance[c] >= terms.credit_amount
        /\ ~HasCredit(a)
        /\ terms.min_income <= Income(a)
        /\ stats' = [stats EXCEPT ![a].credit = OpenCredit(terms.repay_amount, c)]
        /\ balance' = [[balance EXCEPT ![c] = @ - terms.credit_amount]
                                EXCEPT ![a] = @ + terms.credit_amount]
        /\ offers' = [offers EXCEPT ![i] = None]
        /\ UNCHANGED <<vested, next, supply, pending, credits_open, history, stakings>>

(* The creditor collects a part of what has been withheld from the debitor a. *)
CreditRepay(a, amount) ==
    LET credit == Credit(a)
    IN  /\ credit.allowed_to_repay - credit.credit_repaid >= amount
        /\ credit.creditor # 0
        /\ stats' = [stats EXCEPT ![a].credit.credit_repaid = @ + amount]
        /\ balance' = [balance EXCEPT ![credit.creditor] = @ + amount]
        /\ got' = [got EXCEPT ![credit.creditor] = @ + amount]
        /\ UNCHANGED <<vested, offerVars, supply, pending, credits_open, settled, stakings>>

-----------------------------------------------------------------------------
(* Income *)

Earn(a, amount, count_income) == [stats[a] EXCEPT !.current = IF count_income THEN @ + amount ELSE @]

(* What the creditor still has to get when all of the credit is withheld. *)
ToCreditor(credit) == credit.total_credit - credit.credit_repaid

(* An income repays the open credit first.  It is withheld while something is missing;
   when nothing is, the creditor gets its due, or a credit of the system is burnt. *)
Repayment(a, amount, count_income) ==
    LET credit  == Credit(a)
        missing == credit.total_credit - credit.allowed_to_repay
        earned  == Earn(a, amount, count_income)
        partly  == HasCredit(a) /\ missing > amount
        wholly  == HasCredit(a) /\ missing <= amount
        member  == wholly /\ credit.creditor # 0
    IN  [stats    |-> IF partly THEN [earned EXCEPT !.credit.allowed_to_repay = @ + amount]
                      ELSE IF wholly THEN [earned EXCEPT !.credit = NoCredit] ELSE earned,
         rest     |-> IF partly THEN 0 ELSE IF wholly THEN amount - missing ELSE amount,
         burnt    |-> IF wholly /\ ~member THEN credit.total_credit ELSE 0,
         creditor |-> credit.creditor,
         paid     |-> IF member THEN ToCreditor(credit) ELSE 0,
         closed   |-> IF member THEN credit.total_credit ELSE 0]

PayCreditor(r) ==
    /\ got' = [got EXCEPT ![r.creditor] = @ + r.paid]
    /\ settled' = [settled EXCEPT ![r.creditor] = @ + r.closed]

(* A cashback comes from the fees.  The rest goes to the vesting balance, or, for an
   account of the blockchain, back to the reserve. *)
DepositCashback(a, amount, count_income) ==
    LET r == Repayment(a, amount, count_income)
    IN  /\ pending >= amount
        /\ pending' = pending - amount
        /\ stats' = [stats EXCEPT ![a] = r.stats]
        /\ balance' = [balance EXCEPT ![r.creditor] = @ + r.paid]
        /\ vested' = IF a = 0 THEN vested ELSE [vested EXCEPT ![a] = @ + r.rest]
        /\ supply' = supply - r.burnt - (IF a = 0 THEN r.rest ELSE 0)
        /\ PayCreditor(r)
        /\ UNCHANGED <<offerVars, credits_open, stakings>>

(* A referrer's share of a staking is made of new coins.  The rest goes to the balance. *)
PayStakingReward(a, amount) ==
    LET r == Repayment(a, amount, TRUE)
    IN  /\ stakings < MaxStakings
        /\ stakings' = stakings + 1
        /\ a # 0
        /\ stats' = [stats EXCEPT ![a] = r.stats]
        /\ balance' = [[balance EXCEPT ![r.creditor] = @ + r.paid] EXCEPT ![a] = @ + r.rest]
        /\ supply' = supply - r.burnt + amount
        /\ PayCreditor(r)
        /\ UNCHANGED <<vested, offerVars, pending, credits_open>>

(* perform_credit_maintenance, for every account with some income *)
CreditMaintenance ==
    /\ \E a \in Accounts : stats[a].current # 0 \/ Income(a) # 0
    /\ stats' = [a \in Accounts |->
          [stats[a] EXCEPT !.first = stats[a].second, !.second = stats[a].third,
                           !.third = stats[a].current, !.current = 0]]
    /\ UNCHANGED <<balance, vested, offerVars, supply, pending, credits_open, history, stakings>>

Next ==
    \/ \E a \in Accounts, n \in Amounts : CreditSystemGet(a, n)
    \/ Hardfork145
    \/ \E c \in Lenders, t \in CreditTerms : CreditOfferCreate(c, t)
    \/ \E i \in OfferIds : CreditOfferCancel(i)
    \/ \E i \in OfferIds, a \in Accounts : CreditOfferFill(i, a)
    \/ \E a \in Accounts, n \in Amounts : CreditRepay(a, n)
    \/ \E a \in Earners, n \in Amounts, b \in BOOLEAN : DepositCashback(a, n, b)
    \/ \E a \in Earners, n \in Rewards : PayStakingReward(a, n)
    \/ CreditMaintenance

Spec == Init /\ [][Next]_vars

-----------------------------------------------------------------------------
(* Properties *)

Credits == [total_credit : Nat, allowed_to_repay : Nat, credit_repaid : Nat, creditor : Accounts]

TypeOK ==
    /\ balance \in [Accounts -> Nat] /\ vested \in [Accounts -> Nat]
    /\ stats \in [Accounts -> [credit : Credits, first : Nat, second : Nat, third : Nat,
                               current : Nat]]
    /\ offers \in [OfferIds -> [creditor : Accounts, terms : CreditTerms] \cup {None}]
    /\ next \in 1..(MaxOffers + 1)
    /\ supply \in Nat /\ pending \in Nat
    /\ credits_open \in BOOLEAN
    /\ got \in [Accounts -> Nat] /\ settled \in [Accounts -> Nat]
    /\ stakings \in 0..MaxStakings

Withheld(a) == Credit(a).allowed_to_repay - Credit(a).credit_repaid

(* The supply counter of the core asset is what the accounts, the fees to be paid
   out and the open credits hold: issuing at credit_system_get (line 60), withholding,
   collecting and burning (db_balance.cpp 152-190) together neither lose nor
   make a unit. *)
SupplyAccounted ==
    supply = SumFunctionOnSet([a \in Accounts |-> balance[a] + vested[a] + Withheld(a)], Accounts) + pending

(* A creditor never collects more than was withheld, and a credit whose whole
   amount has been withheld does not stay open (financial_evaluator.cpp 86,
   db_balance.cpp 152). *)
CreditsWithinBounds ==
    \A a \in Accounts :
        IF HasCredit(a)
        THEN /\ Credit(a).credit_repaid <= Credit(a).allowed_to_repay
             /\ Credit(a).allowed_to_repay < Credit(a).total_credit
        ELSE Credit(a) = NoCredit

(* Whatever it collected before the end and in which order the incomes came, a
   creditor has got exactly the repay amounts of its closed credits and what it
   collected from the open ones. *)
CreditorsArePaid ==
    \A c \in Accounts \ {0} :
        got[c] = settled[c]
                 + SumFunctionOnSet([a \in Accounts |-> Credit(a).credit_repaid],
                                    {a \in Accounts : Credit(a).creditor = c})

(* An open credit keeps its creditor and its amount until its debitor's income
   has covered it: no operation replaces it or drops it. *)
KeepsCreditTerms ==
      \A a \in Accounts : HasCredit(a) =>
           \/ /\ Credit(a)'.total_credit = Credit(a).total_credit
              /\ Credit(a)'.creditor = Credit(a).creditor
           \/ /\ Credit(a)' = NoCredit
              /\ \E income \in {pending - pending', stats'[a].current - stats[a].current} :
                     Credit(a).allowed_to_repay + income >= Credit(a).total_credit

=============================================================================
