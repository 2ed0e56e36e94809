------------------------------ MODULE MCLedger ------------------------------
(***************************************************************************)
(* The contracts between members, one family in a behaviour: credits,      *)
(* pledges with transfers that wait for approval, bets with lots, the      *)
(* matrix, the great race, once with its bets and once over a whole        *)
(* season, the referral network with the way of a fee, stakes with vesting *)
(* balances, the poll on their yields, and proposals. They meet only in    *)
(* the balances, so a behaviour chooses the family it is about and leaves  *)
(* the state of the others alone.                                          *)
(***************************************************************************)
EXTENDS Integers, Sequences, TLC

CONSTANT None

VARIABLES
    contract,     \* the family of contracts that this behaviour uses
    balance, vested, stats, offers, next, supply, pending, credits_open, got, settled,
    stakings,
    pledgeBalance, pledges, transfers, pledgeNext, accumulated, gcwd_supply, gcwd_price, now,
    betBalance, flips, lots, betNext, fees, flipped, mixed, betNow,
    matrixBalance, matrices, rooms, matrixStats, matrixFees, head,
    raceBalance, raceSupply, raceFees, teams, nextTeam, gr_team, rank, period, invites, bets, votes,
    prizes, apostolos, authority, race,
    referrer, status, volume, feeBalance, pendingFees, funds, feeTime, next_maintenance, bonuses,
    stakeBalance, silver, staked, pocVotes, vests, slots, vestingPeriod, percents, core, stakeTime, poll,
    stakeMaintenance,
    db, index, saved, blockTime

-----------------------------------------------------------------------------
(* The committee account, which lends as well, a lender and a debitor. *)
Credits == INSTANCE Credits WITH
    Accounts <- 0..2, Lenders <- {0, 1}, Earners <- {2},
    Balances <- (0 :> 1) @@ (1 :> 2) @@ (2 :> 0),
    Pending <- 2, Amounts <- {1, 2}, Rewards <- {2}, MaxOffers <- 2, MaxStakings <- 1,
    CreditTerms <- {[min_income |-> 0, credit_amount |-> 1, repay_amount |-> 2],
                    [min_income |-> 1, credit_amount |-> 2, repay_amount |-> 3]}

Cwd(k)  == [asset |-> "cwd", n |-> k]
Gcwd(k) == [asset |-> "gcwd", n |-> k]

(* The committee account and two members; five days run over the clock. *)
Pledges == INSTANCE Pledges WITH
    balance <- pledgeBalance, next <- pledgeNext,
    Accounts <- 0..2, Arbitrators <- {0},
    StatusOf <- (0 :> 0) @@ (1 :> 2) @@ (2 :> 1),
    Balances <- (0 :> [cwd |-> 1, gcwd |-> 0]) @@ (1 :> [cwd |-> 2, gcwd |-> 0])
                @@ (2 :> [cwd |-> 0, gcwd |-> 1]),
    Terms <- {[pledge |-> Gcwd(1), credit |-> Cwd(1), repay |-> Cwd(2), days |-> 1],
              [pledge |-> Cwd(1), credit |-> Cwd(1), repay |-> Cwd(1), days |-> 5]},
    Transfers <- {2}, Payments <- {(2 :> 1)},
    GcwdPrice <- 1, GcwdStep <- 1, GcwdMaxSupply <- 2, Commission <- 50,
    TimeWidth <- 6, MaxTime <- 4, MaxOffers <- 2, MaxTransfers <- 1

(* Two accounts, one of which may sell lots. *)
Bets == INSTANCE Bets WITH
    balance <- betBalance, next <- betNext, now <- betNow,
    Accounts <- {"s", "p"}, Sellers <- {"s"},
    Balances <- ("s" :> [cwd |-> 3, gcwd |-> 0]) @@ ("p" :> [cwd |-> 3, gcwd |-> 1]),
    Stakes <- {1, 2}, CallAssets <- {"cwd", "gcwd"}, MinBet <- 1, BetLife <- 2, CallLife <- 1,
    TotalParticipants <- 2, Prices <- {1}, Latencies <- {1, 3}, LotLife <- 3, Lookahead <- 1,
    BlockGaps <- {1, 2}, MaxTime <- 6, MaxBets <- 2, MaxLots <- 1

(* Players without a contract, and one whose contract opens two levels. *)
Matrix == INSTANCE Matrix WITH
    balance <- matrixBalance, stats <- matrixStats, accumulated <- matrixFees,
    Players <- {"p", "q", "c"}, StatusOf <- ("p" :> 0) @@ ("q" :> 0) @@ ("c" :> 1),
    Balances <- ("p" :> 4) @@ ("q" :> 4) @@ ("c" :> 5),
    LastLevel <- 3, Price <- <<1, 2, 3>>, Prize <- <<2, 3, 6>>, Cells <- <<2, 2, 2>>,
    Lasts <- 2, Idle <- 1, MaxBlock <- 6, MaxRooms <- 6

(* Two captains and a player; a calendar of two races with the pattern of  *)
(* the code's six.  The first race with bets, maintenance may be late:     *)
Race == INSTANCE GreatRace WITH
    balance <- raceBalance, supply <- raceSupply, fees <- raceFees,
    Accounts <- {"c", "d", "p"}, Captains <- {"c", "d"}, FirstApostolos <- {"p"},
    Balances <- ("c" :> 1) @@ ("d" :> 1) @@ ("p" :> 2),
    Races <- {2, 5}, HalfTime <- 3, LastInterval <- 6, Days <- <<1, 2, 1, 1, 1, 1>>,
    MaxSupply <- 10, Margin <- 1, MaxPlayers <- 1, TopTeams <- 2, TopReward <- 1, EliteTeams <- 2,
    MinTeamVolume <- 0, MinVoteRank <- 2, VoteDuration <- 1, MinBet <- 1, Volumes <- {2},
    Prizes <- [volume |-> <<2, 4>>, reward |-> <<1, 2>>, elite |-> 1],
    Earners <- {"c", "d"}, Amounts <- {1, 2}, Ranges <- {[lower |-> 1, upper |-> 1]}, Ballots <- {},
    Gaps <- {1, 3}, MaxTime <- 4, MaxTeams <- 2, MaxInvites <- 0, MaxVolume <- 2, MaxVotes <- 0,
    MaxBets <- 2

(* A season and the vote of the next one, without bets. *)
Season == INSTANCE GreatRace WITH
    balance <- raceBalance, supply <- raceSupply, fees <- raceFees,
    Accounts <- {"c", "d", "p"}, Captains <- {"c", "d"}, FirstApostolos <- {"p"},
    Balances <- ("c" :> 1) @@ ("d" :> 1) @@ ("p" :> 2),
    Races <- {2, 5}, HalfTime <- 3, LastInterval <- 6, Days <- <<1, 2, 1, 1, 1, 1>>,
    MaxSupply <- 10, Margin <- 1, MaxPlayers <- 1, TopTeams <- 2, TopReward <- 1, EliteTeams <- 2,
    MinTeamVolume <- 0, MinVoteRank <- 2, VoteDuration <- 1, MinBet <- 1, Volumes <- {2},
    Prizes <- [volume |-> <<2, 4>>, reward |-> <<1, 2>>, elite |-> 1],
    Earners <- {"p"}, Amounts <- {}, Ranges <- {},
    Ballots <- {[volume |-> <<1, 3>>, reward |-> <<0, 3>>, elite |-> 2],
                [volume |-> <<2, 3>>, reward |-> <<1, 1>>, elite |-> 1]},
    Gaps <- {1}, MaxTime <- 9, MaxTeams <- 2, MaxInvites <- 1, MaxVolume <- 4, MaxVotes <- 2,
    MaxBets <- 0

(* A chain of three members under the root, a place for a fourth, and a    *)
(* year that two intervals of maintenance cover.                           *)
Referral == INSTANCE Referral WITH
    balance <- feeBalance, now <- feeTime,
    Accounts <- 0..5, Root <- 1,
    Referrers <- (0 :> 0) @@ (1 :> 0) @@ (2 :> 1) @@ (3 :> 2) @@ (4 :> 3),
    Balances <- (0 :> 0) @@ (1 :> 0) @@ (2 :> 20) @@ (3 :> 40) @@ (4 :> 20) @@ (5 :> 0),
    Registrars <- {4}, Hundred <- 10, RefPercent <- <<2, 1, 1>>,
    StatusFee <- <<20, 40>>, StatusLevels <- (0 :> 0) @@ (1 :> 2) @@ (2 :> 3),
    StatusDenominator <- (0 :> 0) @@ (1 :> 7) @@ (2 :> 10), BonusLevel <- 2, CutLinear <- 4,
    NvThreshold <- <<20, 40>>, NvReward <- <<1, 2>>, NvLevels <- 3, MinNvStatus <- 1,
    CompressionLevels <- 6, CompressionLimit <- 0, MinNotCompressed <- 2, StatisticPeriod <- 4,
    Year <- 2, Gold <- (0 :> 1) @@ (1 :> 0) @@ (2 :> 0) @@ (3 :> 1) @@ (4 :> 0) @@ (5 :> 0),
    MaxSupply <- 100, PayPerBlock <- 1, BlockInterval <- 1, MaintenanceInterval <- 2,
    CycleRate <- 1, CycleUnit <- 8, Fee <- 20, Tips <- {0, 20}, Gaps <- {1, 2}, MaxTime <- 5

(* Two members below the root, whose account is also that of the           *)
(* apostolos.  They stake and lock, and the period of cashback changes:    *)
Staking == INSTANCE Staking WITH
    balance <- stakeBalance, votes <- pocVotes, period <- vestingPeriod, now <- stakeTime,
    next_maintenance <- stakeMaintenance,
    Accounts <- 0..3, Referrer <- (0 :> 0) @@ (1 :> 0) @@ (2 :> 1) @@ (3 :> 2),
    StatusOf <- (0 :> 0) @@ (1 :> 2) @@ (2 :> 1) @@ (3 :> 0), FirstStakers <- {1, 2},
    Balances <- (0 :> 0) @@ (1 :> 2) @@ (2 :> 4) @@ (3 :> 14),
    Silver <- (0 :> 0) @@ (1 :> 0) @@ (2 :> 0) @@ (3 :> 10), Witness <- 2, Apostolos <- 1,
    Hundred <- 10, OnePercent <- 2, Precision <- 1, FirstPercents <- <<3, 4, 5>>,
    MinStake <- <<10, 10, 10>>, Terms <- <<2, 2, 3>>, RefPercent <- <<2, 1, 1>>,
    StatusLevels <- (0 :> 1) @@ (1 :> 2) @@ (2 :> 3),
    StatusDenominator <- (0 :> 2) @@ (1 :> 8) @@ (2 :> 10), GcwdPercent <- 2, ApostolosPercent <- 5,
    MinVotes <- 2, FilterPercent <- 4, VoteInterval <- 4, VoteDuration <- 1, FirstVote <- 2,
    MaxSupply <- 50, PayPerBlock <- 3, PayPeriod <- 2,
    Stakers <- {3}, Stakes <- {10}, Ballots <- {},
    Policies <- {[kind |-> "linear", begin |-> 1, cliff |-> 2, duration |-> 3],
                 [kind |-> "cdd", period |-> 2, claim |-> 2]},
    Withdrawals <- {3}, Budgets <- {3}, CashbackPeriods <- {0, 2}, MaintenanceInterval <- 1,
    Gaps <- {1}, MaxTime <- 5, MaxVests <- 3

(* Three accounts vote, and the middle vote counts. *)
Poll == INSTANCE Staking WITH
    balance <- stakeBalance, votes <- pocVotes, period <- vestingPeriod, now <- stakeTime,
    next_maintenance <- stakeMaintenance,
    Accounts <- 0..3, Referrer <- (0 :> 0) @@ (1 :> 0) @@ (2 :> 1) @@ (3 :> 2),
    StatusOf <- (0 :> 0) @@ (1 :> 2) @@ (2 :> 1) @@ (3 :> 0), FirstStakers <- {1, 2, 3},
    Balances <- (0 :> 0) @@ (1 :> 2) @@ (2 :> 4) @@ (3 :> 14),
    Silver <- (0 :> 0) @@ (1 :> 0) @@ (2 :> 0) @@ (3 :> 10), Witness <- 2, Apostolos <- 1,
    Hundred <- 10, OnePercent <- 2, Precision <- 1, FirstPercents <- <<3, 4, 5>>,
    MinStake <- <<10, 10, 10>>, Terms <- <<2, 2, 3>>, RefPercent <- <<2, 1, 1>>,
    StatusLevels <- (0 :> 1) @@ (1 :> 2) @@ (2 :> 3),
    StatusDenominator <- (0 :> 2) @@ (1 :> 8) @@ (2 :> 10), GcwdPercent <- 2, ApostolosPercent <- 5,
    MinVotes <- 2, FilterPercent <- 4, VoteInterval <- 4, VoteDuration <- 1, FirstVote <- 2,
    MaxSupply <- 50, PayPerBlock <- 3, PayPeriod <- 2,
    Stakers <- {}, Stakes <- {10}, Ballots <- {<<1, 0, 0>>, <<2, 1, 1>>}, Policies <- {},
    Withdrawals <- {}, Budgets <- {0}, CashbackPeriods <- {0}, MaintenanceInterval <- 2,
    Gaps <- {1, 2}, MaxTime <- 8, MaxVests <- 0

(* A company that two members act for together, and who may also pay       *)
(* themselves; a transaction that fails in its second half, and some that  *)
(* approve, retract from or delete the one before.                         *)
Pay(a, n)  == [kind |-> "transfer", by |-> a, amount |-> n]
Say(k, a, i) == [kind |-> k, by |-> a, id |-> i]

Proposals == INSTANCE Proposals WITH
    now <- blockTime,
    Accounts <- {"x", "y", "company"}, Signers <- {"x", "y"},
    Quorums <- ("x" :> {}) @@ ("y" :> {}) @@ ("company" :> {{"x", "y"}}),
    Balances <- ("x" :> 1) @@ ("y" :> 0) @@ ("company" :> 1),
    Transactions <- {<<Pay("company", 1)>>, <<Pay("x", 1), Pay("y", 1)>>,
                     <<Say("approve", "y", 1), Pay("x", 1)>>,
                     <<Say("retract", "x", 1), Say("delete", "y", 1)>>},
    Lifetimes <- {2}, MaxLifetime <- 2, MaxNesting <- 2, PendingTimes <- {2},
    MaxDeposits <- 1, MaxProposals <- 2, MaxTime <- 3

ASSUME ContractAssumptions ==
    /\ Credits!AccountAssumption /\ Credits!TermsAssumption
    /\ Pledges!AccountAssumption /\ Pledges!AmountAssumption
    /\ Pledges!TimeAssumption /\ Pledges!NoneAssumption
    /\ Bets!AccountAssumption /\ Bets!AmountAssumption /\ Bets!LifeAssumption /\ Bets!NoneAssumption
    /\ Matrix!BlocksAssumption /\ Matrix!PrizeAssumption
    /\ Race!CalendarAssumption /\ Race!BetAssumption
    /\ Season!BallotAssumption
    /\ Referral!PercentAssumption
    /\ Staking!StakingAssumption

-----------------------------------------------------------------------------
creditVars == <<balance, vested, stats, offers, next, supply, pending, credits_open, got, settled,
                stakings>>
pledgeVars == <<pledgeBalance, pledges, transfers, pledgeNext, accumulated, gcwd_supply, gcwd_price,
                now>>
betVars    == <<betBalance, flips, lots, betNext, fees, flipped, mixed, betNow>>
matrixVars == <<matrixBalance, matrices, rooms, matrixStats, matrixFees, head>>
raceVars   == <<raceBalance, raceSupply, raceFees, teams, nextTeam, gr_team, rank, period, invites,
                bets, votes, prizes, apostolos, authority, race>>

feeVars    == <<referrer, status, volume, feeBalance, pendingFees, funds, feeTime, next_maintenance,
                bonuses>>
stakeVars  == <<stakeBalance, silver, staked, pocVotes, vests, slots, vestingPeriod, percents, core,
                stakeTime, poll, stakeMaintenance>>
proposalVars == <<db, index, saved, blockTime>>

vars == <<contract, creditVars, pledgeVars, betVars, matrixVars, raceVars, feeVars, stakeVars, proposalVars>>

(* The state of the families that a behaviour is not about. *)
NoCredits ==
    /\ balance = None /\ vested = None /\ stats = None /\ offers = None /\ next = None
    /\ supply = None /\ pending = None /\ credits_open = None /\ got = None /\ settled = None
    /\ stakings = None
NoPledges ==
    /\ pledgeBalance = None /\ pledges = None /\ transfers = None /\ pledgeNext = None
    /\ accumulated = None /\ gcwd_supply = None /\ gcwd_price = None /\ now = None
NoBets ==
    /\ betBalance = None /\ flips = None /\ lots = None /\ betNext = None /\ fees = None
    /\ flipped = None /\ mixed = None /\ betNow = None
NoMatrix ==
    /\ matrixBalance = None /\ matrices = None /\ rooms = None /\ matrixStats = None
    /\ matrixFees = None /\ head = None
NoRace ==
    /\ raceBalance = None /\ raceSupply = None /\ raceFees = None /\ teams = None
    /\ nextTeam = None /\ gr_team = None /\ rank = None /\ period = None /\ invites = None
    /\ bets = None /\ votes = None /\ prizes = None /\ apostolos = None /\ authority = None
    /\ race = None
NoReferral ==
    /\ referrer = None /\ status = None /\ volume = None /\ feeBalance = None
    /\ pendingFees = None /\ funds = None /\ feeTime = None /\ next_maintenance = None
    /\ bonuses = None
NoStaking ==
    /\ stakeBalance = None /\ silver = None /\ staked = None /\ pocVotes = None /\ vests = None
    /\ slots = None /\ vestingPeriod = None /\ percents = None /\ core = None
    /\ stakeTime = None /\ poll = None /\ stakeMaintenance = None
NoProposals ==
    /\ db = None /\ index = None /\ saved = None /\ blockTime = None

Init ==
    /\ contract \in {"credits", "pledges", "bets", "matrix", "race", "season", "referral", "staking",
                    "poll", "proposals"}
    /\ IF contract = "credits" THEN Credits!Init ELSE NoCredits
    /\ IF contract = "pledges" THEN Pledges!Init ELSE NoPledges
    /\ IF contract = "bets" THEN Bets!Init ELSE NoBets
    /\ IF contract = "matrix" THEN Matrix!Init ELSE NoMatrix
    /\ IF contract \in {"race", "season"} THEN Race!Init ELSE NoRace
    /\ IF contract = "referral" THEN Referral!Init ELSE NoReferral
    /\ CASE contract = "staking" -> Staking!Init
         [] contract = "poll" -> Poll!Init
         [] OTHER -> NoStaking
    /\ IF contract = "proposals" THEN Proposals!Init ELSE NoProposals

Next ==
    \/ /\ contract = "credits" /\ Credits!Next
       /\ UNCHANGED <<contract, pledgeVars, betVars, matrixVars, raceVars, feeVars, stakeVars, proposalVars>>
    \/ /\ contract = "pledges" /\ Pledges!Next
       /\ UNCHANGED <<contract, creditVars, betVars, matrixVars, raceVars, feeVars, stakeVars, proposalVars>>
    \/ /\ contract = "bets" /\ Bets!Next
       /\ UNCHANGED <<contract, creditVars, pledgeVars, matrixVars, raceVars, feeVars, stakeVars, proposalVars>>
    \/ /\ contract = "matrix" /\ Matrix!Next
       /\ UNCHANGED <<contract, creditVars, pledgeVars, betVars, raceVars, feeVars, stakeVars, proposalVars>>
    \/ /\ contract = "race" /\ Race!Next
       /\ UNCHANGED <<contract, creditVars, pledgeVars, betVars, matrixVars, feeVars, stakeVars, proposalVars>>
    \/ /\ contract = "season" /\ Season!Next
       /\ UNCHANGED <<contract, creditVars, pledgeVars, betVars, matrixVars, feeVars, stakeVars, proposalVars>>
    \/ /\ contract = "referral" /\ Referral!Next
       /\ UNCHANGED <<contract, creditVars, pledgeVars, betVars, matrixVars, raceVars, stakeVars, proposalVars>>
    \/ /\ contract = "staking" /\ Staking!Next
       /\ UNCHANGED <<contract, creditVars, pledgeVars, betVars, matrixVars, raceVars, feeVars, proposalVars>>
    \/ /\ contract = "poll" /\ Poll!Next
       /\ UNCHANGED <<contract, creditVars, pledgeVars, betVars, matrixVars, raceVars, feeVars, proposalVars>>
    \/ /\ contract = "proposals" /\ Proposals!Next
       /\ UNCHANGED <<contract, creditVars, pledgeVars, betVars, matrixVars, raceVars, feeVars, stakeVars>>

Spec == Init /\ [][Next]_vars

(* The referral network alone. *)
ReferralSpec == Init /\ contract = "referral" /\ [][Next]_vars

-----------------------------------------------------------------------------
(* Properties *)

(* Whatever is lent, pledged, bet, withheld, collected, seized or refunded *)
(* and in which order, every unit is accounted for: the supply counter     *)
(* covers the open credits, a pledge or a transfer is handed out once, the *)
(* stakes of a game come back as prizes and fees, an open matrix can pay   *)
(* its prizes, the rewards of the race are what the supply has grown by, a *)
(* split fee loses at most one unit for each bonus, stakes and their       *)
(* rewards are counted in the core asset and stay below its limit, and a   *)
(* proposed transaction has all its effects or none. No balance is         *)
(* negative, and the objects keep their types.                             *)
FundsAccounted ==
    /\ contract = "credits" => Credits!TypeOK
    /\ contract = "pledges" => Pledges!TypeOK
    /\ contract = "bets" => Bets!TypeOK
    /\ contract = "matrix" => Matrix!TypeOK
    /\ contract = "credits" => Credits!SupplyAccounted
    /\ contract = "pledges" => Pledges!FundsConserved
    /\ contract = "bets" => Bets!FundsConserved
    /\ contract = "matrix" => Matrix!FundsConserved
    /\ contract = "matrix" => Matrix!MatrixSolvent
    /\ contract \in {"race", "season"} => Race!TypeOK /\ Race!SupplyAccounted
    /\ contract = "referral" => Referral!TypeOK /\ Referral!SupplyCovers
    /\ contract \in {"staking", "poll"} => Staking!TypeOK /\ Staking!SupplyAccounted
    /\ contract = "proposals" => Proposals!TypeOK /\ Proposals!AllOrNothing

(* Nobody gets more or less than the contract says: a creditor exactly the *)
(* agreed amount, a lot's prize one of its buyers, a room only those who   *)
(* earned its level, cells in the order in which the rooms were opened; an *)
(* account is in the team it says, a bet is on teams that race, every      *)
(* member is below the root of the referral network, a vesting balance     *)
(* pays nothing ahead of its policy, and a proposal spends only with the   *)
(* consent of the owner and is found by everyone who has to approve it.    *)
ContractsKept ==
    /\ contract = "credits" => Credits!CreditsWithinBounds
    /\ contract = "credits" => Credits!CreditorsArePaid
    /\ contract = "pledges" => Pledges!CreatorKeepsItsSide
    /\ contract = "bets" => Bets!LotsDrawnFairly
    /\ contract = "matrix" => Matrix!FilledInOrder
    /\ contract = "matrix" => Matrix!OneRoomPerLevel
    /\ contract = "matrix" => Matrix!LevelsEarned
    /\ contract = "matrix" => Matrix!OneMatrixAtATime
    /\ contract \in {"race", "season"} => Race!RostersAgree /\ Race!BetsHaveTeams
    /\ contract = "season" => Season!RanksInOrder
    /\ contract = "referral" => Referral!EndsAtRoot
    /\ contract = "staking" => Staking!PaysWhatVested
    /\ contract = "proposals" => Proposals!PaidWithConsent /\ Proposals!RequiredAreIndexed

(* The jobs at the end of a block settle everything whose time is over,    *)
(* although they change the index they walk, proposals that run or delete  *)
(* other proposals too; none is left for the next; and the maintenance     *)
(* that ends a race pays all its bets.                                     *)
ExpiredAreSettled ==
    [][/\ contract = "pledges" => Pledges!SettlesExpired
       /\ contract = "bets" => Bets!NothingOverdue'
       /\ contract = "race" => Race!SettlesBets
       /\ contract = "proposals" => Proposals!NothingOverdue']_vars

(* The clock takes nothing before the agreed time, and no step changes a   *)
(* contract that is agreed: an open credit, a pledge, a lot that was       *)
(* drawn, the teams of a race, the time of a status, what has vested.      *)
(* Bonuses go to those whose status is active, leaders share one           *)
(* percentage, and the yields of stakes change only by a vote.             *)
TermsFixed ==
    [][/\ contract = "credits" => Credits!KeepsCreditTerms
       /\ contract = "pledges" => Pledges!TakesNothingEarly
       /\ contract = "bets" => Bets!PaysOnlyPlayers
       /\ contract = "bets" => Bets!KeepsDraws
       /\ contract \in {"race", "season"} => Race!KeepsRosters
       /\ contract = "referral" => Referral!RewardsTheActive
       /\ contract = "referral" => Referral!LeadersShareOneBonus
       /\ contract = "referral" => Referral!KeepsPaidTime
       /\ contract = "staking" => Staking!KeepsVested
       /\ contract = "poll" => Poll!YieldsAreVoted]_vars

(* "The number of shares currently in existence" (asset_object.hpp:62) is  *)
(* not exceeded by the shares that exist: the bonuses of leaders, which    *)
(* update_nv puts in the null account, are taken from nobody.              *)
CountsExistingShares == contract = "referral" => Referral!CountsExistingShares
=============================================================================
