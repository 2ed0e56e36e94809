------------------------------ MODULE GreatRace ------------------------------
(***************************************************************************)
(* The great race (chain/greatrace_evaluator.cpp): teams and their players,*)
(* bets on the places of the teams, the vote on the prizes, and the calendar *)
(* that perform_chain_maintenance moves (chain/db_maint.cpp), by the rules *)
(* in force since CWD7.                                                    *)
(*                                                                         *)
(* A season is a sequence of intervals, some of which are races.  Teams    *)
(* change in the intervals between the races, volume counts only in the    *)
(* races, and bets are taken in the first half of a race and settled when  *)
(* it ends.  The volume of a half or of the season is the sum of the races *)
(* in it, as the counters of a team are added to and reset together.       *)
(***************************************************************************)
EXTENDS Integers, Sequences, FiniteSetsExt, TLC

CONSTANTS
    Accounts,
    Captains,       \* accounts with the status that a team asks for
    Balances,       \* initial balances
    MaxSupply,      \* max_supply of the core asset
    Margin,         \* one percent of it
    Races,          \* the intervals that are races: 2, 4, 6, 9, 11 and 13
    HalfTime,       \* the last interval of the first half: 7
    LastInterval,   \* the last interval of the season: 14
    Days,           \* length of every interval
    VoteDuration,
    MaxPlayers,     \* players of a team besides the captain: 11
    TopTeams,       \* the teams that are paid after a race: 3
    TopReward,      \* gr_top3_reward
    EliteTeams,     \* the teams that can be elite: 10
    Prizes,         \* initial volumes and rewards of the ranks
    Ballots,        \* volumes and rewards that are voted for
    MinVoteRank,    \* min_vote_last_rank
    MinTeamVolume,  \* min_team_volume
    MinBet,         \* min_gr_bet
    Amounts,        \* amounts that are bet
    Ranges,         \* places that are bet on: [lower, upper]
    Earners,        \* accounts that get referral rewards
    Volumes,        \* volumes that are added
    FirstApostolos, \* the accounts init_gr_race names
    Gaps,           \* time from one maintenance to the next
    MaxTime,        \* bound: the last maintenance
    MaxTeams,       \* bound: teams ever created
    MaxInvites,     \* bound: invitations of one player to one team
    MaxVolume,      \* bound: volume of an account in a period
    MaxVotes,       \* bound: votes in a season
    MaxBets,        \* bound: bet objects at a time
    None            \* no team

VARIABLES
    balance,
    supply,       \* current_supply
    fees,         \* accumulated_fees
    teams,        \* gr_team objects, by id
    nextTeam,
    gr_team,      \* the team of every account
    rank,         \* last_gr_rank of every account
    period,       \* last_period_gr and current_period_gr of every account
    invites,      \* gr_invite objects: how many, by player and team
    bets,         \* gr_range_bet and gr_team_bet objects
    votes,        \* gr_votes objects
    prizes,       \* volumes and rewards of the ranks in force
    apostolos,    \* accounts with the flag
    authority,    \* the accounts of the active authority of the apostolos account
    race          \* the calendar of dynamic_global_property_object, and head_block_time()

teamVars == <<teams, nextTeam, gr_team, invites>>
seasonVars == <<rank, period, prizes, votes, apostolos, authority>>
vars == <<balance, supply, fees, teamVars, seasonVars, bets, race>>

TeamIds == 1..MaxTeams
Rests   == (1..LastInterval) \ Races
Ranks   == DOMAIN Prizes.volume
LastRank == Len(Prizes.volume)

Increasing(v) == \A k \in 1..(Len(v) - 1) : v[k] < v[k + 1]

CalendarAssumption == \A i \in Races : Days[i] > 0 /\ i > 1 /\ {i - 1, i + 1} \subseteq Rests
BetAssumption      == MinBet > 0
(* validate() of a vote does not ask for this. *)
BallotAssumption   == \A b \in Ballots \cup {Prizes} : Increasing(b.volume)

Init ==
    /\ balance = Balances /\ supply = MapThenSumSet(LAMBDA a : Balances[a], Accounts) /\ fees = 0
    /\ teams = [t \in TeamIds |-> None] /\ nextTeam = 1
    /\ gr_team = [a \in Accounts |-> None]
    /\ rank = [a \in Accounts |-> 0]
    /\ period = [a \in Accounts |-> [last |-> 0, current |-> 0]]
    /\ invites = [a \in Accounts |-> [t \in TeamIds |-> 0]]
    /\ bets = << >> /\ votes = << >> /\ prizes = Prizes
    /\ apostolos = {} /\ authority = {}
    /\ race = [interval |-> 0, next |-> 0, bet |-> 0, voting |-> FALSE, vote_end |-> 0, now |-> 0]

Live == {t \in TeamIds : teams[t] # None}
Captain(a) == {t \in Live : teams[t].captain = a}
Members(t) == teams[t].players \cup {teams[t].captain}

-----------------------------------------------------------------------------
(* Teams *)

TeamCreate(a) ==
    /\ nextTeam \in TeamIds
    /\ race.interval = 1
    /\ a \in Captains
    /\ period[a].last >= MinTeamVolume
    /\ Captain(a) = {} /\ gr_team[a] = None
    /\ teams' = [teams EXCEPT ![nextTeam] =
          [captain |-> a, players |-> {}, volume |-> [i \in Races |-> 0]]]
    /\ gr_team' = [gr_team EXCEPT ![a] = nextTeam]
    /\ nextTeam' = nextTeam + 1
    /\ UNCHANGED <<balance, supply, fees, invites, seasonVars, bets, race>>

TeamDelete(a, t) ==
    /\ race.interval \in Rests
    /\ t \in Captain(a)
    /\ gr_team' = [b \in Accounts |-> IF b \in Members(t) THEN None ELSE gr_team[b]]
    /\ teams' = [teams EXCEPT ![t] = None]
    /\ UNCHANGED <<balance, supply, fees, nextTeam, invites, seasonVars, bets, race>>

HasRoom(t) == Cardinality(teams[t].players) < MaxPlayers

InviteSend(a, t) ==
    /\ invites[a][t] < MaxInvites
    /\ race.interval \in Rests
    /\ t \in Live /\ a # teams[t].captain
    /\ HasRoom(t)
    /\ a \notin teams[t].players /\ gr_team[a] = None
    /\ invites' = [invites EXCEPT ![a][t] = @ + 1]
    /\ UNCHANGED <<balance, supply, fees, teams, nextTeam, gr_team, seasonVars, bets, race>>

(* The interval is not asked for. *)
InviteAccept(a, t) ==
    /\ invites[a][t] > 0
    /\ t \in Live
    /\ a \notin teams[t].players
    /\ HasRoom(t)
    /\ gr_team[a] = None
    /\ teams' = [teams EXCEPT ![t].players = @ \cup {a}]
    /\ gr_team' = [gr_team EXCEPT ![a] = t]
    /\ invites' = [invites EXCEPT ![a][t] = @ - 1]
    /\ UNCHANGED <<balance, supply, fees, nextTeam, seasonVars, bets, race>>

(* gr_player_remove by the captain and gr_team_leave by the player *)
TeamLeave(a, t) ==
    /\ race.interval \in Rests
    /\ t \in Live
    /\ a \in teams[t].players
    /\ gr_team[a] \in {None, t}
    /\ gr_team' = [gr_team EXCEPT ![a] = None]
    /\ teams' = [teams EXCEPT ![t].players = @ \ {a}]
    /\ UNCHANGED <<balance, supply, fees, nextTeam, invites, seasonVars, bets, race>>

(* Referral rewards of account a, from process_fees or from a stake. *)
AddVolume(a, n) ==
    /\ period[a].current + n <= MaxVolume
    /\ race.interval \in Races
    /\ period' = [period EXCEPT ![a].current = @ + n]
    /\ teams' = IF gr_team[a] = None THEN teams
                ELSE [teams EXCEPT ![gr_team[a]].volume[race.interval] = @ + n]
    /\ UNCHANGED <<balance, supply, fees, nextTeam, gr_team, invites, rank, prizes, votes,
                   apostolos, authority, bets, race>>

Vote(a, b) ==
    /\ Len(votes) < MaxVotes
    /\ race.voting
    /\ rank[a] >= MinVoteRank
    /\ votes' = Append(votes, b)
    /\ UNCHANGED <<balance, supply, fees, teamVars, rank, period, prizes, apostolos, authority,
                   bets, race>>

-----------------------------------------------------------------------------
(* Bets *)

Nobody  == [a \in Accounts |-> 0]
On(side) == MapThenSumSet(LAMBDA a : side[a], Accounts)
Prize(b) == On(b.yes) + On(b.no)

BetOf(key) == IF key \in DOMAIN bets THEN bets[key] ELSE [yes |-> Nobody, no |-> Nobody]

(* A bet of a on one side of the object with this key.  The first bet on an *)
(* empty side of an object covers what the other side has bet.              *)
PlaceBet(key, a, n, yes) ==
    LET b == BetOf(key)
        own == IF yes THEN b.yes ELSE b.no
        opposite == IF yes THEN b.no ELSE b.yes
        more == [own EXCEPT ![a] = @ + n]
    IN  /\ Cardinality(DOMAIN bets \cup {key}) <= MaxBets
        /\ race.now <= race.bet
        /\ n >= MinBet
        /\ balance[a] >= n
        /\ On(own) = 0 => n >= On(opposite)
        /\ bets' = (key :> [yes |-> IF yes THEN more ELSE b.yes,
                            no |-> IF yes THEN b.no ELSE more]) @@ bets
        /\ balance' = [balance EXCEPT ![a] = @ - n]
        /\ UNCHANGED <<supply, fees, teamVars, seasonVars, race>>

RangeBet(t, places, a, n, yes) ==
    /\ t \in Live
    /\ places.upper <= Cardinality(Live)
    /\ PlaceBet(<<"range", t, places.lower, places.upper>>, a, n, yes)

(* The two teams may have been named in the other order. *)
DuelKey(t1, t2) ==
    IF <<"duel", t1, t2>> \notin DOMAIN bets /\ <<"duel", t2, t1>> \in DOMAIN bets
      THEN <<"duel", t2, t1>> ELSE <<"duel", t1, t2>>

TeamBet(t1, t2, a, n, winner) ==
    /\ {t1, t2} \subseteq Live /\ t1 # t2
    /\ PlaceBet(DuelKey(t1, t2), a, n, winner = DuelKey(t1, t2)[2])

-----------------------------------------------------------------------------
(* The end of a race *)

Above(u, t, vol) == vol[u] > vol[t] \/ (vol[u] = vol[t] /\ u > t)

(* rating[t]: places by volume, the newer team first; 0 if there is no such team. *)
Place(t, vol) == IF t \in Live THEN 1 + Cardinality({u \in Live : Above(u, t, vol)}) ELSE 0

RaceVolume == [t \in Live |-> teams[t].volume[race.interval]]

(* proceed_gr_top3 *)
TopPaid == {t \in Live : /\ Cardinality(Live) >= TopTeams
                         /\ Place(t, RaceVolume) <= TopTeams
                         /\ RaceVolume[t] > 0}

(* proceed_gr_bets *)
Happened(key) ==
    IF key[1] = "range" THEN Place(key[2], RaceVolume) \in key[3]..key[4]
    ELSE Place(key[2], RaceVolume) < Place(key[3], RaceVolume)

BothSides(b) == On(b.yes) > 0 /\ On(b.no) > 0

BetPayout(key, a) ==
    LET b == bets[key]
        winners == IF Happened(key) THEN b.yes ELSE b.no
    IN  IF BothSides(b) THEN (Prize(b) * winners[a]) \div On(winners)
        ELSE b.yes[a] + b.no[a]

(* What the divisions leave. *)
Undivided(key) == Prize(bets[key]) - MapThenSumSet(LAMBDA a : BetPayout(key, a), Accounts)

RemoveBets ==
    /\ bets' = << >>
    /\ fees' = fees + MapThenSumSet(Undivided, DOMAIN bets)

-----------------------------------------------------------------------------
(* The end of a half *)

(* The volume of the half that ends; there is none when the first season starts. *)
HalfVolume(half) == [t \in Live |-> MapThenSumSet(LAMBDA i : teams[t].volume[i], half \cap Races)]

(* assign_gr_rank: the teams from one volume up to, but not including, the  *)
(* next less one, so that a team with just this volume has no rank.         *)
RankOf(v) ==
    LET won == {k \in Ranks : v >= prizes.volume[k] /\ (k < LastRank => v < prizes.volume[k + 1] - 1)}
    IN  IF won = {} THEN 0 ELSE Max(won)

(* A team of the last rank among the first is elite. *)
Elite(t, vol) == /\ Cardinality(Live) >= EliteTeams
                 /\ Place(t, vol) <= EliteTeams
                 /\ RankOf(vol[t]) = LastRank

(* proceed_gr_rank *)
TeamRank(t, vol) == IF Elite(t, vol) THEN LastRank + 1 ELSE RankOf(vol[t])
RankReward(t, vol) == (IF RankOf(vol[t]) = 0 THEN 0 ELSE prizes.reward[RankOf(vol[t])])
                      + (IF Elite(t, vol) THEN prizes.elite ELSE 0)

ProceedRank(half) ==
    LET vol == HalfVolume(half)
        ranked == {t \in Live : half # {} /\ RankOf(vol[t]) > 0}
    IN  /\ rank' = [a \in Accounts |->
                      LET of == {t \in ranked : a \in Members(t)}
                      IN  IF of = {} THEN 0 ELSE TeamRank(Max(of), vol)]
        /\ balance' = [a \in Accounts |-> balance[a] +
                      MapThenSumSet(LAMBDA t : RankReward(t, vol), ranked \cap Captain(a))]
        /\ supply' = supply + MapThenSumSet(LAMBDA t : RankReward(t, vol), ranked)

(* perform_gr_maintenance *)
ShiftPeriods == period' = [a \in Accounts |-> [last |-> period[a].current, current |-> 0]]

-----------------------------------------------------------------------------
(* The calendar: one step for every case of perform_chain_maintenance at time t *)

Hardcup == supply + Margin > MaxSupply

Due(t) == race.next <= t /\ ~ Hardcup

(* The interval that follows; bets are taken for the first half of a race. *)
ToInterval(i, t, bet) ==
    race' = [race EXCEPT !.interval = i, !.next = @ + Days[i], !.now = t,
                         !.bet = IF bet THEN race.next + Days[i] \div 2 ELSE @,
                         !.voting = @ /\ race.vote_end > t]

(* count_gr_votes, when the time for the vote is over: the averages *)
Average(f(_)) == MapThenSumSet(LAMBDA k : f(votes[k]), DOMAIN votes) \div Len(votes)
CountVotes(t) ==
    IF race.voting /\ race.vote_end <= t /\ votes # << >>
      THEN /\ prizes' = [volume |-> [k \in Ranks |-> Average(LAMBDA b : b.volume[k])],
                         reward |-> [k \in Ranks |-> Average(LAMBDA b : b.reward[k])],
                         elite  |-> Average(LAMBDA b : b.elite)]
           /\ votes' = << >>
      ELSE UNCHANGED <<prizes, votes>>

(* No interval begins: it is not time, or the supply is near its maximum. *)
SameInterval(t) ==
    /\ ~ Due(t)
    /\ race' = [race EXCEPT !.now = t, !.voting = @ /\ race.vote_end > t]
    /\ CountVotes(t)
    /\ UNCHANGED <<balance, supply, fees, teamVars, rank, period, apostolos, authority, bets>>

EnterRace(t) ==
    /\ Due(t)
    /\ race.interval + 1 \in Races
    /\ ToInterval(race.interval + 1, t, TRUE)
    /\ invites' = [a \in Accounts |-> [u \in TeamIds |-> 0]]
    /\ CountVotes(t)
    /\ UNCHANGED <<balance, supply, fees, teams, nextTeam, gr_team, rank, period, apostolos,
                   authority, bets>>

LeaveRace(t) ==
    /\ Due(t)
    /\ race.interval \in Races
    /\ ToInterval(race.interval + 1, t, FALSE)
    /\ balance' = [a \in Accounts |-> balance[a]
          + TopReward * Cardinality(TopPaid \cap Captain(a))
          + MapThenSumSet(LAMBDA key : BetPayout(key, a), DOMAIN bets)]
    /\ supply' = supply + TopReward * Cardinality(TopPaid)
    /\ RemoveBets
    /\ CountVotes(t)
    /\ UNCHANGED <<teamVars, rank, period, apostolos, authority>>

EnterSecondHalf(t) ==
    /\ Due(t)
    /\ race.interval = HalfTime
    /\ ToInterval(HalfTime + 1, t, FALSE)
    /\ ProceedRank(1..HalfTime)
    /\ ShiftPeriods
    /\ CountVotes(t)
    /\ UNCHANGED <<fees, teamVars, apostolos, authority, bets>>

(* proceed_apostolos: the team with the largest volume of the season *)
ProceedApostolos ==
    LET vol  == HalfVolume(Races)
        best == {t \in Live : Place(t, vol) = 1}
        them == UNION {Members(t) : t \in best}
    IN  /\ apostolos' = them
        /\ authority' = IF best # {} THEN them
                        ELSE IF race.interval = 0 THEN FirstApostolos ELSE authority

StartSeason(t) ==
    /\ Due(t)
    /\ race.interval \in {0, LastInterval}
    /\ race' = [race EXCEPT !.interval = 1, !.next = @ + Days[1], !.now = t,
                            !.voting = TRUE, !.vote_end = t + VoteDuration]
    /\ ProceedRank(IF race.interval = 0 THEN {} ELSE (HalfTime + 1)..LastInterval)
    /\ ProceedApostolos
    /\ teams' = [u \in TeamIds |-> IF u \in Live THEN [teams[u] EXCEPT !.volume = [i \in Races |-> 0]]
                                   ELSE None]
    /\ ShiftPeriods
    /\ UNCHANGED <<fees, nextTeam, gr_team, invites, prizes, votes, bets>>

Maintenance(t) ==
    /\ t <= MaxTime
    /\ \/ SameInterval(t)
       \/ EnterRace(t)
       \/ LeaveRace(t)
       \/ EnterSecondHalf(t)
       \/ StartSeason(t)

-----------------------------------------------------------------------------
Next ==
    \/ \E a \in Accounts : TeamCreate(a)
    \/ \E a \in Accounts, t \in TeamIds : TeamDelete(a, t)
    \/ \E a \in Accounts, t \in TeamIds : InviteSend(a, t)
    \/ \E a \in Accounts, t \in TeamIds : InviteAccept(a, t)
    \/ \E a \in Accounts, t \in TeamIds : TeamLeave(a, t)
    \/ \E a \in Earners, n \in Volumes : AddVolume(a, n)
    \/ \E a \in Accounts, b \in Ballots : Vote(a, b)
    \/ \E t \in TeamIds, r \in Ranges, a \in Accounts, n \in Amounts, yes \in BOOLEAN :
          RangeBet(t, r, a, n, yes)
    \/ \E t1, t2 \in TeamIds, a \in Accounts, n \in Amounts : \E w \in {t1, t2} :
          TeamBet(t1, t2, a, n, w)
    \/ \E g \in Gaps : Maintenance(race.now + g)

Spec == Init /\ [][Next]_vars

-----------------------------------------------------------------------------
(* Properties *)

(* Objects and counters are what greatrace_object.hpp declares, and no     *)
(* balance is negative.                                                    *)
TypeOK ==
    /\ balance \in [Accounts -> Nat] /\ supply \in Nat /\ fees \in Nat
    /\ \A t \in Live : teams[t].captain \in Captains /\ teams[t].players \subseteq Accounts
    /\ gr_team \in [Accounts -> TeamIds \cup {None}]
    /\ rank \in [Accounts -> 0..(LastRank + 1)]
    /\ race.interval \in 0..LastInterval
    /\ apostolos \subseteq Accounts

(* Rewards are created with the supply, and bets only move: the balances,  *)
(* the bets and what the divisions left in the fees are the supply.        *)
SupplyAccounted ==
    supply = On(balance) + fees + MapThenSumSet(LAMBDA key : Prize(bets[key]), DOMAIN bets)

(* An account is in the team it says, and only there, however teams are    *)
(* created and deleted, and invitations accepted late; a team has at most  *)
(* the players it may have.                                                *)
RostersAgree ==
    /\ \A a \in Accounts : {t \in Live : a \in Members(t)} = {gr_team[a]} \ {None}
    /\ \A t \in Live : Cardinality(teams[t].players) <= MaxPlayers

(* Bets exist only in a race, and their teams take part in it, since teams *)
(* are deleted only between races: a missing team would be in place 0.     *)
(* There is one object for two teams, in whichever order they were named.  *)
BetsHaveTeams ==
    /\ DOMAIN bets # {} => race.interval \in Races
    /\ \A key \in DOMAIN bets :
          IF key[1] = "range" THEN key[2] \in Live
          ELSE key[2] \in Live /\ key[3] \in Live /\ <<"duel", key[3], key[2]>> \notin DOMAIN bets

(* Nobody joins or leaves a team in a race, although gr_invite_accept does *)
(* not ask for the interval: the invitations are removed when it begins.   *)
KeepsRosters ==
    race.interval \in Races /\ race'.interval = race.interval =>
       \A t \in TeamIds : /\ t \in Live <=> teams'[t] # None
                          /\ t \in Live => teams'[t].players = teams[t].players

Bettors(side) == {a \in Accounts : side[a] > 0}

(* The step that leaves a race pays every bet: one side shares the whole   *)
(* prize, of which the divisions take less than a unit for every winner;   *)
(* who bet on a side that nobody bet against has the stake back; and       *)
(* nobody has less than before.                                            *)
SettlesBets ==
    race.interval \in Races /\ race'.interval # race.interval =>
       /\ DOMAIN bets' = {}
       /\ \A key \in DOMAIN bets :
             LET b == bets[key] IN
             \E side \in {b.yes, b.no} : \A a \in Accounts : balance'[a] - balance[a] >= side[a]
       /\ fees' - fees <= MapThenSumSet(
             LAMBDA key : IF BothSides(bets[key])
                            THEN Max({Cardinality(Bettors(bets[key].yes)),
                                      Cardinality(Bettors(bets[key].no))}) - 1
                            ELSE 0, DOMAIN bets)
       /\ \A a \in Accounts : balance'[a] >= balance[a]

(* The volumes of the ranks stay in order under any vote, so that the walk *)
(* of assign_gr_rank from one to the next ends: the averages are rounded   *)
(* down one by one (count_gr_votes), which keeps a distance of one.        *)
RanksInOrder == Increasing(prizes.volume)
=============================================================================
