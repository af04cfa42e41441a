------------------------------- MODULE Holdings -------------------------------
(***************************************************************************)
(* What a run does with the positions it holds before it buys: which it     *)
(* sells whole because they reached the take-profit level (seller.plan_sales, *)
(* _plan_one, _find_partner), which it trims (plan_trims, _trim_one) and    *)
(* which it may add to (plan_add_ons, _add_on_one).  All three read the past *)
(* - the account's settlements, its fills, hourly candles - from lists that *)
(* may be cut, unreadable or about other stakes.                            *)
(*                                                                           *)
(* A stake is YES on one market and NO on another that closes later, of one *)
(* question; the account holds one stake on a question at a time (ProdRun). *)
(* A day is one run.  Prices are quarters of a payout; fees, sizes and order *)
(* books are left to PairSale and KellyTrim.                                *)
(***************************************************************************)
EXTENDS Integers, Sequences, FiniteSets, FiniteSetsExt

CONSTANTS
    Markets,
    Question,  \* market -> its question
    Side,      \* market -> the side a stake holds of it
    Closes,    \* market -> the day it stops trading
    Results,   \* market -> what it may settle as
    Before,    \* market -> what a behaviour may begin with having settled of it
    LastDay,
    Counts,    \* how many contracts a trade may be for
    MaxTrades, \* stakes opened, trimmed and added to in a behaviour
    Bids,      \* market -> what a leg may be worth before it pays, None unread
    SellFrom,  \* what a pair must be worth to be sold
    HoldDays,  \* the daily checks it must have been so at
    SellLeft, TradeLeft, \* days that must be left to sell, and to trade otherwise
    MinDays,   \* days a position rests between two trades
    MaxAge,    \* days a settlement can be a partner's
    None

VARIABLES
    day,
    acct,  \* what was bought and sold of each market, and when it last traded
    ruled, \* market -> its settlement, or None
    done   \* history: what the last step did, with the facts it should have gone by

vars == <<day, acct, ruled, done>>

\* A settlement is a record, and what is absent is nothing else.
HoldingsAssumption ==
    /\ IsFiniteSet(Markets)
    /\ LastDay \in Nat /\ MinDays \in Nat /\ MaxAge \in Nat /\ Counts \subseteq Nat \ {0}
    /\ \A m \in Markets : Before[m] \subseteq Nat
    /\ \A at \in 0 .. LastDay + 1 :
        /\ [result |-> "no", at |-> at] # None
        /\ \A m \in Markets : \A r \in Results[m] : [result |-> r, at |-> at] # None

Payout == 4
Idle == [kind |-> "idle"]

Init ==
    /\ day = 0 /\ done = Idle
    /\ \E past \in [Markets -> UNION {Before[m] : m \in Markets}] :
        /\ \A m \in Markets : past[m] \in Before[m]
        /\ ruled = [m \in Markets |-> IF past[m] = 0 THEN None ELSE [result |-> "no", at |-> 0]]
        /\ acct = [bought |-> past, sold |-> [m \in Markets |-> 0],
                   last |-> [m \in Markets |-> None], days |-> {},
                   mate |-> [m \in Markets |-> None], asPaid |-> [m \in Markets |-> TRUE],
                   trades |-> 0]

-------------------------------------------------------------------------------
(* The account.                                                             *)

\* A settlement lists what was bought on either side, a sale as bought on the
\* other; what was held at payout is the difference.
SettledCount(m) == acct.bought[m] - acct.sold[m]
Held == {m \in Markets : ruled[m] = None /\ SettledCount(m) > 0}
HeldOn(q) == {m \in Held : Question[m] = q}
PaidOut == {m \in Markets : ruled[m] # None /\ SettledCount(m) > 0}

\* A pair of equal counts, or a market alone.
HeldPairs == {ms \in {HeldOn(Question[m]) : m \in Held} :
                /\ Cardinality(ms) \in {1, 2}
                /\ Cardinality({SettledCount(m) : m \in ms}) = 1
                /\ Cardinality({Side[m] : m \in ms}) = Cardinality(ms)}
Lone(ms) == Cardinality(ms) = 1
TheOf(ms) == CHOOSE m \in ms : TRUE
CountOf(ms) == SettledCount(TheOf(ms))
LastClose(ms) == Max({Closes[m] : m \in ms})

More(books, ms, n) == [m \in Markets |-> IF m \in ms THEN books[m] + n ELSE books[m]]

\* The markets of ms are traded today: together, or one alone.
Traded(a, ms) ==
    [a EXCEPT !.last = [m \in Markets |-> IF m \in ms THEN day ELSE @[m]],
              !.days = @ \cup {day},
              !.asPaid = [m \in Markets |-> IF ms = {m} THEN FALSE ELSE @[m]]]

Open(early, late, n) ==
    /\ acct.trades < MaxTrades
    /\ Question[early] = Question[late] /\ Closes[early] < Closes[late]
    /\ Side[early] = "yes" /\ Side[late] = "no"
    /\ ruled[early] = None /\ ruled[late] = None /\ day <= Closes[early]
    /\ HeldOn(Question[early]) = {}
    /\ acct' = [Traded(acct, {early, late}) EXCEPT
                    !.bought = More(@, {early, late}, n),
                    !.mate = [@ EXCEPT ![early] = late, ![late] = early],
                    !.asPaid = [@ EXCEPT ![late] = TRUE], !.trades = @ + 1]
    /\ done' = Idle
    /\ UNCHANGED <<day, ruled>>

\* Kalshi settles a market and stamps the settlement with a time of its own,
\* which a run may not have reached yet.  A stake was bought after the ones
\* before it had been seen settled, so it is not stamped before them.
Settle(m, result, at) ==
    /\ ruled[m] = None /\ acct.bought[m] > 0
    /\ m \in Held =>
        \A n \in PaidOut \ {acct.mate[m]} : Question[n] = Question[m] => ruled[n].at <= at
    /\ \A n \in Markets \ {m} :
        (Question[n] = Question[m] /\ ruled[n] # None) =>
            /\ (Closes[n] < Closes[m] /\ ruled[n].result = "yes") => result = "yes"
            /\ (Closes[n] > Closes[m] /\ ruled[n].result = "no") => result = "no"
    /\ ruled' = [ruled EXCEPT ![m] = [result |-> result, at |-> at]]
    /\ done' = Idle
    /\ UNCHANGED <<day, acct>>

NextDay ==
    /\ day < LastDay
    /\ day' = day + 1 /\ done' = Idle
    /\ UNCHANGED <<acct, ruled>>

-------------------------------------------------------------------------------
(* A lone market's paid-out partner.                                        *)

Settlements == {s \in Markets : ruled[s] # None /\ acct.bought[s] > 0 /\ ruled[s].at >= day - MaxAge}
SameCount(m) == {s \in Settlements : Side[s] # Side[m] /\ SettledCount(s) = SettledCount(m)}
AtLeast(m) == {s \in Settlements : Side[s] # Side[m] /\ SettledCount(s) >= SettledCount(m)}
Asks(m, ss) == {s \in ss : Question[s] = Question[m]}

\* The one candidate on the market's question, when the labels of every
\* candidate can be read (`blind`: those that cannot).
Only(m, candidates, blind) ==
    IF candidates \cap blind = {} /\ Cardinality(Asks(m, candidates)) = 1
    THEN Asks(m, candidates) ELSE {}

\* Whatever it settled with, the first of them will do.
FirstPartner(m, blind) ==
    LET ss == Asks(m, AtLeast(m) \ blind) IN IF ss = {} THEN {} ELSE {CHOOSE s \in ss : TRUE}

PartnersOf(m, blind) ==
    IF SameCount(m) \cap blind = {} /\ Asks(m, SameCount(m)) = {}
    THEN Only(m, AtLeast(m), blind)
    ELSE Only(m, SameCount(m), blind)

\* Empty for a pair; and for a lone market, its partner, settled yes or no.
PaidPartner(ms, blind) ==
    IF ~Lone(ms) THEN {{}}
    ELSE {{s} : s \in {t \in PartnersOf(TheOf(ms), blind) :
                            ruled[t].result \in {"yes", "no"} /\ ruled[t].at <= day}}

-------------------------------------------------------------------------------
(* Taking a profit.                                                         *)

Pays(s) == IF ruled[s].result = Side[s] THEN Payout ELSE 0
\* A leg is worth its payout from the moment it is paid, its bid before.
LegWorth(m, seen, back) ==
    IF ruled[m] # None /\ ruled[m].at <= day - back THEN Pays(m) ELSE seen[m][back]
Worth(legs, seen, back) == MapThenSumSet(LAMBDA m : LegWorth(m, seen, back), legs)

Checks == 0 .. HoldDays - 1
Readable(legs, seen) ==
    \A m \in legs, back \in Checks :
        (ruled[m] # None /\ ruled[m].at <= day - back) \/ seen[m][back] # None
ReachedEveryCheck(legs, seen) == \A back \in Checks : Worth(legs, seen, back) >= SellFrom

\* What candles and books show of a leg on each of the days.
Shown(legs) == {seen \in [legs -> [Checks -> UNION {Bids[m] : m \in legs}]] :
                    \A m \in legs, back \in Checks : seen[m][back] \in Bids[m]}

Sell(ms, blind) ==
    /\ LastClose(ms) - day >= SellLeft
    /\ \E p \in PaidPartner(ms, blind) : \E seen \in Shown(ms \cup p \cup {acct.mate[m] : m \in ms}) :
        /\ Readable(ms \cup p, seen)
        /\ ReachedEveryCheck(ms \cup p, seen)
        /\ acct' = [Traded(acct, ms) EXCEPT !.sold = More(@, ms, CountOf(ms))]
        /\ done' = [kind |-> "sale", partner |-> p, mates |-> {acct.mate[m] : m \in ms} \ ms,
                    asPaid |-> \A m \in ms : acct.asPaid[m],
                    due |-> LET legs == ms \cup {acct.mate[m] : m \in ms}
                            IN Readable(legs, seen) /\ ReachedEveryCheck(legs, seen)]
    /\ UNCHANGED <<day, ruled>>

-------------------------------------------------------------------------------
(* Resting between trades.                                                  *)

\* The fills of the days in `listed`; older ones are in Kalshi's archive.
ListFrom(first) == {d \in acct.days : d >= first}
LatestFills(ms, listed) == {acct.last[m] : m \in ms} \cap listed

\* For a lone market, also the markets listed on its ladder.
Ladder(ms) ==
    IF Lone(ms) THEN ms \cup {m \in Markets : ruled[m] = None /\ Question[m] = Question[TheOf(ms)]}
    ELSE ms
LastFill(ms, listed) == LatestFills(Ladder(ms), listed)

RestedADayLess(last) == day - last >= MinDays - 1
RebalanceRested(last) == day - last >= MinDays

\* A list that starts too late rules nothing out, for any position.
ListReaches(listed) == MinDays > 0 => listed # {} /\ RebalanceRested(Min(listed))

\* With no fill of its own listed, a position rests from where the list starts.
Waited(ms, listed) ==
    MinDays > 0 => RebalanceRested(Max(LastFill(ms, listed) \cup {Min(listed)}))

FarFromMaturity(ms) == LastClose(ms) - day >= TradeLeft
Trimmable(listed) == {ms \in HeldPairs : FarFromMaturity(ms) /\ ListReaches(listed)}
Addable(listed) == {ms \in HeldPairs : FarFromMaturity(ms) /\ ListReaches(listed)}

Trade(kind, ms, p) ==
    done' = [kind |-> kind, partner |-> p, mates |-> {acct.mate[m] : m \in ms} \ ms,
             asPaid |-> \A m \in ms : acct.asPaid[m],
             due |-> \A m \in ms : day - acct.last[m] >= MinDays]

\* A lone market is trimmed as the later one, its partner having paid nothing.
Trim(ms, n, blind, first) ==
    /\ n <= CountOf(ms) /\ acct.trades < MaxTrades
    /\ ms \in Trimmable(ListFrom(first)) /\ Waited(ms, ListFrom(first))
    /\ \E p \in PaidPartner(ms, blind) :
        /\ \A s \in p : Pays(s) = 0 /\ Closes[s] < LastClose(ms)
        /\ acct' = [Traded(acct, ms) EXCEPT !.sold = More(@, ms, n), !.trades = @ + 1]
        /\ Trade("trim", ms, p)
    /\ UNCHANGED <<day, ruled>>

AddOn(ms, n, first) ==
    /\ acct.trades < MaxTrades
    /\ ms \in Addable(ListFrom(first)) /\ Waited(ms, ListFrom(first))
    /\ acct' = [Traded(acct, ms) EXCEPT !.bought = More(@, ms, n), !.trades = @ + 1]
    /\ Trade("addon", ms, {})
    /\ UNCHANGED <<day, ruled>>

Finished == day = LastDay /\ UNCHANGED vars

Next ==
    \/ NextDay
    \/ Finished
    \/ \E e, l \in Markets, n \in Counts : Open(e, l, n)
    \/ \E m \in Markets, at \in {day, day + 1} : \E r \in Results[m] : Settle(m, r, at)
    \/ \E ms \in HeldPairs, blind \in SUBSET Settlements : Sell(ms, blind)
    \/ \E ms \in HeldPairs, n \in Counts, blind \in SUBSET Settlements, f \in 0 .. day :
            Trim(ms, n, blind, f)
    \/ \E ms \in HeldPairs, n \in Counts, f \in 0 .. day : AddOn(ms, n, f)

Spec == Init /\ [][Next]_vars

-------------------------------------------------------------------------------
(* The partner a lone market is judged with is the market it was bought     *)
(* with, however many stakes on the question settled lately, as long as it  *)
(* holds what was held when that partner paid out.                          *)
PartnerIsTrue ==
    (done.kind \in {"sale", "trim"} /\ done.asPaid /\ done.partner # {}) =>
        done.partner = done.mates

(* What is sold was worth the level at each of the daily checks with the     *)
(* partner it was bought with; what is trimmed or added to has not traded    *)
(* for MinDays, also when its fills are no longer listed.                   *)
TradesAreDue == (done.kind # "idle" /\ done.asPaid) => done.due
===============================================================================
