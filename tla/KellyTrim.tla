------------------------------ MODULE KellyTrim ------------------------------
(***************************************************************************)
(* How many contract pairs of a held pair a trim sells                      *)
(* (config.kelly_trim_count, kelly_hold_fraction, kelly_trim_bids), and from *)
(* which size cap on that number no longer depends on the cap               *)
(* (cap_free_from, which lets a sweep over caps skip runs: CapSweep).       *)
(*                                                                           *)
(* Money is in cents of a payout of Payout; a share is a fraction, compared *)
(* by cross-multiplication, so rounding slack is left out.  What selling n  *)
(* pairs returns (`takings`, None beyond the bids) need not be concave: fees *)
(* round up to the cent.                                                    *)
(***************************************************************************)
EXTENDS Integers, FiniteSets, FiniteSetsExt, TLC

CONSTANTS
    Payout, Count,
    Values,  \* what the run sizes on
    Chances, \* what a pair is expected to pay
    Caps,    \* size caps, in hundredths
    Tops,    \* what one pair returns at the best bids
    Drops,   \* what a further pair may return less than the one before
    Scan,    \* how many counts above the found one are tried
    None

VARIABLES input, answer

Leq(x, y) == x.n * y.d <= y.n * x.d
Least(x, y) == IF Leq(x, y) THEN x ELSE y
Hundredth(c) == [n |-> c, d |-> 100]

-------------------------------------------------------------------------------
(* A price is what `price.n` cents for `price.d` pairs come to.             *)

\* The share of the value Kelly lets a pair keep at a price.
HoldFraction(chance, price) ==
    IF chance * price.d <= price.n \/ price.n >= Payout * price.d THEN Hundredth(0)
    ELSE [n |-> chance * price.d - price.n, d |-> Payout * price.d - price.n]

\* What the pair's contracts come to, as a share of the value.
HeldShare(i, price) == [n |-> Count * price.n, d |-> price.d * i.value]

\* Pairs that may stay at a price.
Keep(i, cap, price) ==
    LET share == Least(Hundredth(cap), HoldFraction(i.chance, price))
    IN (share.n * i.value * price.d) \div (share.d * price.n)
Wanted(i, cap, price) == Max({0, Count - Keep(i, cap, price)})

TopPrice(i) == [n |-> i.takings[1], d |-> 1]
PriceOf(i, n) == [n |-> i.takings[n], d |-> n]
Sellable(i, n) == i.takings[n] # None /\ i.takings[n] > 0
StillWanted(i, cap, n) == Sellable(i, n) /\ Wanted(i, cap, PriceOf(i, n)) >= n

-------------------------------------------------------------------------------
(* Halving between a count that is still wanted and one that is not.        *)

\* The counts asked about, and where the halving ends.
Halving(i, cap, most) ==
    LET From[low \in 0 .. most, high \in 0 .. most] ==
            LET middle == (low + high) \div 2
            IN IF high - low <= 1 THEN [low |-> low, asked |-> {}]
               ELSE LET rest == IF StillWanted(i, cap, middle)
                                THEN From[middle, high] ELSE From[low, middle]
                    IN [rest EXCEPT !.asked = @ \cup {middle}]
    IN From[0, most]

\* What is wanted at the best bids is sold, whatever it then returns.
AnswerAtTheTop(i, cap) ==
    LET most == Wanted(i, cap, TopPrice(i))
    IN IF most = 0 THEN [sell |-> 0, asked |-> {}]
       ELSE [sell |-> most, asked |-> {most}]

\* At most `Scan` counts above where the halving ended, largest first.
Answer(i, cap) ==
    LET most   == Wanted(i, cap, TopPrice(i))
        halved == Halving(i, cap, most)
        above  == halved.low + 1 .. Min({most - 1, halved.low + Scan})
        sell   == Max({halved.low} \cup {n \in above : StillWanted(i, cap, n)})
        tried  == {n \in above : n >= sell}
    IN IF most = 0 THEN [sell |-> 0, asked |-> {}]
       ELSE IF StillWanted(i, cap, most) THEN [sell |-> most, asked |-> {most}]
       ELSE [sell |-> sell, asked |-> halved.asked \cup {most} \cup tried]

\* The largest share any price asked about kept or held, whichever is less.
Levels(i, a) ==
    {Least(HoldFraction(i.chance, p), HeldShare(i, p)) :
        p \in {TopPrice(i)} \cup {PriceOf(i, n) : n \in {m \in a.asked : Sellable(i, m)}}}
CapFreeFrom(i, a) == CHOOSE x \in Levels(i, a) : \A y \in Levels(i, a) : Leq(y, x)

KellyTrimCount(i, cap) ==
    LET a == Answer(i, cap) IN [sell |-> a.sell, free |-> CapFreeFrom(i, a)]

-------------------------------------------------------------------------------
\* Every further pair returns no more than the one before, up to a cent of fees.
Takings(top, drops, deep) ==
    LET sum[n \in 0 .. Count] == IF n = 0 THEN 0 ELSE sum[n - 1] + top - drops[n]
    IN [n \in 1 .. Count |-> IF n <= deep THEN sum[n] ELSE None]

Books == {Takings(t, d, n) : t \in Tops, n \in 1 .. Count,
            d \in {f \in [1 .. Count -> Drops] : f[1] = 0}}

Init ==
    /\ input \in [value : Values, chance : Chances, takings : Books]
    /\ answer = None

Decide(cap) ==
    /\ answer = None
    /\ answer' = [cap |-> cap] @@ KellyTrimCount(input, cap)
    /\ UNCHANGED input

Finished == answer # None /\ UNCHANGED <<input, answer>>

-------------------------------------------------------------------------------
(* What is sold is still wanted at what selling it returns; where a larger  *)
(* sale never becomes wanted again it is the largest such count; and any    *)
(* cap from cap_free_from on sells the same.                                *)
Prefix(ns) == \A n \in ns, m \in 1 .. Count : m < n => m \in ns
TrimIsRight ==
    answer # None =>
        LET wanted == {n \in 1 .. Wanted(input, answer.cap, TopPrice(input)) :
                            StillWanted(input, answer.cap, n)}
        IN /\ answer.sell # 0 => answer.sell \in wanted
           /\ Prefix(wanted) => answer.sell = Cardinality(wanted)
           /\ \A c \in Caps :
                (Leq(answer.free, Hundredth(answer.cap)) /\ Leq(answer.free, Hundredth(c))) =>
                    KellyTrimCount(input, c) = [sell |-> answer.sell, free |-> answer.free]
===============================================================================
