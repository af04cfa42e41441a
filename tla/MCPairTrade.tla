---------------------------- MODULE MCPairTrade ----------------------------
(* Small instances of PairTrade: what is planned, held and met.                *)
EXTENDS PairTrade

New == [adds |-> FALSE, no |-> 0, yes |-> 0]
Add == [adds |-> TRUE, no |-> -1, yes |-> 1]

Flat  == [l \in Legs |-> 0]
Older == [l \in Legs |-> IF l = "no" THEN -1 ELSE 1]
Half  == [l \in Legs |-> IF l = "no" THEN 0 ELSE 1]

World(plans, helds, move, late) ==
    [plan |-> plans, held |-> helds, noMove |-> move, lag |-> late]

\* A new pair or an add-on, on an older pair or on its YES contract alone, before
\* an add-on.
MCPlanned ==
    {World(<<p, Add>>, <<h, Older>>, -Count, 0) : p \in {New, Add}, h \in {Older, Half}}

\* A ledger two pauses late; an exchange on which a NO buy opens YES, or nothing,
\* also with a ledger one pause late.
MCOdd == {World(<<New, Add>>, <<Half, Older>>, -Count, 2)}
            \cup {World(<<New, New>>, <<Flat, Flat>>, m, 0) : m \in {Count, 0}}
            \cup {World(<<New, New>>, <<Flat, Flat>>, Count, 1)}

MCWorlds == MCPlanned \cup MCOdd

\* New pairs, whatever a NO buy does.
MCNewOnly == {World(<<New, New>>, <<Flat, Flat>>, m, 0) : m \in {-Count, Count, 0}}
=============================================================================
