---------------------------- MODULE FilterMenus ----------------------------
(***************************************************************************)
(* The two menus of the backtest page that leave categories and tags out,   *)
(* and the filter a save makes live of them.  The page compares names with  *)
(* the groups of letter-case twins it was given; the live run folds letter  *)
(* case itself, and files a market by Kalshi's listing, which knows tags    *)
(* the backtest never saw.                                                  *)
(*                                                                         *)
(* A name is <<word, spelling>>: two names with one word differ in letter   *)
(* case alone.                                                              *)
(***************************************************************************)
EXTENDS Integers, FiniteSets

CONSTANTS
    None,       \* "not set"
    Bars,       \* the bars: [categories, rows, traded, badCategories, badTags]; a row is <<category, tag>>
    Filters,    \* the saved filters: [categories, plain, tied], names left out
    MaxNames,   \* DEFAULTS_SERVER_MAX_NAMES: categories, and tags, one save may name
    NewCategory, NewTag,    \* names no backtest saw
    Guess       \* the <<category, tag>> an unlisted series is filed under

Fold(name) == name[1]
FoldRow(row) == <<Fold(row[1]), Fold(row[2])>>

\* A built page's categories all come from its pairs, and the names it never
\* saw are new in any spelling.
MenusAssumption ==
    \A b \in Bars :
        /\ b.rows \subseteq b.categories \X {r[2] : r \in b.rows}
        /\ b.categories \subseteq {r[1] : r \in b.rows}
        /\ \A c \in b.categories : Fold(c) # Fold(NewCategory)
        /\ \A r \in b.rows : r[2] # None /\ Fold(r[2]) # Fold(NewTag)

VARIABLES
    bar,        \* what the page lists, which rows have a trade in the scenario
                \* shown, and which names the defaults server refuses
    live,       \* the filter the live defaults hold
    excluded,   \* the categories ticked
    tags,       \* the rows ticked
    told        \* the ticks were made as the page's note names them

vars == <<bar, live, excluded, tags, told>>

-----------------------------------------------------------------------------
Everything == [categories |-> {}, plain |-> {}, tied |-> {}]

\* The live rule.
Keeps(f, category, tag) ==
    /\ Fold(category) \notin {Fold(c) : c \in f.categories}
    /\ Fold(tag) \notin {Fold(t) : t \in f.plain}
    /\ <<Fold(category), Fold(tag)>> \notin {FoldRow(r) : r \in f.tied}

TradesByGuess(f, row, listed) ==
    LET filed == IF listed THEN row ELSE Guess IN Keeps(f, filed[1], filed[2])

\* Whether a live run trades a pair filed under `row`: with a filter set, one
\* whose series the listing lacks is left out, since its labels are a guess.
Trades(f, row, listed) ==
    IF f = Everything THEN TRUE
    ELSE listed /\ TradesByGuess(f, row, listed)

-----------------------------------------------------------------------------
(* The boxes.                                                               *)

CatTwins(c) == {d \in bar.categories : Fold(d) = Fold(c)}
TagTwins(r) == {s \in bar.rows : FoldRow(s) = FoldRow(r)}
WithCatTwins(cats) == UNION {CatTwins(c) : c \in cats}
WithTagTwins(rows) == UNION {TagTwins(r) : r \in rows}

RowsOf(c) == {r \in bar.rows : r[1] = c}
ShownTags(cats) == {r \in bar.rows : r[1] \notin cats}

\* setTicks.
SetTicks(cats, rows) ==
    /\ excluded' = WithCatTwins(cats)
    /\ tags' = WithTagTwins(rows)
    /\ UNCHANGED <<bar, live, told>>

\* A category left out loses its ticked tags.
SetCategories(cats) == SetTicks(cats, {r \in tags : r[1] \notin cats})

AllCategories ==
    SetCategories(IF excluded = bar.categories THEN {} ELSE bar.categories)

Category(c) ==
    SetCategories(IF c \in excluded THEN excluded \ CatTwins(c)
                  ELSE WithCatTwins(excluded \cup {c}))

AllTags ==
    LET seen == ShownTags(excluded)
    IN  SetTicks(excluded, IF seen # {} /\ seen \subseteq tags THEN {} ELSE seen)

Tag(r) ==
    /\ r \in ShownTags(excluded)
    /\ SetTicks(excluded, IF r \in tags THEN tags \ TagTwins(r) ELSE tags \cup {r})

-----------------------------------------------------------------------------
(* The note under the page's title: what to tick to see the live filter.    *)

RowsNamed(c) == IF RowsOf(c) = {} THEN {<<c, None>>} ELSE RowsOf(c)
Kept(f, r) == IF r[2] = None THEN Keeps(f, r[1], NewTag) ELSE Keeps(f, r[1], r[2])

NotedOutAlone(f) == {c \in bar.categories : \A r \in RowsNamed(c) : ~Kept(f, r)}

\* Categories of one word are decided together, over all their tags.
NotedOut(f) ==
    {c \in bar.categories :
        \A d \in CatTwins(c) : \A r \in RowsNamed(d) : ~Kept(f, r)}
NotedTags(f) == {r \in ShownTags(NotedOut(f)) : ~Kept(f, r)}

FollowTheNote ==
    /\ excluded = {} /\ tags = {} /\ ~told
    /\ excluded' = WithCatTwins(NotedOut(live))
    /\ tags' = WithTagTwins(NotedTags(live))
    /\ told' = TRUE
    /\ UNCHANGED <<bar, live>>

-----------------------------------------------------------------------------
(* The save.                                                                *)

\* The rows shown kept; the page's own word for them is atoms.
Atoms == {r \in bar.rows : r[1] \notin excluded /\ r \notin tags}

\* A category ticked, or every tag of it ticked.
WholeByItself(c) == c \in excluded \/ (RowsOf(c) # {} /\ RowsOf(c) \subseteq tags)

\* Its twins are the same category to the live run, so it goes with them.
Whole(c) == \A d \in CatTwins(c) : WholeByItself(d)

SentCategories == {c \in bar.categories : Whole(c)}
SentTags == {r \in tags : r[1] \notin SentCategories}
Split == \E c \in bar.categories : WholeByItself(c) /\ ~Whole(c)

Ticked == excluded # {} \/ tags # {}

\* Why the button is shut, if it is.
Blocked ==
    \/ Ticked /\ Atoms \cap bar.traded = {}
    \/ Split
    \/ SentCategories \cap bar.badCategories # {} \/ SentTags \cap bar.badTags # {}
    \/ Cardinality(SentCategories) > MaxNames \/ Cardinality(SentTags) > MaxNames

Sent == [categories |-> SentCategories, plain |-> {}, tied |-> SentTags]

\* A confirmed save replaces the live filter by what the button sent.
Save ==
    /\ ~Blocked
    /\ live' = Sent
    /\ UNCHANGED <<bar, excluded, tags, told>>

-----------------------------------------------------------------------------
Init ==
    /\ bar \in Bars
    /\ live \in Filters
    /\ excluded = {} /\ tags = {} /\ told = FALSE

Next ==
    \/ AllCategories
    \/ \E c \in bar.categories : Category(c)
    \/ AllTags
    \/ \E r \in bar.rows : Tag(r)
    \/ FollowTheNote
    \/ Save

Spec == Init /\ [][Next]_vars

-----------------------------------------------------------------------------
TypeOK ==
    /\ bar \in Bars
    /\ excluded \subseteq bar.categories
    /\ tags \subseteq ShownTags(excluded)
    /\ told \in BOOLEAN

\* What the page shows of a pair filed under `row`: a tag it never saw is left
\* out with its category, when nothing of that category is kept.
ShownKept(row) ==
    IF row \in bar.rows THEN row \in Atoms
    ELSE row[1] \in bar.categories => \E r \in Atoms : r[1] = row[1]

Filings == bar.rows \cup ((bar.categories \cup {NewCategory}) \X {NewTag})

(* A live run with the filter the button would save trades exactly what the *)
(* page shows kept, whatever it is filed under, except that it leaves out a *)
(* series the listing does not know; what the page shows left out never     *)
(* trades.                                                                  *)
SavedIsShown ==
    ~Blocked =>
        \A row \in Filings, listed \in BOOLEAN :
            Trades(Sent, row, listed) =
                (ShownKept(row) /\ (listed \/ Sent = Everything))

(* Ticking what the note names shows the live filter: of the rows on the    *)
(* bar the page keeps just those a live run would trade, and saving them    *)
(* changes nothing about them.                                              *)
NoteShowsTheFilter ==
    told /\ excluded = WithCatTwins(NotedOut(live)) /\ tags = WithTagTwins(NotedTags(live)) =>
        \A row \in bar.rows : (row \in Atoms) = Keeps(live, row[1], row[2])

=============================================================================
