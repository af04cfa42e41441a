------------------------------- MODULE MCStores -------------------------------
EXTENDS Stores, MCCorpus

(* The settings: those of the seed, of four backtest pages and of others;   *)
(* the files older versions wrote, with one or two of their retired keys;   *)
(* and flags typed by hand.  Pairs of legs: <<rebalance, move, until>> and  *)
(* <<sell, days>>.                                                          *)

SettingsOf(rest, twin, cats, tags, rebalance, sell) ==
    "rest" :> rest @@ "lo" :> 0 @@ "hi" :> 1 @@ "twin" :> twin @@ "cats" :> cats @@ "tags" :> tags
      @@ "rebalance" :> rebalance[1] @@ "move" :> rebalance[2] @@ "until" :> rebalance[3]
      @@ "sell" :> sell[1] @@ "days" :> sell[2]

MCSeed == SettingsOf(2, 0, Absent, Absent, <<TRUE, Absent, Absent>>, <<Absent, Absent>>)
MCPages ==
    {SettingsOf(4, 1, Absent, {<<Absent, "t">>}, <<FALSE, Absent, Absent>>, <<Absent, Absent>>),
     SettingsOf(4, 1, {"c"}, Absent, <<TRUE, 2, Absent>>, <<2, Absent>>),
     SettingsOf(4, 1, Absent, Absent, <<TRUE, Absent, 7>>, <<2, 5>>),
     SettingsOf(4, 0, {"c"}, {<<"d", "t">>}, <<FALSE, Absent, Absent>>, <<2, 5>>)}
MCOthers ==
    {MCSeed, SettingsOf(2, 0, Absent, {<<Absent, "u">>}, <<TRUE, Absent, 7>>, <<2, 5>>)}

OldBase == "rest" :> 2 @@ "lo" :> 0 @@ "hi" :> 2 @@ "twin" :> 1
OldCats == {Absent, {"c"}}
OldTags == {Absent, {<<Absent, "t">>}, {<<"c", "t">>}, {<<"d", "t">>, <<Absent, "u">>}}
OldSwitches ==
    {"add" :> TRUE @@ "trim" :> TRUE @@ "rise" :> 4, "add" :> TRUE @@ "trim" :> TRUE,
     "add" :> FALSE @@ "trim" :> TRUE @@ "rise" :> 4, "add" :> TRUE @@ "trim" :> FALSE @@ "rise" :> 4,
     "add" :> TRUE @@ "trim" :> FALSE, "trim" :> TRUE}
NewSwitches == {"rebalance" :> TRUE, "rebalance" :> TRUE @@ "until" :> 7}
MCOldFiles ==
    {OldBase @@ x @@ c :> cats @@ "oldtags" :> tags :
        x \in OldSwitches \cup NewSwitches, c \in {"categories", "cats"}, cats \in OldCats, tags \in OldTags}
      \cup {OldBase @@ x @@ "cats" :> {"d"} @@ "tags" :> {<<Absent, "u">>} : x \in OldSwitches}

MCTyped ==
    {<<>>, "rebalance" :> FALSE, "sell" :> Absent, "lo" :> 1, "hi" :> 2, "move" :> 4, "move" :> 3, "days" :> 9,
     "until" :> Absent, "rebalance" :> TRUE @@ "move" :> 4, "sell" :> 3, "cats" :> {"d"},
     "tags" :> Absent, "rebalance" :> FALSE @@ "until" :> 1}

MCListed == {"c", "d"} \X {"t", "u"}
===============================================================================
