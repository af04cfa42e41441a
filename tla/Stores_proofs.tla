---------------------------- MODULE Stores_proofs ----------------------------
(* Proofs about what Stores keeps beside the settled markets (of those, see    *)
(* Corpus_proofs).  First the settings, for any settings a page may show, any   *)
(* flags and any older file.                                                   *)
EXTENDS Stores, Sequences, FiniteSetTheorems, WellFoundedInduction, TLAPS

CONSTANT FieldValues     \* what a field may be set to

\* Settings that may be set together, with their switch a switch.
Sets == {s \in [L!Fields -> FieldValues] : L!Legal(s) /\ s["rebalance"] \in BOOLEAN}

\* What a field of a file of an older version may hold.
Raw(raw) ==
    /\ raw = [f \in DOMAIN raw |-> raw[f]]
    /\ \A f \in DOMAIN raw : raw[f] \in FieldValues
    /\ \A f \in {"rebalance", "add", "trim"} \cap DOMAIN raw : raw[f] \in BOOLEAN

(* No file's contents is Off or Torn; an older version's file has one of its *)
(* keys; a flag for the switch is one of its positions.                      *)
SettingsAssumption ==
    /\ Absent \notin {Damaged, 0} /\ Absent \in FieldValues /\ BOOLEAN \subseteq FieldValues
    /\ \A D \in SUBSET L!Fields : \A t \in [D -> FieldValues] : t \notin {Absent, Damaged}
    /\ PageSets \subseteq Sets /\ Others \subseteq Sets /\ Seed \in Sets
    /\ \A raw \in OldFiles :
          Raw(raw) /\ L!OldKeys \cap DOMAIN raw # {} /\ raw \notin {Absent, Damaged}
    /\ \A flags \in Typed :
          "rebalance" \in DOMAIN flags => flags["rebalance"] \in BOOLEAN

-----------------------------------------------------------------------------
\* What Sets holds.
LEMMA SetFacts ==
    ASSUME SettingsAssumption, NEW s \in Sets
    PROVE  /\ s \in [L!Fields -> FieldValues] /\ DOMAIN s = L!Fields /\ L!Legal(s)
           /\ s["rebalance"] \in BOOLEAN /\ s \notin {Absent, Damaged}
<1>1. s \in [L!Fields -> FieldValues] /\ L!Legal(s) /\ s["rebalance"] \in BOOLEAN
  BY DEF Sets
<1>2. L!Fields \in SUBSET L!Fields
  OBVIOUS
<1> QED BY <1>1, <1>2 DEF SettingsAssumption

\* Legal asks for nothing but these fields.
LEMMA LegalIs ==
    ASSUME NEW s
    PROVE  L!Legal(s) <=>
              /\ L!OnGrid(s["rest"]) /\ L!OnGrid(s["move"]) /\ L!OnGrid(s["sell"])
              /\ s["lo"] < s["hi"]
              /\ ~s["rebalance"] => s["move"] = Absent /\ s["until"] = Absent
              /\ s["sell"] = Absent => s["days"] = Absent
BY DEF L!Legal

\* What a save writes is read back as what it was to write.
LEMMA TextIsRead ==
    ASSUME SettingsAssumption, NEW s \in Sets
    PROVE  /\ L!SettingsFromToggles(L!Text(s)) = s
           /\ L!Text(s) \notin {Absent, Damaged} /\ L!OldKeys \cap DOMAIN L!Text(s) = {}
           /\ L!Read(L!Text(s)) = [is |-> "saved", set |-> s, widens |-> FALSE]
<1>1. DOMAIN s = L!Fields /\ L!Legal(s) /\ s \in [L!Fields -> FieldValues] /\ s # Absent
  BY SetFacts
<1> DEFINE D == {g \in L!Fields : g \in L!Optional => s[g] # L!Default[g]}
           t == L!Text(s)
<1>2. t = [f \in D |-> s[f]] /\ DOMAIN t = D /\ D \subseteq L!Fields /\ L!Fields \ L!Optional \subseteq D
  BY DEF L!Text, L!Fields, L!Optional
<1>3. t \in [D -> FieldValues]
  BY <1>1, <1>2
<1>4. t \notin {Absent, Damaged}
  BY <1>2, <1>3 DEF SettingsAssumption
<1>5. L!OldKeys \cap L!Fields = {}
  BY DEF L!OldKeys, L!Fields
<1>6. L!OldKeys \cap DOMAIN t = {}
  BY <1>2, <1>5
<1>7. L!Else(t, L!Default) = s
  <2>1. DOMAIN L!Default = L!Optional /\ L!Optional \subseteq L!Fields
    BY DEF L!Default, L!Optional, L!Fields
  <2>2. D \cup L!Optional = L!Fields
    BY <1>2, <2>1
  <2>3. L!Else(t, L!Default) = [f \in L!Fields |-> IF f \in D THEN t[f] ELSE L!Default[f]]
    BY <1>2, <2>1, <2>2 DEF L!Else
  <2>4. \A f \in L!Fields : (IF f \in D THEN t[f] ELSE L!Default[f]) = s[f]
    BY <1>2
  <2>5. s = [f \in L!Fields |-> s[f]]
    BY <1>1
  <2> HIDE DEF D, t
  <2> QED BY <2>3, <2>4, <2>5
<1>8. L!SettingsFromToggles(t) = s
  <2> HIDE DEF D, t
  <2> QED BY <1>1, <1>2, <1>7 DEF L!SettingsFromToggles
<1>9. L!Read(t) = [is |-> "saved", set |-> s, widens |-> FALSE]
  <2> HIDE DEF D, t
  <2>1. L!Read(t) = [L!Nothing EXCEPT !.is = "saved", !.set = s]
    BY <1>1, <1>4, <1>6, <1>8 DEF L!Read
  <2> QED BY <2>1 DEF L!Nothing
<1> QED BY <1>4, <1>6, <1>8, <1>9

\* What is laid over something else.
LEMMA ElseIs ==
    ASSUME NEW f, NEW g
    PROVE  /\ DOMAIN L!Else(f, g) = DOMAIN f \cup DOMAIN g
           /\ \A x \in DOMAIN f : L!Else(f, g)[x] = f[x]
           /\ \A x \in DOMAIN g \ DOMAIN f : L!Else(f, g)[x] = g[x]
BY DEF L!Else

\* Settings read from fields that are all of today's.
LEMMA TogglesAre ==
    ASSUME SettingsAssumption, NEW m, \A f \in DOMAIN m : m[f] \in FieldValues,
           "rebalance" \in DOMAIN m => m["rebalance"] \in BOOLEAN,
           L!SettingsFromToggles(m) # Absent
    PROVE  /\ L!SettingsFromToggles(m) \in Sets
           /\ L!Fields \ L!Optional \subseteq DOMAIN m /\ DOMAIN m \subseteq L!Fields
           /\ \A f \in DOMAIN m : L!SettingsFromToggles(m)[f] = m[f]
           /\ \A f \in L!Fields \ DOMAIN m : L!SettingsFromToggles(m)[f] = L!Default[f]
<1> DEFINE s == L!Else(m, L!Default)
<1>1. /\ L!Fields \ L!Optional \subseteq DOMAIN m /\ DOMAIN m \subseteq L!Fields
      /\ L!SettingsFromToggles(m) = s /\ L!Legal(s)
  BY DEF L!SettingsFromToggles
<1>2. DOMAIN L!Default = L!Optional /\ L!Optional \subseteq L!Fields
  BY DEF L!Default, L!Optional, L!Fields
<1>3. \A f \in L!Optional : L!Default[f] \in FieldValues
  BY DEF SettingsAssumption, L!Default
<1>4. L!Default["rebalance"] = FALSE /\ "rebalance" \in L!Optional
  BY DEF L!Default, L!Optional
<1>5. s = [f \in L!Fields |-> IF f \in DOMAIN m THEN m[f] ELSE L!Default[f]]
  <2>1. DOMAIN m \cup DOMAIN L!Default = L!Fields
    BY <1>1, <1>2
  <2> QED BY <2>1 DEF L!Else
<1> HIDE DEF s
<1>6. \A f \in L!Fields : s[f] \in FieldValues
  BY <1>1, <1>2, <1>3, <1>5
<1>7. s \in [L!Fields -> FieldValues]
  BY <1>5, <1>6
<1>8. s["rebalance"] \in BOOLEAN
  <2>1. "rebalance" \in L!Fields
    BY <1>2, <1>4
  <2>2. CASE "rebalance" \in DOMAIN m
    BY <2>1, <2>2, <1>5
  <2>3. CASE "rebalance" \notin DOMAIN m
    BY <2>1, <2>3, <1>4, <1>5
  <2> QED BY <2>2, <2>3
<1>9. s \in Sets
  BY <1>1, <1>7, <1>8 DEF Sets
<1>10. \A f \in L!Fields \ DOMAIN m : s[f] = L!Default[f]
  BY <1>5
<1>11. \A f \in DOMAIN m : s[f] = m[f]
  BY <1>1, <1>5
<1> QED BY <1>1, <1>9, <1>10, <1>11

\* What an older file's settings have become.
LEMMA RetiredIs ==
    ASSUME SettingsAssumption, NEW raw \in OldFiles, L!RetiredProposal(raw) # Absent
    PROVE  /\ L!RetiredProposal(raw) \in Sets
           /\ "categories" \in DOMAIN raw => L!RetiredProposal(raw)["cats"] = Absent
           /\ "categories" \notin DOMAIN raw =>
                  "cats" \in DOMAIN raw /\ L!RetiredProposal(raw)["cats"] = raw["cats"]
           /\ L!Switches \cap DOMAIN raw # {} =>
                  /\ L!RetiredProposal(raw)["rebalance"] = L!BothSwitches(raw)
                  /\ L!RetiredProposal(raw)["move"] =
                         IF L!BothSwitches(raw) THEN L!Held(raw, "rise", Absent) ELSE Absent
<1> DEFINE today    == [f \in DOMAIN raw \ L!OldKeys |-> raw[f]]
           lists  == [f \in {"cats" : k \in {"categories"} \cap DOMAIN raw}
                           \cup {"tags" : k \in {"oldtags"} \cap DOMAIN raw} |-> Absent]
           switch == IF L!Switches \cap DOMAIN raw = {} THEN [f \in {} |-> Absent]
                     ELSE IF L!BothSwitches(raw) /\ L!Held(raw, "rise", Absent) # Absent
                     THEN [rebalance |-> TRUE, move |-> raw["rise"]]
                     ELSE [rebalance |-> L!BothSwitches(raw)]
           rest   == L!Else(switch, today)
           m      == L!Else(lists, rest)
           p      == L!RetiredProposal(raw)
<1>1. ~L!TwoThings(raw) /\ p = L!SettingsFromToggles(m) /\ p # Absent
  BY DEF L!RetiredProposal
<1>2. Raw(raw) /\ Absent \in FieldValues /\ BOOLEAN \subseteq FieldValues
  BY DEF SettingsAssumption
<1>3. L!BothSwitches(raw) \in BOOLEAN
  BY <1>2 DEF L!BothSwitches, L!Held, Raw
<1>4. /\ DOMAIN today = DOMAIN raw \ L!OldKeys
      /\ \A f \in DOMAIN today : today[f] = raw[f] /\ today[f] \in FieldValues
      /\ "rebalance" \in DOMAIN today => today["rebalance"] \in BOOLEAN
  BY <1>2 DEF Raw
<1>5. /\ \A f \in DOMAIN lists : f \in {"cats", "tags"} /\ lists[f] = Absent
      /\ "cats" \in DOMAIN lists <=> "categories" \in DOMAIN raw
  OBVIOUS
<1>6. /\ L!Switches \cap DOMAIN raw = {} => DOMAIN switch = {}
      /\ L!Switches \cap DOMAIN raw # {} =>
             /\ "rebalance" \in DOMAIN switch /\ switch["rebalance"] = L!BothSwitches(raw)
             /\ DOMAIN switch \subseteq {"rebalance", "move"}
             /\ "move" \in DOMAIN switch <=> L!BothSwitches(raw) /\ L!Held(raw, "rise", Absent) # Absent
             /\ "move" \in DOMAIN switch => switch["move"] = L!Held(raw, "rise", Absent)
                                            /\ switch["move"] \in FieldValues
  <2>1. CASE L!Switches \cap DOMAIN raw = {}
    BY <2>1
  <2>2. CASE L!Switches \cap DOMAIN raw # {} /\ L!BothSwitches(raw) /\ L!Held(raw, "rise", Absent) # Absent
    <3>1. switch = [rebalance |-> TRUE, move |-> raw["rise"]]
      BY <2>2
    <3>2. "rise" \in DOMAIN raw /\ L!Held(raw, "rise", Absent) = raw["rise"] /\ raw["rise"] \in FieldValues
      BY <2>2, <1>2 DEF L!Held, Raw
    <3> HIDE DEF switch
    <3>3. DOMAIN switch = {"rebalance", "move"}
      BY <3>1
    <3> QED BY <2>2, <1>3, <3>1, <3>2, <3>3
  <2>3. CASE L!Switches \cap DOMAIN raw # {} /\ ~(L!BothSwitches(raw) /\ L!Held(raw, "rise", Absent) # Absent)
    <3>1. switch = [rebalance |-> L!BothSwitches(raw)]
      BY <2>3
    <3> HIDE DEF switch
    <3> QED BY <2>3, <3>1
  <2> QED BY <2>1, <2>2, <2>3
<1> HIDE DEF today, lists, switch
<1>7. /\ DOMAIN rest = DOMAIN switch \cup DOMAIN today
      /\ \A x \in DOMAIN switch : rest[x] = switch[x]
      /\ \A x \in DOMAIN today \ DOMAIN switch : rest[x] = today[x]
  BY ElseIs
<1> HIDE DEF rest
<1>8. /\ DOMAIN m = DOMAIN lists \cup DOMAIN rest
      /\ \A x \in DOMAIN lists : m[x] = lists[x]
      /\ \A x \in DOMAIN rest \ DOMAIN lists : m[x] = rest[x]
  BY ElseIs
<1> HIDE DEF m, p

<1>9. \A f \in DOMAIN m : m[f] \in FieldValues
  <2> SUFFICES ASSUME NEW f \in DOMAIN m PROVE m[f] \in FieldValues
    OBVIOUS
  <2>1. CASE f \in DOMAIN lists
    BY <2>1, <1>2, <1>5, <1>8
  <2>2. CASE f \notin DOMAIN lists /\ f \in DOMAIN switch
    <3>1. m[f] = switch[f] /\ f \in {"rebalance", "move"}
      BY <2>2, <1>6, <1>7, <1>8
    <3> QED BY <2>2, <3>1, <1>2, <1>3, <1>6
  <2>3. CASE f \notin DOMAIN lists /\ f \notin DOMAIN switch
    BY <2>3, <1>4, <1>7, <1>8
  <2> QED BY <2>1, <2>2, <2>3
<1>10. "rebalance" \in DOMAIN m => m["rebalance"] \in BOOLEAN
  <2>1. "rebalance" \notin DOMAIN lists
    BY <1>5
  <2>2. CASE "rebalance" \in DOMAIN switch
    BY <2>1, <2>2, <1>3, <1>6, <1>7, <1>8
  <2>3. CASE "rebalance" \notin DOMAIN switch
    BY <2>1, <2>3, <1>4, <1>7, <1>8
  <2> QED BY <2>2, <2>3
<1>11. /\ p \in Sets
       /\ L!Fields \ L!Optional \subseteq DOMAIN m
       /\ \A f \in DOMAIN m : p[f] = m[f]
       /\ \A f \in L!Fields \ DOMAIN m : p[f] = L!Default[f]
  BY <1>1, <1>9, <1>10, TogglesAre
<1>12. /\ "categories" \in DOMAIN raw => p["cats"] = Absent
       /\ "categories" \notin DOMAIN raw => "cats" \in DOMAIN raw /\ p["cats"] = raw["cats"]
  <2>1. "cats" \in DOMAIN m
    BY <1>11 DEF L!Fields, L!Optional
  <2>2. CASE "categories" \in DOMAIN raw
    BY <2>1, <2>2, <1>5, <1>8, <1>11
  <2>3. CASE "categories" \notin DOMAIN raw
    <3>1. "cats" \notin DOMAIN lists /\ "cats" \notin DOMAIN switch
      BY <2>3, <1>5, <1>6
    <3>2. "cats" \in DOMAIN today /\ m["cats"] = today["cats"]
      BY <2>1, <3>1, <1>7, <1>8
    <3> QED BY <2>1, <2>3, <3>2, <1>4, <1>11
  <2> QED BY <2>2, <2>3
<1>13. ASSUME L!Switches \cap DOMAIN raw # {}
       PROVE  /\ p["rebalance"] = L!BothSwitches(raw)
              /\ p["move"] = IF L!BothSwitches(raw) THEN L!Held(raw, "rise", Absent) ELSE Absent
  <2>1. "rebalance" \in DOMAIN switch /\ switch["rebalance"] = L!BothSwitches(raw)
    BY <1>6, <1>13
  <2>2. "rebalance" \notin DOMAIN lists /\ "move" \notin DOMAIN lists
    BY <1>5
  <2>3. "rebalance" \in DOMAIN m /\ m["rebalance"] = L!BothSwitches(raw)
    BY <2>1, <2>2, <1>7, <1>8
  <2>4. "move" \notin DOMAIN today
    BY <1>1, <1>4, <1>13 DEF L!TwoThings
  <2>5. CASE "move" \in DOMAIN switch
    <3>1. "move" \in DOMAIN m /\ m["move"] = switch["move"]
      BY <2>2, <2>5, <1>7, <1>8
    <3> QED BY <2>3, <2>5, <3>1, <1>6, <1>11, <1>13
  <2>6. CASE "move" \notin DOMAIN switch
    <3>1. "move" \in L!Fields \ DOMAIN m
      BY <2>2, <2>4, <2>6, <1>7, <1>8 DEF L!Fields
    <3>2. p["move"] = Absent
      BY <3>1, <1>11 DEF L!Default, L!Optional
    <3> QED BY <2>3, <2>6, <3>2, <1>6, <1>11, <1>13
  <2> QED BY <2>5, <2>6
<1> QED BY <1>11, <1>12, <1>13 DEF p

\* An older version's file is not in force.
LEMMA OldIsRead ==
    ASSUME SettingsAssumption, NEW raw \in OldFiles
    PROVE  /\ L!Read(raw) = [is |-> "outdated", set |-> L!RetiredProposal(raw), widens |-> L!Widens(raw)]
           /\ L!RetiredProposal(raw) \in Sets \cup {Absent}
<1>1. L!OldKeys \cap DOMAIN raw # {} /\ raw \notin {Absent, Damaged}
  BY DEF SettingsAssumption
<1>2. L!Read(raw) = [is |-> "outdated", set |-> L!RetiredProposal(raw), widens |-> L!Widens(raw)]
  BY <1>1 DEF L!Read
<1> QED BY <1>2, RetiredIs

-----------------------------------------------------------------------------
\* The settings that fill what a link does not name.
Base(current) == IF current # Absent THEN current ELSE Seed

LEMMA KeptIs ==
    ASSUME NEW link, ~link.seed, NEW current
    PROVE  /\ \A f \in {"cats", "tags"} : L!Kept(link, current, f) = Absent
           /\ L!Kept(link, current, "until") =
                  IF L!Held(link.named, "rebalance", TRUE) = FALSE THEN Absent
                  ELSE Base(current)["until"]
           /\ \A f \in L!Fields \ {"cats", "tags", "until"} :
                  L!Kept(link, current, f) = Base(current)[f]
<1>1. \A f \in {"cats", "tags"} : L!Kept(link, current, f) = Absent
  BY DEF L!Kept
<1>2. L!Kept(link, current, "until") =
          IF L!Held(link.named, "rebalance", TRUE) = FALSE THEN Absent ELSE Base(current)["until"]
  BY DEF L!Kept, Base
<1>3. ASSUME NEW f \in L!Fields \ {"cats", "tags", "until"}
      PROVE  L!Kept(link, current, f) = Base(current)[f]
  <2>1. CASE f = "twin"
    BY <2>1 DEF L!Kept, Base
  <2>2. CASE f # "twin"
    BY <2>2, <1>3 DEF L!Kept, Base
  <2> QED BY <2>1, <2>2
<1> QED BY <1>1, <1>2, <1>3

\* A link of a page proposes settings that may be set together.
LEMMA PageLinkIsTaken ==
    ASSUME SettingsAssumption, NEW current \in Sets \cup {Absent}, NEW link \in L!PageLinks
    PROVE  /\ L!Proposal(link, current) \in Sets
           /\ \A f \in DOMAIN link.named : L!Proposal(link, current)[f] = link.named[f]
<1>1. PICK s \in PageSets, views \in L!Views : link = L!Link(s, views)
  BY DEF L!PageLinks
<1> DEFINE N == L!Named
                  \cup (IF "twin" \in views THEN {"twin"} ELSE {})
                  \cup (IF "rebalance" \in views THEN {"rebalance", "move"} ELSE {})
                  \cup (IF "until" \in views THEN {"until"} ELSE {})
                  \cup (IF "sell" \in views THEN {"sell", "days"} ELSE {})
                  \cup {g \in {"cats", "tags"} : s[g] # Absent}
           b == Base(current)
           p == [f \in L!Fields |-> IF f \in DOMAIN link.named THEN L!Given(link, f)
                                  ELSE L!Kept(link, current, f)]
<1>2. link = [named |-> [f \in N |-> s[f]], seed |-> FALSE]
  BY <1>1 DEF L!Link
<1>3. ~link.seed /\ DOMAIN link.named = N /\ \A f \in N : link.named[f] = s[f]
  <2> HIDE DEF N
  <2> QED BY <1>2
<1>k. \A f \in L!Fields \ {"cats", "tags", "until"} : L!Kept(link, current, f) = b[f]
  <2>1. ~link.seed
    BY <1>3
  <2> HIDE DEF N, p
  <2> QED BY <2>1, KeptIs
<1>4. s \in Sets /\ b \in Sets
  BY DEF SettingsAssumption, Base
<1>5. /\ {"rest", "lo", "hi"} \subseteq N /\ N \subseteq L!Fields
      /\ "rebalance" \in N <=> "rebalance" \in views
      /\ "move" \in N <=> "rebalance" \in views
      /\ "until" \in N => "rebalance" \in N
      /\ "sell" \in N <=> "sell" \in views
      /\ "days" \in N <=> "sell" \in views
  BY DEF L!Named, L!Fields, L!Views
<1> HIDE DEF N, b
<1>6. \A f \in L!Fields : p[f] = IF f \in N THEN s[f] ELSE L!Kept(link, current, f)
  BY <1>3 DEF L!Given
<1>7. \A f \in L!Fields : f \in N => p[f] = s[f]
  BY <1>6
<1>8. \A f \in L!Fields : f \in {"rebalance", "move", "sell", "days"} /\ f \notin N => p[f] = b[f]
  <2> SUFFICES ASSUME NEW f \in L!Fields, f \in {"rebalance", "move", "sell", "days"}, f \notin N
               PROVE  p[f] = b[f]
    OBVIOUS
  <2>1. f \notin {"cats", "tags"} /\ f # "until"
    OBVIOUS
  <2>2. L!Kept(link, current, f) = b[f]
    BY <2>1, <1>k
  <2> HIDE DEF p
  <2> QED BY <2>2, <1>6
<1>9. "until" \notin N => p["until"] = IF L!Held(link.named, "rebalance", TRUE) = FALSE THEN Absent ELSE b["until"]
  <2>1. "until" \in L!Fields
    BY DEF L!Fields
  <2>2. L!Kept(link, current, "until") =
            IF L!Held(link.named, "rebalance", TRUE) = FALSE THEN Absent ELSE b["until"]
    BY <1>3, KeptIs DEF b
  <2> HIDE DEF p
  <2> QED BY <2>1, <2>2, <1>6
<1>10. \A f \in L!Fields : p[f] \in FieldValues
  <2> SUFFICES ASSUME NEW f \in L!Fields PROVE p[f] \in FieldValues
    OBVIOUS
  <2>1. s[f] \in FieldValues /\ b[f] \in FieldValues /\ Absent \in FieldValues
    BY <1>4, SetFacts DEF SettingsAssumption
  <2>2. L!Kept(link, current, f) \in {Absent, b[f]}
    <3>1. CASE f \in {"cats", "tags"}
      BY <3>1, <1>3, KeptIs
    <3>2. CASE f = "until"
      BY <3>2, <1>3, KeptIs DEF b
    <3>3. CASE f \notin {"cats", "tags", "until"}
      BY <3>3, <1>k
    <3> QED BY <3>1, <3>2, <3>3
  <2> QED BY <2>1, <2>2, <1>6
<1>11. p \in [L!Fields -> FieldValues]
  BY <1>10
<1> HIDE DEF p
<1>12. {"rest", "lo", "hi", "rebalance", "move", "until", "sell", "days"} \subseteq L!Fields
  BY DEF L!Fields
<1>13. /\ L!Legal(s) /\ L!Legal(b) /\ s["rebalance"] \in BOOLEAN /\ b["rebalance"] \in BOOLEAN
  BY <1>4, SetFacts
<1>14. L!OnGrid(p["rest"]) /\ p["lo"] < p["hi"]
  BY <1>5, <1>7, <1>12, <1>13, LegalIs
<1>15. /\ p["rebalance"] \in BOOLEAN /\ L!OnGrid(p["move"])
       /\ ~p["rebalance"] => p["move"] = Absent /\ p["until"] = Absent
  <2>1. CASE "rebalance" \in N
    <3>1. p["rebalance"] = s["rebalance"] /\ p["move"] = s["move"]
      BY <2>1, <1>5, <1>7, <1>12
    <3>2. L!Held(link.named, "rebalance", TRUE) = s["rebalance"]
      BY <2>1, <1>3 DEF L!Held
    <3>3. "until" \in N => p["until"] = s["until"]
      BY <1>7, <1>12
    <3> QED BY <3>1, <3>2, <3>3, <1>9, <1>13, LegalIs
  <2>2. CASE "rebalance" \notin N
    <3>1. p["rebalance"] = b["rebalance"] /\ p["move"] = b["move"]
      BY <2>2, <1>5, <1>8, <1>12
    <3>2. L!Held(link.named, "rebalance", TRUE) = TRUE
      BY <2>2, <1>3 DEF L!Held
    <3>3. p["until"] = b["until"]
      BY <2>2, <3>2, <1>5, <1>9
    <3> QED BY <3>1, <3>3, <1>13, LegalIs
  <2> QED BY <2>1, <2>2
<1>16. L!OnGrid(p["sell"]) /\ (p["sell"] = Absent => p["days"] = Absent)
  <2>1. CASE "sell" \in N
    <3>1. p["sell"] = s["sell"] /\ p["days"] = s["days"]
      BY <2>1, <1>5, <1>7, <1>12
    <3> QED BY <3>1, <1>13, LegalIs
  <2>2. CASE "sell" \notin N
    <3>1. p["sell"] = b["sell"] /\ p["days"] = b["days"]
      BY <2>2, <1>5, <1>8, <1>12
    <3> QED BY <3>1, <1>13, LegalIs
  <2> QED BY <2>1, <2>2
<1>17. L!Legal(p)
  BY <1>14, <1>15, <1>16, LegalIs
<1>18. L!Proposal(link, current) = p
  BY <1>3, <1>17 DEF L!Proposal, p
<1>19. p \in Sets
  BY <1>11, <1>15, <1>17 DEF Sets
<1> QED BY <1>3, <1>5, <1>7, <1>18, <1>19

\* The server's own links propose what they were made from.
LEMMA OwnLinkIsTaken ==
    ASSUME SettingsAssumption, NEW current, NEW s \in Sets, NEW seed \in BOOLEAN,
           seed => s = Seed
    PROVE  /\ L!Proposal(L!SettingsQuery(s, seed), current) = s
           /\ \A f \in DOMAIN L!SettingsQuery(s, seed).named : s[f] = L!SettingsQuery(s, seed).named[f]
<1> DEFINE N == {g \in L!Fields : g \in {"cats", "tags"} => s[g] # Absent}
           link == L!SettingsQuery(s, seed)
           p == [f \in L!Fields |-> IF f \in DOMAIN link.named THEN L!Given(link, f)
                                  ELSE L!Kept(link, current, f)]
<1>1. link = [named |-> [f \in N |-> s[f]], seed |-> seed]
  BY DEF L!SettingsQuery
<1> HIDE DEF link
<1>2. link.seed = seed /\ DOMAIN link.named = N /\ \A f \in N : link.named[f] = s[f]
  <2> HIDE DEF N
  <2> QED BY <1>1
<1>3. \A f \in L!Fields \ N : f \in {"cats", "tags"} /\ s[f] = Absent
  OBVIOUS
<1>4. \A f \in {"cats", "tags"} : L!Kept(link, current, f) = Absent
  BY DEF L!Kept
<1>5. \A f \in L!Fields : p[f] = s[f]
  <2> HIDE DEF N
  <2> QED BY <1>2, <1>3, <1>4 DEF L!Given
<1>6. s = [f \in L!Fields |-> s[f]] /\ L!Legal(s)
  BY SetFacts
<1>7. p = s
  BY <1>5, <1>6
<1>8. L!Proposal(link, current) = p
  BY <1>2, <1>6, <1>7 DEF L!Proposal
<1> QED BY <1>2, <1>7, <1>8 DEF link

LEMMA LinkIsTaken ==
    ASSUME SettingsAssumption, NEW r, r.set \in Sets \cup {Absent},
           NEW link \in L!PageLinks \cup L!ServerLinks(r)
    PROVE  /\ L!Proposal(link, r.set) \in Sets
           /\ \A f \in DOMAIN link.named : L!Proposal(link, r.set)[f] = link.named[f]
<1>1. CASE link \in L!PageLinks
  BY <1>1, PageLinkIsTaken
<1>2. CASE link = L!SettingsQuery(Seed, TRUE)
  <2>1. Seed \in Sets
    BY DEF SettingsAssumption
  <2> QED BY <1>2, <2>1, OwnLinkIsTaken
<1>3. CASE r.set # Absent /\ link = L!SettingsQuery(r.set, FALSE)
  BY <1>3, OwnLinkIsTaken
<1> QED BY <1>1, <1>2, <1>3 DEF L!ServerLinks

-----------------------------------------------------------------------------
\* What the file, or a power cut, may hold.
Contents == {Absent} \cup {L!Text(s) : s \in Sets} \cup OldFiles

LEMMA ContentsAre ==
    ASSUME SettingsAssumption, NEW c \in Contents
    PROVE  /\ L!Read(c).is \in {"none", "saved", "outdated"}
           /\ L!Read(c).set \in Sets \cup {Absent}
           /\ L!Read(c).is = "saved" => L!Read(c).set \in Sets
           /\ L!Read(c).is = "outdated" => c \in OldFiles
           /\ L!LiveDefaults(c) = IF L!Read(c).is = "saved" THEN L!Read(c).set ELSE Absent
<1>1. CASE c = Absent
  BY <1>1 DEF L!Read, L!Nothing, L!LiveDefaults
<1>2. CASE \E s \in Sets : c = L!Text(s)
  BY <1>2, TextIsRead DEF L!LiveDefaults
<1>3. CASE c \in OldFiles
  BY <1>3, OldIsRead DEF L!LiveDefaults
<1> QED BY <1>1, <1>2, <1>3 DEF Contents

LEMMA TextIsContents ==
    ASSUME SettingsAssumption, NEW s \in Sets
    PROVE  L!Text(s) \in Contents /\ L!LiveDefaults(L!Text(s)) = s
BY TextIsRead DEF Contents, L!LiveDefaults

OpenPage(p) ==
    /\ p.shown \in Sets
    /\ \A f \in DOMAIN p.link.named : p.shown[f] = p.link.named[f]
    /\ p.shown = L!Proposal(p.link, p.seen.set)

\* A save is of what its page showed, and has gone as far as it says.
SaveSteps == {"same", "write", "written", "flushed", "replaced", "synced", "saved", "failed"}
UnderWay(v, p) ==
    /\ v \in [set : Sets, step : SaveSteps, flushed : BOOLEAN] /\ v.set = p.shown
    /\ v.step \in {"flushed", "replaced", "synced", "saved"} => v.flushed
    /\ v.step = "same" => L!LiveDefaults(store) = v.set
    /\ v.step \in {"replaced", "synced", "saved"} => store = L!Text(v.set)
    /\ v.step \in {"synced", "saved"} => held = {store}

\* A run was started with what its page showed, or with flags typed by hand.
Started(r) ==
    /\ r = [flags |-> r.flags, shown |-> r.shown, on |-> r.on, trades |-> r.trades]
    /\ r.shown \in Sets \cup {Absent}
    /\ IF r.shown = Absent THEN r.flags \in Typed ELSE r.flags = r.shown
    /\ r.on # Absent => r.on \in Contents /\ r.trades = L!Resolve(r.flags, r.on)

SettingsInv ==
    /\ store \in Contents /\ held \subseteq Contents
    /\ cached # Absent => OpenPage(cached)
    /\ legacy # Absent => cached # Absent /\ UnderWay(legacy, cached)
    /\ answer # Absent => Started(answer)

-----------------------------------------------------------------------------
LEMMA SettingsStart == SettingsAssumption /\ L!Init => SettingsInv
BY DEF SettingsAssumption, L!Init, SettingsInv, Contents

LEMMA OpenStep == ASSUME SettingsAssumption, SettingsInv, L!Open PROVE SettingsInv'
<1>1. PICK link \in L!PageLinks \cup L!ServerLinks(L!Read(store)) :
          cached' = [link |-> link, seen |-> L!Read(store), shown |-> L!Proposal(link, L!Read(store).set),
                   warned |-> L!Warned(L!Read(store))]
  BY DEF L!Open
<1>2. legacy = Absent /\ answer = Absent /\ UNCHANGED <<store, held, legacy, answer>>
  BY DEF L!Open
<1>3. L!Read(store).set \in Sets \cup {Absent}
  BY ContentsAre DEF SettingsInv
<1>4. /\ L!Proposal(link, L!Read(store).set) \in Sets
      /\ \A f \in DOMAIN link.named : L!Proposal(link, L!Read(store).set)[f] = link.named[f]
  BY <1>3, LinkIsTaken
<1>5. OpenPage(cached')
  BY <1>1, <1>4 DEF OpenPage
<1> QED BY <1>2, <1>5 DEF SettingsInv

LEMMA ConfirmStep == ASSUME SettingsAssumption, SettingsInv, L!Confirm PROVE SettingsInv'
<1> DEFINE s == L!Proposal(cached.link, L!Read(store).set)
<1>1. /\ cached # Absent /\ L!SameFile(cached.seen, L!Read(store))
      /\ legacy' = [set |-> s, step |-> IF L!LiveDefaults(store) = s THEN "same"
                                      ELSE IF L!Read(L!Text(s)).set = s THEN "write" ELSE "failed",
                    flushed |-> FALSE]
      /\ UNCHANGED <<store, held, cached, answer, calls>>
  BY DEF L!Confirm
<1>2. cached.shown \in Sets /\ cached.shown = L!Proposal(cached.link, cached.seen.set)
  BY <1>1 DEF SettingsInv, OpenPage
<1>3. s = cached.shown
  BY <1>1, <1>2 DEF L!SameFile
<1> HIDE DEF s
<1>4. /\ legacy' \in [set : Sets, step : {"same", "write", "failed"}, flushed : BOOLEAN]
      /\ legacy'.set = s
      /\ legacy'.step = "same" => L!LiveDefaults(store) = s
  BY <1>1, <1>2, <1>3
<1>5. UnderWay(legacy, cached)'
  BY <1>1, <1>2, <1>3, <1>4 DEF UnderWay, SaveSteps, L!LiveDefaults
<1> QED BY <1>1, <1>5 DEF SettingsInv

\* One step of a save, the file and its flushes as they must be then.
LEMMA SaveGoes ==
    ASSUME SettingsAssumption, SettingsInv, legacy # Absent, NEW next, NEW flushed \in BOOLEAN,
           legacy' = [legacy EXCEPT !.step = next, !.flushed = flushed],
           UNCHANGED <<cached, answer, calls>>,
           next \in {"written", "flushed", "replaced", "synced", "saved", "failed"},
           next \in {"flushed", "replaced", "synced", "saved"} => flushed,
           next \in {"replaced", "synced", "saved"} => store' = L!Text(legacy.set),
           next \in {"synced", "saved"} => held' = {store'},
           store' \in Contents, held' \subseteq Contents
    PROVE  SettingsInv'
<1>1. legacy \in [set : Sets, step : SaveSteps, flushed : BOOLEAN] /\ legacy.set = cached.shown /\ cached # Absent
  BY DEF SettingsInv, UnderWay
<1>2. legacy' = [set |-> legacy.set, step |-> next, flushed |-> flushed]
  BY <1>1
<1>3. next \in SaveSteps /\ next # "same"
  BY DEF SaveSteps
<1>4. legacy' \in [set : Sets, step : SaveSteps, flushed : BOOLEAN]
      /\ legacy'.set = legacy.set /\ legacy'.step = next /\ legacy'.flushed = flushed
  BY <1>1, <1>2, <1>3
<1>5. UnderWay(legacy, cached)'
  BY <1>1, <1>3, <1>4 DEF UnderWay
<1>6. (cached # Absent => OpenPage(cached))' /\ (answer # Absent => Started(answer))'
  BY DEF SettingsInv
<1> QED BY <1>1, <1>5, <1>6 DEF SettingsInv

LEMMA WriteSteps ==
    ASSUME SettingsAssumption, SettingsInv,
           L!Write \/ L!Flush \/ L!Replace \/ L!SyncDirectory \/ L!ReadBack \/ L!Raises
    PROVE  SettingsInv'
<1>1. legacy # Absent /\ UnderWay(legacy, cached) /\ store \in Contents /\ held \subseteq Contents
  BY DEF SettingsInv, L!Write, L!Flush, L!Replace, L!SyncDirectory, L!ReadBack, L!Raises, L!Writing
<1>2. /\ legacy \in [set : Sets, step : SaveSteps, flushed : BOOLEAN]
      /\ legacy.step \in {"flushed", "replaced", "synced", "saved"} => legacy.flushed
      /\ legacy.step \in {"replaced", "synced", "saved"} => store = L!Text(legacy.set)
      /\ legacy.step \in {"synced", "saved"} => held = {store}
  BY <1>1 DEF UnderWay
<1>3. \A next : L!To(next) => legacy' = [legacy EXCEPT !.step = next, !.flushed = legacy.flushed]
  BY <1>2 DEF L!To
<1>4. CASE L!Write
  BY <1>1, <1>2, <1>3, <1>4, SaveGoes DEF L!Write
<1>5. CASE L!Flush
  BY <1>1, <1>2, <1>5, SaveGoes DEF L!Flush
<1>6. CASE L!Replace
  <2>1. legacy.flushed /\ L!To("replaced") /\ store' = L!Text(legacy.set) /\ held' = held \cup {L!Text(legacy.set)}
    BY <1>2, <1>6 DEF L!Replace, L!Writing, L!LeftByACut
  <2>2. L!Text(legacy.set) \in Contents
    BY <1>2, TextIsContents
  <2>3. UNCHANGED <<cached, answer, calls>>
    BY <1>6 DEF L!Replace
  <2> QED BY <1>1, <1>2, <1>3, <2>1, <2>2, <2>3, SaveGoes
<1>7. CASE L!SyncDirectory
  BY <1>1, <1>2, <1>3, <1>7, SaveGoes DEF L!SyncDirectory, L!Writing
<1>8. CASE L!ReadBack
  BY <1>1, <1>2, <1>3, <1>8, SaveGoes DEF L!ReadBack, L!Writing
<1>9. CASE L!Raises
  BY <1>1, <1>2, <1>3, <1>9, SaveGoes DEF L!Raises
<1> QED BY <1>4, <1>5, <1>6, <1>7, <1>8, <1>9

-----------------------------------------------------------------------------
LEMMA RunSteps ==
    ASSUME SettingsAssumption, SettingsInv, L!Answer \/ L!Launch \/ L!Start \/ L!Boot \/ L!Ends \/ L!Close
    PROVE  SettingsInv'
<1>1. CASE L!Answer
  BY <1>1 DEF L!Answer, SettingsInv, UnderWay
<1>2. CASE L!Launch
  <2>1. /\ legacy # Absent /\ UNCHANGED <<store, held, calls>> /\ cached' = Absent /\ legacy' = Absent
        /\ answer' = [flags |-> legacy.set, shown |-> cached.shown, on |-> Absent, trades |-> Absent]
    BY <1>2 DEF L!Launch, L!Saved, L!Argv
  <2>2. legacy.set \in Sets /\ legacy.set = cached.shown
    BY <2>1 DEF SettingsInv, UnderWay
  <2>3. cached.shown # Absent
    BY <2>2, SetFacts
  <2>4. Started(answer')
    BY <2>1, <2>2, <2>3 DEF Started
  <2> QED BY <2>1, <2>4 DEF SettingsInv
<1>3. CASE L!Start
  <2>1. PICK flags \in Typed :
            answer' = [flags |-> flags, shown |-> Absent, on |-> Absent, trades |-> Absent]
    BY <1>3 DEF L!Start
  <2>2. Started(answer')
    BY <2>1 DEF Started
  <2>3. UNCHANGED <<store, held, cached, legacy, calls>>
    BY <1>3 DEF L!Start
  <2> QED BY <2>2, <2>3 DEF SettingsInv, UnderWay
<1>4. CASE L!Boot
  <2>1. /\ answer # Absent /\ UNCHANGED <<store, held, cached, legacy, calls>>
        /\ answer' = [answer EXCEPT !.on = store, !.trades = L!Resolve(answer.flags, store)]
    BY <1>4 DEF L!Boot
  <2>2. Started(answer) /\ store \in Contents
    BY <2>1 DEF SettingsInv
  <2>3. answer' = [flags |-> answer.flags, shown |-> answer.shown, on |-> store,
                trades |-> L!Resolve(answer.flags, store)]
    BY <2>1, <2>2 DEF Started
  <2>4. Started(answer')
    BY <2>2, <2>3 DEF Started
  <2> QED BY <2>1, <2>4 DEF SettingsInv, UnderWay
<1>5. CASE L!Ends
  BY <1>5 DEF L!Ends, SettingsInv, UnderWay
<1>6. CASE L!Close
  BY <1>6 DEF L!Close, SettingsInv, UnderWay
<1> QED BY <1>1, <1>2, <1>3, <1>4, <1>5, <1>6

LEMMA ElsewhereStep ==
    ASSUME SettingsAssumption, SettingsInv, L!SavedElsewhere \/ L!PowerCut PROVE SettingsInv'
<1>1. CASE L!SavedElsewhere
  <2>1. PICK s \in Others \cup {Absent} :
            store' = (IF s = Absent THEN Absent ELSE L!Text(s)) /\ held' = {store'}
    BY <1>1 DEF L!SavedElsewhere
  <2>2. legacy = Absent /\ UNCHANGED <<cached, legacy, answer, calls>>
    BY <1>1 DEF L!SavedElsewhere
  <2>3. store' \in Contents
    BY <2>1 DEF SettingsAssumption, Contents
  <2> QED BY <2>1, <2>2, <2>3 DEF SettingsInv
<1>2. CASE L!PowerCut
  BY <1>2 DEF L!PowerCut, SettingsInv
<1> QED BY <1>1, <1>2

LEMMA SettingsStep ==
    ASSUME SettingsAssumption, SettingsInv, [L!Next]_(L!vars) PROVE SettingsInv'
<1>1. CASE UNCHANGED L!vars
  BY <1>1 DEF L!vars, SettingsInv, UnderWay
<1>2. CASE L!Next
  BY <1>2, OpenStep, ConfirmStep, WriteSteps, RunSteps, ElsewhereStep DEF L!Next
<1> QED BY <1>1, <1>2

-----------------------------------------------------------------------------
\* The settings of a run, its flags over those of the file.
LEMMA RunIsAsked == SettingsAssumption /\ SettingsInv => L!RunsAreAsked
<1> SUFFICES ASSUME SettingsAssumption, SettingsInv, answer # Absent, answer.on # Absent
             PROVE  /\ answer.trades # Absent => L!Legal(answer.trades) /\ L!Read(answer.on).is = "saved"
                    /\ answer.shown # Absent => answer.trades \in {answer.shown, Absent}
                    /\ answer.shown # Absent /\ L!Read(answer.on).is = "saved" => answer.trades = answer.shown
                    /\ answer.trades # Absent => \A f \in L!Fields \ DOMAIN answer.flags :
                           \/ answer.trades[f] = L!Read(answer.on).set[f]
                           \/ f \in {"move", "until"} /\ ~answer.trades["rebalance"]
                           \/ f = "days" /\ answer.trades["sell"] = Absent
                    /\ L!Read(answer.on).is = "saved"
                         /\ answer.flags \in {[rebalance |-> FALSE], [sell |-> Absent]}
                             => answer.trades # Absent
  BY DEF L!RunsAreAsked
<1> DEFINE ref  == L!Read(answer.on).set
           laid == L!Laid(answer.flags, ref)
<1>1. /\ answer.shown \in Sets \cup {Absent}
      /\ IF answer.shown = Absent THEN answer.flags \in Typed ELSE answer.flags = answer.shown
      /\ answer.on \in Contents /\ answer.trades = L!Resolve(answer.flags, answer.on)
  BY DEF SettingsInv, Started
<1>2. /\ L!Read(answer.on).is = "saved" => ref \in Sets
      /\ L!LiveDefaults(answer.on) = IF L!Read(answer.on).is = "saved" THEN ref ELSE Absent
  BY <1>1, ContentsAre
<1>3. L!Read(answer.on).is = "saved" => ref # Absent
  BY <1>2, SetFacts
<1>4. answer.trades = IF L!Read(answer.on).is = "saved" /\ L!Legal(laid) THEN laid ELSE Absent
  BY <1>1, <1>2, <1>3 DEF L!Resolve
<1>5. \A f \in L!Fields : laid[f] = IF f \in DOMAIN answer.flags THEN answer.flags[f]
                                  ELSE IF f \in L!Cleared(answer.flags) THEN Absent ELSE ref[f]
  BY DEF L!Laid
<1>6. "rebalance" \in DOMAIN answer.flags => answer.flags["rebalance"] \in BOOLEAN
  BY <1>1, SetFacts DEF SettingsAssumption
<1>7. {"rest", "lo", "hi", "rebalance", "move", "until", "sell", "days"} \subseteq L!Fields
  BY DEF L!Fields
<1>8. laid \in [L!Fields -> {laid[f] : f \in L!Fields}]
  BY DEF L!Laid
<1>9. ASSUME answer.shown # Absent PROVE laid = answer.shown /\ L!Legal(laid)
  <2>1. answer.flags \in [L!Fields -> FieldValues] /\ L!Legal(answer.flags) /\ answer.flags = answer.shown
    BY <1>1, <1>9, SetFacts
  <2>2. laid = [f \in L!Fields |-> answer.flags[f]]
    BY <2>1 DEF L!Laid
  <2> QED BY <2>1, <2>2
<1>10. L!OnGrid(Absent)
  BY DEF L!OnGrid
<1>11. ASSUME L!Read(answer.on).is = "saved", answer.flags = [rebalance |-> FALSE]
       PROVE  answer.trades # Absent
  <2>1. DOMAIN answer.flags = {"rebalance"} /\ answer.flags["rebalance"] = FALSE
    BY <1>11
  <2>2. {"move", "until"} \subseteq L!Cleared(answer.flags)
        /\ L!Cleared(answer.flags) \subseteq {"move", "until", "days"}
    BY <2>1 DEF L!Cleared, L!Held
  <2>3. ref \in [L!Fields -> FieldValues] /\ L!Legal(ref)
    BY <1>2, <1>11, SetFacts
  <2> HIDE DEF ref, laid
  <2>4. /\ laid["rebalance"] = FALSE /\ laid["move"] = Absent /\ laid["until"] = Absent
        /\ \A f \in {"rest", "lo", "hi", "sell"} : laid[f] = ref[f]
        /\ laid["days"] \in {Absent, ref["days"]}
    BY <2>1, <2>2, <1>5, <1>7
  <2>5. L!Legal(laid)
    BY <2>3, <2>4, <1>10, LegalIs
  <2>6. \A f \in L!Fields : laid[f] \in FieldValues
    BY <2>1, <2>3, <1>5 DEF SettingsAssumption
  <2>7. laid \in [L!Fields -> FieldValues] /\ L!Fields \in SUBSET L!Fields
    BY <2>6, <1>8
  <2>8. laid # Absent
    BY <2>7 DEF SettingsAssumption
  <2> QED BY <2>5, <2>8, <1>4, <1>11
<1>12. ASSUME L!Read(answer.on).is = "saved", answer.flags = [sell |-> Absent]
       PROVE  answer.trades # Absent
  <2>1. DOMAIN answer.flags = {"sell"} /\ answer.flags["sell"] = Absent
    BY <1>12
  <2>2. L!Cleared(answer.flags) = {"days"}
    BY <2>1 DEF L!Cleared, L!Held
  <2>3. ref \in [L!Fields -> FieldValues] /\ L!Legal(ref)
    BY <1>2, <1>12, SetFacts
  <2> HIDE DEF ref, laid
  <2>4. /\ laid["sell"] = Absent /\ laid["days"] = Absent
        /\ \A f \in {"rest", "lo", "hi", "rebalance", "move", "until"} : laid[f] = ref[f]
    BY <2>1, <2>2, <1>5, <1>7
  <2>5. L!Legal(laid)
    BY <2>3, <2>4, <1>10, LegalIs
  <2>6. \A f \in L!Fields : laid[f] \in FieldValues
    BY <2>1, <2>3, <1>5 DEF SettingsAssumption
  <2>7. laid \in [L!Fields -> FieldValues] /\ L!Fields \in SUBSET L!Fields
    BY <2>6, <1>8
  <2>8. laid # Absent
    BY <2>7 DEF SettingsAssumption
  <2> QED BY <2>5, <2>8, <1>4, <1>12
<1>13. ASSUME answer.trades # Absent, NEW f \in L!Fields \ DOMAIN answer.flags
       PROVE  \/ answer.trades[f] = ref[f]
              \/ f \in {"move", "until"} /\ ~answer.trades["rebalance"]
              \/ f = "days" /\ answer.trades["sell"] = Absent
  <2>1. answer.trades = laid
    BY <1>4, <1>13
  <2> HIDE DEF laid, ref
  <2>2. CASE f \notin L!Cleared(answer.flags)
    BY <2>1, <2>2, <1>5
  <2>3. CASE f \in {"move", "until"} /\ ~L!Held(answer.flags, "rebalance", TRUE)
    <3>1. "rebalance" \in DOMAIN answer.flags /\ ~answer.flags["rebalance"]
      BY <2>3 DEF L!Held
    <3>2. laid["rebalance"] = answer.flags["rebalance"]
      BY <3>1, <1>5, <1>7
    <3> QED BY <2>1, <2>3, <3>1, <3>2, <1>6
  <2>4. CASE f = "days" /\ L!Held(answer.flags, "sell", 0) = Absent
    <3>1. "sell" \in DOMAIN answer.flags /\ answer.flags["sell"] = Absent
      BY <2>4 DEF L!Held, SettingsAssumption
    <3>2. laid["sell"] = Absent
      BY <3>1, <1>5, <1>7
    <3> QED BY <2>1, <2>4, <3>2
  <2> QED BY <2>2, <2>3, <2>4 DEF L!Cleared
<1> HIDE DEF ref, laid
<1>14. answer.trades # Absent => L!Legal(answer.trades) /\ L!Read(answer.on).is = "saved"
  BY <1>4
<1>15. /\ answer.shown # Absent => answer.trades \in {answer.shown, Absent}
       /\ answer.shown # Absent /\ L!Read(answer.on).is = "saved" => answer.trades = answer.shown
  BY <1>4, <1>9
<1> QED BY <1>11, <1>12, <1>13, <1>14, <1>15 DEF ref

\* What an older version left out, or did by half only, stays so.
LEMMA OldIsKept ==
    ASSUME SettingsAssumption, SettingsInv PROVE L!NothingWidensUnsaid
<1> SUFFICES ASSUME L!Read(store).is = "outdated"
             PROVE  /\ L!LiveDefaults(store) = Absent
                    /\ L!Read(store).set # Absent =>
                         /\ (\E row \in Listed : L!NewKeeps(L!Read(store).set, row) /\ ~L!OldKeeps(store, row))
                                => L!Warned(L!Read(store))
                         /\ L!Switches \cap DOMAIN store # {} =>
                              /\ L!Read(store).set["rebalance"] <=>
                                   L!Held(store, "add", FALSE) /\ L!Held(store, "trim", FALSE)
                              /\ L!Read(store).set["rebalance"] =>
                                   L!Read(store).set["move"] = L!Held(store, "rise", Absent)
  BY DEF L!NothingWidensUnsaid
<1>1. store \in OldFiles
  BY ContentsAre DEF SettingsInv
<1>2. L!LiveDefaults(store) = Absent
  BY DEF L!LiveDefaults
<1>3. /\ L!Read(store) = [is |-> "outdated", set |-> L!RetiredProposal(store), widens |-> L!Widens(store)]
      /\ L!Read(store).set = L!RetiredProposal(store)
  BY <1>1, OldIsRead
<1>4. ASSUME L!RetiredProposal(store) # Absent,
             NEW row \in Listed, L!NewKeeps(L!RetiredProposal(store), row), ~L!OldKeeps(store, row)
      PROVE  L!Warned(L!Read(store))
  <2>1. CASE L!Held(store, "categories", Absent) # Absent \/ L!Held(store, "oldtags", Absent) # Absent
    BY <2>1, <1>3, <1>4 DEF L!Warned, L!Widens
  <2>2. CASE L!Held(store, "categories", Absent) = Absent /\ L!Held(store, "oldtags", Absent) = Absent
    <3>1. L!Held(store, "cats", Absent) # Absent /\ row[1] \in store["cats"]
      BY <2>2, <1>4 DEF L!OldKeeps, L!Held
    <3>2. "cats" \in DOMAIN store /\ store["cats"] # Absent
      BY <3>1 DEF L!Held
    <3>3. ~L!TwoThings(store)
      BY <1>4 DEF L!RetiredProposal
    <3>4. "categories" \notin DOMAIN store
      BY <3>2, <3>3 DEF L!TwoThings
    <3>5. L!RetiredProposal(store)["cats"] = store["cats"]
      BY <3>4, <1>1, <1>4, RetiredIs
    <3> QED BY <3>1, <3>2, <3>5, <1>4 DEF L!NewKeeps
  <2> QED BY <2>1, <2>2
<1>5. ASSUME L!RetiredProposal(store) # Absent, L!Switches \cap DOMAIN store # {}
      PROVE  /\ L!RetiredProposal(store)["rebalance"] <=>
                     L!Held(store, "add", FALSE) /\ L!Held(store, "trim", FALSE)
             /\ L!RetiredProposal(store)["rebalance"] =>
                     L!RetiredProposal(store)["move"] = L!Held(store, "rise", Absent)
  <2>1. /\ L!RetiredProposal(store)["rebalance"] = L!BothSwitches(store)
        /\ L!RetiredProposal(store)["move"] =
               IF L!BothSwitches(store) THEN L!Held(store, "rise", Absent) ELSE Absent
    BY <1>1, <1>5, RetiredIs
  <2> QED BY <2>1 DEF L!BothSwitches
<1> QED BY <1>2, <1>3, <1>4, <1>5

\* The file, and what a power cut may leave, can be read; a save is the page's.
LEMMA FileStaysWhole ==
    ASSUME SettingsAssumption, SettingsInv PROVE L!FileIsWhole
<1>1. \A c \in held \cup {store} : L!Read(c).is # "refused"
  BY ContentsAre DEF SettingsInv
<1>2. ASSUME L!Saved PROVE legacy.set = cached.shown /\ L!LiveDefaults(store) = legacy.set
  <2>1. UnderWay(legacy, cached) /\ legacy.step \in {"same", "saved"}
    BY <1>2 DEF SettingsInv, L!Saved
  <2>2. legacy.set \in Sets
    BY <2>1 DEF UnderWay
  <2> QED BY <2>1, <2>2, TextIsContents DEF UnderWay
<1>3. ASSUME L!Writing("saved"), NEW c \in held PROVE L!LiveDefaults(c) = legacy.set
  <2>1. UnderWay(legacy, cached) /\ legacy.step = "saved"
    BY <1>3 DEF SettingsInv, L!Writing
  <2>2. c = L!Text(legacy.set) /\ legacy.set \in Sets
    BY <2>1, <1>3 DEF UnderWay
  <2> QED BY <2>2, TextIsContents
<1> QED BY <1>1, <1>2, <1>3 DEF L!FileIsWhole

\* A behaviour of Stores that is about the settings takes steps of theirs.
LEMMA InSettingsStep ==
    ASSUME [StoresNext]_<<part, vars, side>>, part' = "settings"
    PROVE  part = "settings" /\ [L!Next]_(L!vars)
<1>1. UNCHANGED <<part, vars, side>> => part = "settings" /\ UNCHANGED L!vars
  BY DEF side, L!vars
<1>2. StoresNext => part = "settings" /\ L!Next
  BY DEF StoresNext, InCorpus, InEvents, InMarket, InSettings, L!Next
<1> QED BY <1>1, <1>2

LEMMA SettingsAlways ==
    ASSUME SettingsAssumption PROVE StoresSpec => [](part = "settings" => SettingsInv)
<1> DEFINE I == part = "settings" => SettingsInv
<1>1. StoresInit => I
  BY SettingsStart DEF StoresInit
<1>2. I /\ [StoresNext]_<<part, vars, side>> => I'
  BY SettingsStep, InSettingsStep
<1> QED BY <1>1, <1>2, PTL DEF StoresSpec

\* Whatever pages show, files hold and flags say, and whatever is saved in
\* between: a run started from a page trades what the page showed or nothing, and
\* every link a page may hold is accepted as it stands.
THEOREM RunsTradeWhatWasAsked ==
    ASSUME SettingsAssumption PROVE StoresSpec => []RunsAreAsked
<1>1. SettingsInv => L!RunsAreAsked
  BY RunIsAsked
<1>2. SettingsInv => L!LinksAreTaken
  BY SetFacts DEF SettingsInv, OpenPage, L!LinksAreTaken
<1>3. (part = "settings" => SettingsInv) => RunsAreAsked
  BY <1>1, <1>2 DEF RunsAreAsked
<1> QED BY <1>3, SettingsAlways, PTL

\* The file is whole at every moment and after a power cut, a save holds what its
\* page showed, and an older version's file never trades more unsaid.
THEOREM SettingsStayWhole ==
    ASSUME SettingsAssumption PROVE StoresSpec => []SettingsAreKept
<1>1. SettingsInv => L!SettingsAreKept
  BY OldIsKept, FileStaysWhole DEF L!SettingsAreKept
<1>2. (part = "settings" => SettingsInv) => SettingsAreKept
  BY <1>1 DEF SettingsAreKept
<1> QED BY <1>2, SettingsAlways, PTL

-----------------------------------------------------------------------------
(* What is known of the events (EventStore).                                   *)

\* The answers read one at a time: those kept or returned are Kalshi's.
AnswersInv ==
    /\ held \in [E!Events -> {"x", E!Unread}]
    /\ cached # Damaged =>
          /\ cached \in [E!Events -> {Absent, "x", E!Unread}]
          /\ \A e \in E!Events : cached[e] \in {Absent, E!Unread, held[e]}
    /\ answer # Absent =>
          /\ answer.found \in [E!Events -> {Absent, "x"}]
          /\ \A e \in E!Events : answer.found[e] \in {Absent, held[e]}

\* The titles: what was returned is what is on disk.
Titles == [E!Events -> {Absent, "", "t", "u"}]
TitlesInv ==
    /\ held \in [E!Events -> {"t", "u", ""}]
    /\ cached \notin {Absent, Damaged} => cached \in Titles
    /\ legacy \notin {Absent, Damaged} => legacy \in [E!Events -> {Absent, "", "t"}]
    /\ E!TitlesAreAnswered

\* The listing of series: the copy is never ahead of Kalshi, and the labels that
\* were returned are never ahead of the copy.
SeriesInv ==
    /\ held \in Nat
    /\ cached # Absent => /\ cached \in [version : Nat, age : {0, MaxAge}, fees : BOOLEAN]
                          /\ cached.version <= held
    /\ answer # Absent =>
          /\ answer = [labels |-> answer.labels, fees |-> answer.fees, saved |-> answer.saved]
          /\ {answer.labels, answer.fees} \subseteq Nat \cup {Absent}
          /\ answer.saved /\ answer.labels # Absent =>
                /\ cached \in [version : Nat, age : {0, MaxAge}, fees : BOOLEAN]
                /\ answer.labels <= cached.version /\ cached.version <= held
                /\ answer.fees # Absent => answer.labels <= answer.fees

EventInv ==
    /\ store \in {"answers", "titles", "series"}
    /\ store = "answers" => AnswersInv
    /\ store = "titles" => TitlesInv
    /\ store = "series" => SeriesInv

LEMMA EventStart == E!Init => EventInv
<1>1. ASSUME E!AnswersInit PROVE EventInv
  <2>1. store = "answers" /\ AnswersInv
    BY <1>1 DEF E!AnswersInit, AnswersInv
  <2> QED BY <2>1 DEF EventInv
<1>2. ASSUME E!TitlesInit PROVE EventInv
  <2>1. store = "titles"
    BY <1>2 DEF E!TitlesInit
  <2>2. TitlesInv
    BY <1>2 DEF E!TitlesInit, TitlesInv, Titles, E!Nothing, E!TitlesAreAnswered
  <2> QED BY <2>1, <2>2 DEF EventInv
<1>3. ASSUME E!SeriesInit PROVE EventInv
  <2>1. store = "series" /\ SeriesInv
    BY <1>3 DEF E!SeriesInit, SeriesInv
  <2> QED BY <2>1 DEF EventInv
<1> QED BY <1>1, <1>2, <1>3 DEF E!Init

-----------------------------------------------------------------------------
\* One call for answers.
LEMMA AnswersStep ==
    ASSUME AnswersInv, E!LoadAnswers
    PROVE  AnswersInv' /\ E!AnswersAreKept
<1>1. PICK wanted \in SUBSET E!Events, early \in SUBSET E!Events, client \in BOOLEAN,
           read \in {"ok", "missed", "raised"}, saved \in BOOLEAN :
        LET copied  == IF read = "ok" /\ cached # Damaged THEN E!Parsed(cached) ELSE E!Nothing
            missing == wanted \ E!Known(copied)
            reads   == IF client THEN E!ToRead(missing, early) ELSE {}
        IN  \E failed \in SUBSET reads :
                LET fresh == E!Answered(reads, failed)
                IN  /\ answer' = [found |-> E!Over(fresh, E!Only(copied, wanted)),
                                  lost |-> read = "missed" \/ cached = Damaged]
                    /\ cached' = IF E!Known(fresh) # {} /\ read # "raised" /\ saved
                               THEN E!Over(fresh, copied) ELSE cached
  BY DEF E!LoadAnswers
<1> DEFINE copied  == IF read = "ok" /\ cached # Damaged THEN E!Parsed(cached) ELSE E!Nothing
           missing == wanted \ E!Known(copied)
           reads   == IF client THEN E!ToRead(missing, early) ELSE {}
<1>2. PICK failed \in SUBSET reads :
                LET fresh == E!Answered(reads, failed)
                IN  /\ answer' = [found |-> E!Over(fresh, E!Only(copied, wanted)),
                                  lost |-> read = "missed" \/ cached = Damaged]
                    /\ cached' = IF E!Known(fresh) # {} /\ read # "raised" /\ saved
                               THEN E!Over(fresh, copied) ELSE cached
  BY <1>1
<1> DEFINE fresh == E!Answered(reads, failed)
<1>3. store = "answers" /\ UNCHANGED <<store, held, legacy>>
  BY DEF E!LoadAnswers
<1>4. /\ copied \in [E!Events -> {Absent, "x"}]
      /\ \A e \in E!Events : copied[e] \in {Absent, held[e]}
      /\ read = "ok" /\ cached # Damaged =>
            \A e \in E!Events : cached[e] # E!Unread => copied[e] = cached[e]
  BY DEF AnswersInv, E!Parsed, E!Nothing
<1>5. /\ fresh \in [E!Events -> {Absent, "x"}]
      /\ \A e \in E!Events : fresh[e] \in {Absent, held[e]}
  BY DEF AnswersInv, E!Answered
<1> HIDE DEF copied, reads, fresh
<1>6. /\ answer'.found = E!Over(fresh, E!Only(copied, wanted))
      /\ answer'.lost <=> (read = "missed" \/ cached = Damaged)
      /\ cached' \in {E!Over(fresh, copied), cached} /\ (read = "raised" => cached' = cached)
  BY <1>2 DEF fresh
<1>7. /\ E!Over(fresh, E!Only(copied, wanted)) \in [E!Events -> {Absent, "x"}]
      /\ \A e \in E!Events : E!Over(fresh, E!Only(copied, wanted))[e] \in {Absent, held[e]}
  BY <1>4, <1>5 DEF E!Over, E!Only
<1>8. /\ E!Over(fresh, copied) \in [E!Events -> {Absent, "x"}]
      /\ \A e \in E!Events : E!Over(fresh, copied)[e] \in {Absent, held[e]}
      /\ \A e \in E!Events : copied[e] = held[e] => E!Over(fresh, copied)[e] = held[e]
  BY <1>4, <1>5 DEF E!Over
<1>9. AnswersInv'
  BY <1>3, <1>6, <1>7, <1>8 DEF AnswersInv
<1>10. E!AnswersAreKept
  <2> SUFFICES ASSUME cached # Damaged, ~answer'.lost, NEW e \in E!Events,
                      cached[e] = held[e], held[e] # E!Unread
               PROVE  cached'[e] = cached[e]
    BY DEF E!AnswersAreKept
  <2>1. read \in {"ok", "raised"}
    BY <1>6
  <2> QED BY <1>4, <1>6, <1>8, <2>1
<1> QED BY <1>9, <1>10

-----------------------------------------------------------------------------
\* What the accumulator starts from.
LEMMA AccumulatorIs ==
    ASSUME E!EventAssumption, TitlesInv, NEW read \in BOOLEAN, NEW readLegacy \in BOOLEAN,
           NEW acc, acc = E!Accumulator(read, readLegacy)
    PROVE  /\ acc.titles \in Titles
           /\ acc.persist /\ cached \notin {Absent, Damaged} => acc.titles = cached
           /\ cached = Absent /\ legacy \notin {Absent, Damaged} =>
                IF acc.persist
                THEN /\ acc.rewrite
                     /\ \A e \in E!Events : legacy[e] = "t" => acc.titles[e] = "t"
                ELSE ~acc.migrated
<1> DEFINE is(t, r, m, p) == [titles |-> t, rewrite |-> r, migrated |-> m, persist |-> p]
           old == [e \in E!Events |-> IF legacy[e] = "" THEN Absent ELSE legacy[e]]
<1>1. E!Nothing \in Titles
  BY DEF E!Nothing, Titles
<1>2. Absent # Damaged /\ Absent \notin {"t", "u"}
  BY DEF E!EventAssumption
<1>3. legacy \notin {Absent, Damaged} =>
         old \in [E!Events -> {Absent, "t"}] /\ \A e \in E!Events : legacy[e] = "t" => old[e] = "t"
  <2> SUFFICES ASSUME legacy \notin {Absent, Damaged}
               PROVE  old \in [E!Events -> {Absent, "t"}] /\ \A e \in E!Events : legacy[e] = "t" => old[e] = "t"
    OBVIOUS
  <2>1. legacy \in [E!Events -> {Absent, "", "t"}]
    BY DEF TitlesInv
  <2> QED BY <2>1
<1> HIDE DEF old
<1>4. CASE cached # Absent /\ ~read
  <2>1. acc = is(E!Nothing, FALSE, FALSE, FALSE)
    BY <1>4 DEF E!Accumulator
  <2>2. acc.titles = E!Nothing /\ ~acc.persist /\ ~acc.rewrite /\ ~acc.migrated
    BY <2>1
  <2> QED BY <1>1, <1>4, <2>2
<1>5. CASE cached = Damaged /\ read
  <2>1. acc = is(E!Nothing, TRUE, FALSE, TRUE)
    BY <1>2, <1>5 DEF E!Accumulator
  <2>2. acc.titles = E!Nothing /\ acc.persist /\ acc.rewrite /\ ~acc.migrated
    BY <2>1
  <2> QED BY <1>1, <1>2, <1>5, <2>2
<1>6. CASE cached \notin {Absent, Damaged} /\ read
  <2>1. acc = is(cached, FALSE, FALSE, TRUE)
    BY <1>2, <1>6 DEF E!Accumulator
  <2>2. acc.titles = cached /\ acc.persist /\ ~acc.rewrite /\ ~acc.migrated
    BY <2>1
  <2> QED BY <1>6, <2>2 DEF TitlesInv
<1>7. CASE cached = Absent /\ legacy = Absent
  <2>1. acc = is(E!Nothing, FALSE, FALSE, TRUE)
    BY <1>2, <1>7 DEF E!Accumulator
  <2>2. acc.titles = E!Nothing /\ acc.persist /\ ~acc.rewrite /\ ~acc.migrated
    BY <2>1
  <2> QED BY <1>1, <1>7, <2>2
<1>8. CASE cached = Absent /\ legacy # Absent /\ ~readLegacy
  <2>1. acc = is(E!Nothing, FALSE, FALSE, FALSE)
    BY <1>2, <1>8 DEF E!Accumulator
  <2>2. acc.titles = E!Nothing /\ ~acc.persist /\ ~acc.rewrite /\ ~acc.migrated
    BY <2>1
  <2> QED BY <1>1, <1>8, <2>2
<1>9. CASE cached = Absent /\ legacy = Damaged /\ readLegacy
  <2>1. acc = is(E!Nothing, TRUE, FALSE, TRUE)
    BY <1>2, <1>9 DEF E!Accumulator
  <2>2. acc.titles = E!Nothing /\ acc.persist /\ acc.rewrite /\ ~acc.migrated
    BY <2>1
  <2> QED BY <1>1, <1>9, <2>2
<1>10. CASE cached = Absent /\ legacy \notin {Absent, Damaged} /\ readLegacy
  <2>1. acc = is(old, TRUE, TRUE, TRUE)
    BY <1>2, <1>10 DEF E!Accumulator, old
  <2>2. acc.titles = old /\ acc.persist /\ acc.rewrite /\ acc.migrated
    BY <2>1
  <2>3. old \in Titles
    BY <1>3, <1>10 DEF Titles
  <2> QED BY <1>3, <1>10, <2>2, <2>3
<1> QED BY <1>4, <1>5, <1>6, <1>7, <1>8, <1>9, <1>10

\* One call for titles: a title is never lost, and what is stored is returned.
LEMMA TitlesStep ==
    ASSUME E!EventAssumption, TitlesInv, E!LoadTitles
    PROVE  TitlesInv' /\ E!TitlesAreKept /\ E!LegacyIsKept
<1>1. store = "titles" /\ UNCHANGED <<store, held>>
  BY DEF E!LoadTitles
<1>2. PICK wanted \in (SUBSET E!Events) \ {{}}, use \in BOOLEAN, read \in BOOLEAN, readLegacy \in BOOLEAN :
        LET acc        == E!Accumulator(read, readLegacy)
            unresolved == {e \in wanted : ~(use /\ acc.titles[e] # Absent)}
        IN  \E listed \in SUBSET unresolved :
            LET looked == E!LookedUp(unresolved \ listed, acc.titles)
            IN  \E failed \in SUBSET looked :
                LET fresh  == [e \in E!Events |->
                                  IF e \in failed THEN ""
                                  ELSE IF e \in listed \cup looked THEN held[e] ELSE Absent]
                    merged == E!Merged(fresh, acc.titles)
                    write  == acc.persist /\ (merged # acc.titles \/ acc.rewrite)
                IN  /\ cached' = IF write THEN merged ELSE cached
                    /\ legacy' \in IF write /\ acc.migrated THEN {legacy, Absent} ELSE {legacy}
                    /\ answer' = [titles |-> E!Only(merged, wanted), wanted |-> wanted,
                                  stored |-> acc.persist]
  BY DEF E!LoadTitles
<1> DEFINE acc        == E!Accumulator(read, readLegacy)
           unresolved == {e \in wanted : ~(use /\ acc.titles[e] # Absent)}
<1>3. PICK listed \in SUBSET unresolved :
            LET looked == E!LookedUp(unresolved \ listed, acc.titles)
            IN  \E failed \in SUBSET looked :
                LET fresh  == [e \in E!Events |->
                                  IF e \in failed THEN ""
                                  ELSE IF e \in listed \cup looked THEN held[e] ELSE Absent]
                    merged == E!Merged(fresh, acc.titles)
                    write  == acc.persist /\ (merged # acc.titles \/ acc.rewrite)
                IN  /\ cached' = IF write THEN merged ELSE cached
                    /\ legacy' \in IF write /\ acc.migrated THEN {legacy, Absent} ELSE {legacy}
                    /\ answer' = [titles |-> E!Only(merged, wanted), wanted |-> wanted,
                                  stored |-> acc.persist]
  BY <1>2
<1> DEFINE looked == E!LookedUp(unresolved \ listed, acc.titles)
<1>4. PICK failed \in SUBSET looked :
                LET fresh  == [e \in E!Events |->
                                  IF e \in failed THEN ""
                                  ELSE IF e \in listed \cup looked THEN held[e] ELSE Absent]
                    merged == E!Merged(fresh, acc.titles)
                    write  == acc.persist /\ (merged # acc.titles \/ acc.rewrite)
                IN  /\ cached' = IF write THEN merged ELSE cached
                    /\ legacy' \in IF write /\ acc.migrated THEN {legacy, Absent} ELSE {legacy}
                    /\ answer' = [titles |-> E!Only(merged, wanted), wanted |-> wanted,
                                  stored |-> acc.persist]
  BY <1>3
<1> DEFINE fresh  == [e \in E!Events |->
                         IF e \in failed THEN ""
                         ELSE IF e \in listed \cup looked THEN held[e] ELSE Absent]
           merged == E!Merged(fresh, acc.titles)
           write  == acc.persist /\ (merged # acc.titles \/ acc.rewrite)
<1>5. fresh \in Titles
  BY DEF TitlesInv, Titles
<1> HIDE DEF fresh, looked, unresolved
<1>6. /\ cached' = IF write THEN merged ELSE cached
      /\ legacy' \in IF write /\ acc.migrated THEN {legacy, Absent} ELSE {legacy}
      /\ answer'.titles = E!Only(merged, wanted) /\ answer'.wanted = wanted
      /\ answer'.stored <=> acc.persist
  BY <1>4 DEF fresh, looked
<1>7. acc = E!Accumulator(read, readLegacy)
  OBVIOUS
<1> HIDE DEF acc
<1>8. /\ acc.titles \in Titles
      /\ acc.persist /\ cached \notin {Absent, Damaged} => acc.titles = cached
      /\ cached = Absent /\ legacy \notin {Absent, Damaged} =>
           IF acc.persist
           THEN /\ acc.rewrite
                /\ \A e \in E!Events : legacy[e] = "t" => acc.titles[e] = "t"
           ELSE ~acc.migrated
  BY <1>7, AccumulatorIs
<1>9. /\ merged \in Titles
      /\ \A e \in E!Events : acc.titles[e] \in {"t", "u"} => merged[e] \in {"t", "u"}
      /\ \A e \in wanted : E!Only(merged, wanted)[e] = merged[e]
  BY <1>5, <1>8 DEF E!Merged, Titles, E!Only, E!EventAssumption
<1> HIDE DEF merged
<1>10. TitlesInv'
  <2>1. (cached \notin {Absent, Damaged} => cached \in Titles)'
    BY <1>6, <1>9 DEF TitlesInv
  <2>2. (legacy \notin {Absent, Damaged} => legacy \in [E!Events -> {Absent, "", "t"}])'
    BY <1>6 DEF TitlesInv
  <2>3. E!TitlesAreAnswered'
    <3> SUFFICES ASSUME cached' \notin {Absent, Damaged}, acc.persist, NEW e \in wanted
                 PROVE  answer'.titles[e] = cached'[e]
      BY <1>6 DEF E!TitlesAreAnswered
    <3>1. CASE write
      BY <1>6, <1>9, <3>1
    <3>2. CASE ~write
      <4>1. cached' = cached /\ merged = acc.titles
        BY <1>6, <3>2
      <4> QED BY <1>6, <1>8, <1>9, <4>1
    <3> QED BY <3>1, <3>2
  <2> QED BY <1>1, <2>1, <2>2, <2>3 DEF TitlesInv
<1>11. E!TitlesAreKept
  <2> SUFFICES ASSUME cached \notin {Absent, Damaged}, NEW e \in E!Events, cached[e] \in {"t", "u"}
               PROVE  cached'[e] \in {"t", "u"}
    BY DEF E!TitlesAreKept
  <2> QED BY <1>6, <1>8, <1>9
<1>12. E!LegacyIsKept
  <2> SUFFICES ASSUME cached = Absent, legacy \notin {Absent, Damaged}
               PROVE  \/ legacy' = legacy /\ cached' = Absent
                      \/ \A e \in E!Events : legacy[e] = "t" => cached'[e] \in {"t", "u"}
    BY DEF E!LegacyIsKept
  <2> QED BY <1>6, <1>8, <1>9
<1> QED BY <1>10, <1>11, <1>12

-----------------------------------------------------------------------------
\* A call for labels, or fees.
LEMMA SeriesStep ==
    ASSUME E!EventAssumption, SeriesInv, store = "series",
           E!Later \/ E!LoadCategories \/ E!LoadFees
    PROVE  SeriesInv'
<1> DEFINE R == [version : Nat, age : {0, MaxAge}, fees : BOOLEAN]
           said(a) ==
             /\ a = [labels |-> a.labels, fees |-> a.fees, saved |-> a.saved]
             /\ {a.labels, a.fees} \subseteq Nat \cup {Absent}
             /\ a.saved /\ a.labels # Absent =>
                   /\ cached' \in R
                   /\ a.labels <= cached'.version /\ cached'.version <= held'
                   /\ a.fees # Absent => a.labels <= a.fees
<1>1. CASE E!Later
  <2>1. answer' = Absent /\ held' \in Nat /\ held <= held'
    BY <1>1 DEF E!Later, SeriesInv
  <2>2. cached' # Absent => cached # Absent /\ cached' = [cached EXCEPT !.age = MaxAge]
    BY <1>1 DEF E!Later
  <2>3. cached' # Absent => cached' \in R /\ cached'.version <= held'
    BY <2>1, <2>2 DEF SeriesInv
  <2> QED BY <2>1, <2>3 DEF SeriesInv
<1>2. E!Listing \in R /\ E!Listing.version = held
  BY DEF E!Listing, SeriesInv
<1>3. CASE E!LoadCategories
  <2>1. PICK client \in BOOLEAN, lists \in BOOLEAN, saved \in BOOLEAN :
        IF client /\ ~E!Young /\ lists
        THEN /\ answer' = [labels |-> held, fees |-> Absent, saved |-> saved]
             /\ cached' = IF saved THEN E!Listing ELSE cached
        ELSE /\ answer' = [labels |-> IF cached = Absent THEN Absent ELSE cached.version, fees |-> Absent,
                           saved |-> TRUE]
             /\ cached' = cached
    BY <1>3 DEF E!LoadCategories
  <2>2. held' = held
    BY <1>3 DEF E!LoadCategories
  <2>3. cached' \in {cached, E!Listing}
    BY <2>1
  <2>4. cached' # Absent => cached' \in R /\ cached'.version <= held'
    BY <1>2, <2>2, <2>3 DEF SeriesInv
  <2>5. said(answer')
    <3>1. CASE client /\ ~E!Young /\ lists
      <4>1. /\ answer' = [labels |-> held, fees |-> Absent, saved |-> saved]
            /\ saved => cached' = E!Listing
        BY <2>1, <3>1
      <4>2. /\ answer'.labels = held /\ answer'.fees = Absent /\ (answer'.saved <=> saved)
            /\ answer' = [labels |-> answer'.labels, fees |-> answer'.fees, saved |-> answer'.saved]
        BY <4>1
      <4> QED BY <1>2, <2>2, <4>1, <4>2 DEF SeriesInv
    <3>2. CASE ~(client /\ ~E!Young /\ lists)
      <4>1. /\ answer' = [labels |-> IF cached = Absent THEN Absent ELSE cached.version, fees |-> Absent,
                          saved |-> TRUE]
            /\ cached' = cached
        BY <2>1, <3>2
      <4>2. /\ answer'.labels = (IF cached = Absent THEN Absent ELSE cached.version) /\ answer'.fees = Absent
            /\ answer' = [labels |-> answer'.labels, fees |-> answer'.fees, saved |-> answer'.saved]
        BY <4>1
      <4> QED BY <2>2, <4>1, <4>2 DEF SeriesInv
    <3> QED BY <3>1, <3>2
  <2> QED BY <2>2, <2>4, <2>5 DEF SeriesInv
<1>4. CASE E!LoadFees
  <2>1. PICK client \in BOOLEAN, lists \in BOOLEAN, saved \in BOOLEAN :
        IF client /\ E!Young /\ ~cached.fees /\ lists
        THEN /\ answer' = [answer EXCEPT !.fees = held]
             /\ cached' = IF saved THEN E!Listing ELSE cached
        ELSE /\ answer' = [answer EXCEPT !.fees =
                              IF cached # Absent /\ cached.fees THEN cached.version ELSE Absent]
             /\ cached' = cached
    BY <1>4 DEF E!LoadFees
  <2>2. held' = held /\ answer # Absent /\ answer.fees = Absent
    BY <1>4 DEF E!LoadFees
  <2>3. cached' \in {cached, E!Listing}
    BY <2>1
  <2>4. cached' # Absent => cached' \in R /\ cached'.version <= held'
    BY <1>2, <2>2, <2>3 DEF SeriesInv
  <2>5. said(answer')
    <3>1. PICK fee \in Nat \cup {Absent} :
             /\ answer' = [answer EXCEPT !.fees = fee]
             /\ fee # Absent => answer.labels = Absent \/ ~answer.saved \/ answer.labels <= fee
      <4>1. CASE client /\ E!Young /\ ~cached.fees /\ lists
        BY <2>1, <2>2, <4>1 DEF SeriesInv
      <4>2. CASE ~(client /\ E!Young /\ ~cached.fees /\ lists)
        BY <2>1, <2>2, <4>2 DEF SeriesInv
      <4> QED BY <4>1, <4>2
    <3>2. answer = [labels |-> answer.labels, fees |-> answer.fees, saved |-> answer.saved]
      BY <2>2 DEF SeriesInv
    <3>3. /\ answer'.labels = answer.labels /\ answer'.fees = fee /\ answer'.saved = answer.saved
          /\ answer' = [labels |-> answer'.labels, fees |-> answer'.fees, saved |-> answer'.saved]
      BY <3>1, <3>2
    <3>4. answer.saved /\ answer.labels # Absent =>
             cached' \in R /\ answer.labels <= cached'.version /\ cached'.version <= held'
      BY <1>2, <2>2, <2>3 DEF SeriesInv
    <3> QED BY <2>2, <3>1, <3>3, <3>4 DEF SeriesInv
  <2> QED BY <2>2, <2>4, <2>5 DEF SeriesInv
<1> QED BY <1>1, <1>3, <1>4

-----------------------------------------------------------------------------
\* Whatever happens to the store, what is kept of it is Kalshi's and stays.
LEMMA EventStep ==
    ASSUME E!EventAssumption, EventInv, [E!Next]_(E!vars)
    PROVE  EventInv' /\ E!Kept
<1>1. CASE E!LoadAnswers
  <2>1. store = "answers" /\ store' = store
    BY <1>1 DEF E!LoadAnswers
  <2>2. AnswersInv' /\ E!AnswersAreKept
    BY <1>1, <2>1, AnswersStep DEF EventInv
  <2> QED BY <2>1, <2>2 DEF EventInv, E!Kept, E!TitlesAreKept, E!LegacyIsKept
<1>2. CASE E!LoadTitles
  <2>1. store = "titles" /\ store' = store
    BY <1>2 DEF E!LoadTitles
  <2>2. TitlesInv' /\ E!TitlesAreKept /\ E!LegacyIsKept
    BY <1>2, <2>1, TitlesStep DEF EventInv
  <2> QED BY <2>1, <2>2 DEF EventInv, E!Kept, E!AnswersAreKept
<1>3. CASE E!Retitle
  <2>1. /\ store = "titles" /\ UNCHANGED <<store, cached, legacy, answer, calls>>
        /\ \E e \in E!Events : held' = [held EXCEPT ![e] = "u"]
    BY <1>3 DEF E!Retitle
  <2>2. TitlesInv
    BY <2>1 DEF EventInv
  <2>3. TitlesInv'
    BY <2>1, <2>2 DEF TitlesInv, Titles, E!TitlesAreAnswered
  <2> QED BY <2>1, <2>3 DEF EventInv, E!Kept, E!AnswersAreKept, E!TitlesAreKept, E!LegacyIsKept
<1>4. CASE E!Later \/ E!LoadCategories \/ E!LoadFees
  <2>1. store = "series" /\ store' = store
    BY <1>4 DEF E!Later, E!LoadCategories, E!LoadFees
  <2>2. SeriesInv'
    BY <1>4, <2>1, SeriesStep DEF EventInv
  <2> QED BY <2>1, <2>2 DEF EventInv, E!Kept, E!AnswersAreKept, E!TitlesAreKept, E!LegacyIsKept
<1>5. CASE UNCHANGED E!vars
  <2>1. UNCHANGED <<store, held, cached, legacy, answer, calls>>
    BY <1>5 DEF E!vars
  <2>2. EventInv'
    BY <2>1 DEF EventInv, AnswersInv, TitlesInv, E!TitlesAreAnswered, SeriesInv
  <2>3. E!Kept
    BY <2>1 DEF EventInv, AnswersInv, E!Kept, E!AnswersAreKept, E!TitlesAreKept, E!LegacyIsKept
  <2> QED BY <2>2, <2>3
<1> QED BY <1>1, <1>2, <1>3, <1>4, <1>5 DEF E!Next

\* What the invariant says of it.
LEMMA EventInvGives ==
    ASSUME EventInv
    PROVE  E!AnswersAreTrue
<1>1. E!AnswersAreKalshis
  BY DEF EventInv, AnswersInv, E!AnswersAreKalshis, E!Known
<1>2. E!TitlesAreAnswered
  BY DEF EventInv, TitlesInv, E!TitlesAreAnswered
<1>3. E!FeesGoWithLabels
  BY DEF EventInv, SeriesInv, E!FeesGoWithLabels
<1> QED BY <1>1, <1>2, <1>3 DEF E!AnswersAreTrue
-----------------------------------------------------------------------------
(* What is known of each market (MarketSide).                                  *)

-----------------------------------------------------------------------------
(* Candles.                                                                  *)

\* Products of a number of steps.
LEMMA Multiples ==
    ASSUME NEW d \in Nat \ {0}, NEW k \in Nat
    PROVE  /\ k * d \in Nat /\ k <= k * d /\ (k + 1) * d = k * d + d
<1>1. d - 1 \in Nat /\ d = (d - 1) + 1
  OBVIOUS
<1>2. k * (d - 1) \in Nat
  BY <1>1
<1>3. k * d = k * (d - 1) + k
  BY <1>1
<1>4. (k + 1) * d = k * d + d
  OBVIOUS
<1> QED BY <1>2, <1>3, <1>4

LEMMA MultiplesInOrder ==
    ASSUME NEW d \in Nat \ {0}, NEW j \in Nat, NEW k \in Nat
    PROVE  j <= k <=> j * d <= k * d
<1>1. j * d \in Nat /\ k * d \in Nat
  BY Multiples
<1>2. ASSUME NEW a \in Nat, NEW b \in Nat, a <= b PROVE a * d <= b * d
  <2>1. b - a \in Nat /\ b = a + (b - a)
    BY <1>2
  <2>2. (b - a) * d \in Nat
    BY <2>1, Multiples
  <2>3. b * d = a * d + (b - a) * d
    BY <2>1
  <2>4. a * d \in Nat
    BY Multiples
  <2> QED BY <2>2, <2>3, <2>4
<1>3. ASSUME k < j PROVE k * d < j * d
  <2>1. (k + 1) * d <= j * d
    BY <1>2, <1>3
  <2>2. (k + 1) * d = k * d + d
    BY Multiples
  <2> QED BY <1>1, <2>1, <2>2
<1> QED BY <1>1, <1>2, <1>3

\* The window that has a candle well inside it, and how many come before.
LEMMA StepHolds ==
    ASSUME NEW d \in Nat \ {0}, NEW x \in Nat \ {0}
    PROVE  \E k \in 0 .. x - 1 : k * d < x /\ x <= k * d + d
<1> DEFINE k == (x - 1) \div d
           r == (x - 1) % d
<1>1. x - 1 \in Nat
  OBVIOUS
<1>2. k \in Nat /\ r \in Nat /\ r < d /\ x - 1 = d * k + r
  BY <1>1
<1> HIDE DEF k, r
<1>3. d * k = k * d
  BY <1>2
<1>4. k * d \in Nat /\ k <= k * d
  BY <1>2, Multiples
<1>5. k * d < x /\ x <= k * d + d /\ k <= x - 1
  BY <1>2, <1>3, <1>4
<1> QED BY <1>2, <1>5

LEMMA Spans ==
    ASSUME S!MarketAssumption
    PROVE  /\ S!PageSpan \in Nat /\ S!Step \in Nat \ {0} /\ S!PageSpan = S!Step + Period
           /\ Period \in Nat \ {0} /\ CandlesUntil \in Nat
<1> DEFINE n == MaxCandles - 2
<1>1. n \in Nat \ {0} /\ Period \in Nat \ {0} /\ MaxCandles - 1 = n + 1
  BY DEF S!MarketAssumption
<1> HIDE DEF n
<1>2. n * Period \in Nat /\ n <= n * Period /\ (n + 1) * Period = n * Period + Period
  BY <1>1, Multiples
<1>3. S!PageSpan = n * Period + Period
  BY <1>1, <1>2 DEF S!PageSpan
<1>4. S!Step = n * Period
  BY <1>1, <1>2, <1>3 DEF S!Step
<1> HIDE DEF S!PageSpan, S!Step
<1> QED BY <1>1, <1>2, <1>3, <1>4 DEF S!MarketAssumption

\* The last request starts where the first one that reaches the end does.
LEMMA LastStart ==
    ASSUME S!MarketAssumption, NEW open \in 0 .. CandlesUntil, NEW close \in 0 .. CandlesUntil,
           close - open > S!PageSpan
    PROVE  LET starts == {open + k * S!Step : k \in 0 .. CandlesUntil}
               inner  == {s \in starts : s + S!PageSpan < close}
               last   == CHOOSE s \in starts : /\ s + S!PageSpan >= close
                                               /\ \A t \in starts : t < s => t \in inner
           IN  /\ last \in starts /\ last + S!PageSpan >= close
               /\ \A t \in starts : t < last => t \in inner
               /\ last < close
<1> DEFINE starts == {open + k * S!Step : k \in 0 .. CandlesUntil}
           inner  == {s \in starts : s + S!PageSpan < close}
           good(s) == /\ s + S!PageSpan >= close
                      /\ \A t \in starts : t < s => t \in inner
           far == close - open - S!PageSpan
<1>1. /\ S!PageSpan \in Nat /\ S!Step \in Nat \ {0} /\ S!PageSpan = S!Step + Period
      /\ Period \in Nat \ {0} /\ CandlesUntil \in Nat
  BY Spans
<1> HIDE DEF S!PageSpan, S!Step
<1>2. far \in Nat \ {0} /\ far <= CandlesUntil
  BY <1>1
<1>3. PICK k \in 0 .. far - 1 : k * S!Step < far /\ far <= k * S!Step + S!Step
  <2> HIDE DEF far
  <2> QED BY <1>1, <1>2, StepHolds
<1>4. k + 1 \in 0 .. CandlesUntil /\ k * S!Step \in Nat /\ (k + 1) * S!Step = k * S!Step + S!Step
  BY <1>1, <1>2, <1>3, Multiples
<1> DEFINE s0 == open + (k + 1) * S!Step
<1>5. s0 \in starts
  BY <1>4
<1>6. s0 + S!PageSpan >= close /\ s0 < close
  BY <1>1, <1>3, <1>4
<1>7. ASSUME NEW t \in starts, t < s0 PROVE t \in inner
  <2>1. PICK j \in 0 .. CandlesUntil : t = open + j * S!Step
    OBVIOUS
  <2>2. j * S!Step \in Nat /\ j * S!Step < (k + 1) * S!Step
    BY <1>1, <1>4, <1>7, <2>1, Multiples
  <2>3. j < k + 1
    BY <1>1, <1>4, <2>2, MultiplesInOrder
  <2>4. j * S!Step <= k * S!Step
    BY <1>1, <1>3, <2>3, MultiplesInOrder
  <2> QED BY <1>1, <1>3, <1>4, <2>1, <2>2, <2>4
<1>8. good(s0)
  BY <1>6, <1>7
<1>9. \A s \in starts : s \in Int
  BY <1>1
<1> DEFINE last == CHOOSE s \in starts : good(s)
<1> HIDE DEF s0, good
<1>10. last \in starts /\ good(last)
  BY <1>5, <1>8
<1> HIDE DEF last, starts
<1>11. last \in Int /\ s0 \in Int
  BY <1>5, <1>9, <1>10
<1>12. last < close
  <2> SUFFICES ASSUME s0 < last PROVE FALSE
    BY <1>6, <1>11
  <2>1. s0 \in inner
    BY <1>5, <1>10 DEF good
  <2> QED BY <1>1, <1>6, <1>11, <2>1
<1> QED BY <1>10, <1>12 DEF good, last, starts

\* Together the requests ask for the whole window, and each is answered.
LEMMA WindowsCover ==
    ASSUME S!MarketAssumption, NEW open \in 0 .. CandlesUntil, NEW close \in 0 .. CandlesUntil
    PROVE  /\ \A v \in S!CandleRequestWindows(open, close) :
                 /\ v \in Int \X Int /\ open <= v[1] /\ v[2] <= close
                 /\ v[2] - v[1] <= S!PageSpan
           /\ \A t \in Nat, ends \in SUBSET {"start", "end"} :
                 S!Within(t, <<open, close>>, ends) =>
                    \E v \in S!CandleRequestWindows(open, close) : S!Within(t, v, ends)
<1> DEFINE starts == {open + k * S!Step : k \in 0 .. CandlesUntil}
           inner  == {s \in starts : s + S!PageSpan < close}
           last   == CHOOSE s \in starts : /\ s + S!PageSpan >= close
                                           /\ \A t \in starts : t < s => t \in inner
<1>1. /\ S!PageSpan \in Nat /\ S!Step \in Nat \ {0} /\ S!PageSpan = S!Step + Period
      /\ Period \in Nat \ {0} /\ CandlesUntil \in Nat
  BY Spans
<1>2. CASE close - open <= S!PageSpan
  <2>1. S!CandleRequestWindows(open, close) = {<<open, close>>}
    BY <1>2 DEF S!CandleRequestWindows
  <2> QED BY <1>1, <1>2, <2>1
<1>3. CASE close - open > S!PageSpan
  <2>1. S!CandleRequestWindows(open, close) = {<<s, s + S!PageSpan>> : s \in inner} \cup {<<last, close>>}
    BY <1>1, <1>3 DEF S!CandleRequestWindows
  <2>2. /\ last \in starts /\ last + S!PageSpan >= close
        /\ \A t \in starts : t < last => t \in inner
        /\ last < close
    BY <1>3, LastStart
  <2> HIDE DEF S!PageSpan, S!Step, last
  <2>3. \A s \in starts : s \in Int /\ open <= s
    BY <1>1
  <2> HIDE DEF starts
  <2>4. \A v \in S!CandleRequestWindows(open, close) :
             /\ v \in Int \X Int /\ open <= v[1] /\ v[2] <= close
             /\ v[2] - v[1] <= S!PageSpan
    BY <1>1, <2>1, <2>2, <2>3
  <2>5. ASSUME NEW t \in Nat, NEW ends \in SUBSET {"start", "end"},
               S!Within(t, <<open, close>>, ends)
        PROVE  \E v \in S!CandleRequestWindows(open, close) : S!Within(t, v, ends)
    <3>1. /\ open <= t /\ t <= close
          /\ "start" \notin ends => open < t
          /\ "end" \notin ends => t < close
      BY <2>5 DEF S!Within
    <3>2. PICK s \in starts : /\ s <= t /\ t < s + S!PageSpan
                              /\ "start" \notin ends => s < t
      <4>1. CASE t = open
        <5>1. open \in starts
          <6>1. 0 \in 0 .. CandlesUntil /\ open + 0 * S!Step = open
            BY <1>1
          <6> QED BY <6>1 DEF starts
        <5> QED BY <1>1, <3>1, <4>1, <5>1
      <4>2. CASE t # open
        <5>1. t - open \in Nat \ {0} /\ t - open <= CandlesUntil
          BY <1>1, <3>1, <4>2
        <5>2. PICK k \in 0 .. (t - open) - 1 : k * S!Step < t - open /\ t - open <= k * S!Step + S!Step
          BY <1>1, <5>1, StepHolds
        <5>3. k \in 0 .. CandlesUntil /\ k * S!Step \in Nat
          BY <1>1, <5>1, Multiples
        <5>4. open + k * S!Step \in starts
          BY <5>3 DEF starts
        <5> QED BY <1>1, <5>1, <5>2, <5>3, <5>4
      <4> QED BY <4>1, <4>2
    <3>3. CASE s + S!PageSpan < close
      <4>1. <<s, s + S!PageSpan>> \in S!CandleRequestWindows(open, close)
        BY <2>1, <3>3
      <4>2. S!Within(t, <<s, s + S!PageSpan>>, ends)
        BY <1>1, <2>3, <3>1, <3>2 DEF S!Within
      <4> QED BY <4>1, <4>2
    <3>4. CASE ~(s + S!PageSpan < close)
      <4>1. last <= s
        BY <1>1, <2>2, <2>3, <3>4
      <4>2. S!Within(t, <<last, close>>, ends)
        BY <1>1, <2>2, <2>3, <3>1, <3>2, <4>1 DEF S!Within
      <4> QED BY <2>1, <4>2
    <3> QED BY <3>3, <3>4
  <2> QED BY <2>4, <2>5
<1> QED BY <1>1, <1>2, <1>3

\* What Kalshi holds of a market's candles, and what a file of them is.
CandleWorld == [printed : SUBSET Nat, ends : SUBSET {"start", "end"}, posted : BOOLEAN,
                at : {"live", "archive"}]
CandleFiles == [window : (0 .. CandlesUntil) \X (0 .. CandlesUntil), current : BOOLEAN,
                candles : SUBSET Nat, old : BOOLEAN]

\* A kept window's candles are all there, unless none was posted by then.
CandlesInv ==
    /\ held \in CandleWorld
    /\ cached # Absent =>
          /\ cached \in CandleFiles
          /\ cached.current /\ cached.candles # {} => held.posted /\ cached.candles = S!Served(cached.window)
    /\ answer # Absent =>
          /\ answer.from # "refused"
          /\ answer.from = "kalshi" => answer.candles = S!Served(answer.window)
          /\ answer.from = "file" => \/ S!Served(answer.window) \subseteq answer.candles
                                     \/ answer.candles = {} /\ ~cached.old

LEMMA CandlesStart ==
    ASSUME S!MarketAssumption, S!CandlesInit
    PROVE  CandlesInv
<1>1. CandlesUntil \in Nat
  BY DEF S!MarketAssumption
<1>2. held \in CandleWorld
  BY <1>1 DEF S!CandlesInit, CandleWorld
<1>3. cached # Absent => cached \in CandleFiles /\ ~cached.current
  <2> SUFFICES ASSUME cached # Absent PROVE cached \in CandleFiles /\ ~cached.current
    OBVIOUS
  <2> DEFINE f == S!CandleFile(<<0, CandlesUntil>>, {CandlesUntil})
  <2>1. cached = [f EXCEPT !.current = FALSE]
    BY DEF S!CandlesInit
  <2>2. f \in CandleFiles
    BY <1>1 DEF S!CandleFile, CandleFiles
  <2> HIDE DEF f
  <2> QED BY <2>1, <2>2 DEF CandleFiles
<1> QED BY <1>2, <1>3 DEF S!CandlesInit, CandlesInv

\* Reading a window request by request reads the window.
LEMMA FetchedIsServed ==
    ASSUME S!MarketAssumption, held \in CandleWorld,
           NEW open \in 0 .. CandlesUntil, NEW close \in 0 .. CandlesUntil
    PROVE  /\ S!FetchedCandles(<<open, close>>) = S!Served(<<open, close>>)
           /\ ~\E v \in S!CandleRequestWindows(open, close) : S!Refused(v)
<1> DEFINE windows == S!CandleRequestWindows(open, close)
<1>1. /\ \A v \in windows :
            /\ v \in Int \X Int /\ open <= v[1] /\ v[2] <= close
            /\ v[2] - v[1] <= S!PageSpan
      /\ \A t \in Nat, ends \in SUBSET {"start", "end"} :
            S!Within(t, <<open, close>>, ends) => \E v \in windows : S!Within(t, v, ends)
  BY WindowsCover
<1>2. CandlesUntil \in Nat
  BY DEF S!MarketAssumption
<1>3. S!FetchedCandles(<<open, close>>) = UNION {S!Served(v) : v \in windows}
  BY DEF S!FetchedCandles
<1> HIDE DEF windows
<1>4. ASSUME NEW t \in Nat, NEW ends \in SUBSET {"start", "end"}, NEW v \in windows,
             S!Within(t, v, ends)
      PROVE  S!Within(t, <<open, close>>, ends)
  <2>1. v[1] \in Int /\ v[2] \in Int /\ open <= v[1] /\ v[2] <= close
    BY <1>1
  <2> QED BY <1>2, <1>4, <2>1 DEF S!Within
<1>5. held.printed \subseteq Nat /\ held.ends \in SUBSET {"start", "end"}
  BY DEF CandleWorld
<1>6. S!FetchedCandles(<<open, close>>) = S!Served(<<open, close>>)
  <2>1. CASE held.posted
    <3>1. S!FetchedCandles(<<open, close>>)
             = UNION {{t \in held.printed : S!Within(t, v, held.ends)} : v \in windows}
      BY <1>3, <2>1 DEF S!Served
    <3>2. \A t \in held.printed : (\E v \in windows : S!Within(t, v, held.ends))
                                    <=> S!Within(t, <<open, close>>, held.ends)
      BY <1>1, <1>4, <1>5
    <3>3. S!Served(<<open, close>>) = {t \in held.printed : S!Within(t, <<open, close>>, held.ends)}
      BY <2>1 DEF S!Served
    <3>4. \A t : t \in S!FetchedCandles(<<open, close>>) <=> t \in S!Served(<<open, close>>)
      BY <3>1, <3>2, <3>3
    <3> QED BY <3>4
  <2>2. CASE ~held.posted
    BY <1>3, <2>2 DEF S!Served
  <2> QED BY <2>1, <2>2
<1>7. ASSUME NEW v \in windows PROVE ~S!Refused(v)
  <2> DEFINE n == v[2] - v[1]
             q == n \div Period
             r == n % Period
             p == MaxCandles - 1
  <2>1. v[1] \in Int /\ v[2] \in Int /\ n <= S!PageSpan
    BY <1>1
  <2> SUFFICES ASSUME v[1] < v[2] PROVE q + 1 <= MaxCandles
    BY <2>1, Spans DEF S!Refused, S!MarketAssumption
  <2>2. n \in Nat /\ Period \in Nat \ {0} /\ p \in Nat /\ S!PageSpan = p * Period
    BY <2>1 DEF S!PageSpan, S!MarketAssumption
  <2> HIDE DEF n
  <2>3. q \in Nat /\ r \in Nat /\ n = Period * q + r
    BY <2>2
  <2> HIDE DEF q, r, p
  <2>4. Period * q = q * Period
    BY <2>2, <2>3
  <2>5. q * Period \in Nat /\ p * Period \in Nat
    BY <2>2, <2>3, Multiples
  <2>6. q * Period <= p * Period
    BY <2>1, <2>2, <2>3, <2>4, <2>5
  <2>7. q <= p
    BY <2>2, <2>3, <2>6, MultiplesInOrder
  <2> QED BY <2>3, <2>7 DEF p, S!MarketAssumption
<1> QED BY <1>6, <1>7 DEF windows

\* Kalshi posts what it lacked, or moves the market.
LEMMA CandlesLaterStep ==
    ASSUME CandlesInv, S!CandlesLater
    PROVE  CandlesInv'
<1>1. /\ answer' = Absent
      /\ cached' = IF cached = Absent THEN Absent ELSE [cached EXCEPT !.old = TRUE]
      /\ \E posted \in {held.posted, TRUE}, at \in {held.at, "archive"} :
            held' = [held EXCEPT !.posted = posted, !.at = at]
  BY DEF S!CandlesLater
<1>2. held \in CandleWorld
  BY DEF CandlesInv
<1>3. /\ held' \in CandleWorld /\ held'.printed = held.printed /\ held'.ends = held.ends
      /\ held.posted => held'.posted
  BY <1>1, <1>2 DEF CandleWorld
<1>4. cached' # Absent => /\ cached \in CandleFiles /\ cached # Absent
                          /\ cached' \in CandleFiles
                          /\ cached'.window = cached.window /\ cached'.candles = cached.candles
                          /\ cached'.current = cached.current
  <2> SUFFICES ASSUME cached' # Absent PROVE <1>4!2
    OBVIOUS
  <2>1. cached # Absent /\ cached' = [cached EXCEPT !.old = TRUE]
    BY <1>1
  <2>2. cached \in CandleFiles
    BY <2>1 DEF CandlesInv
  <2> QED BY <2>1, <2>2 DEF CandleFiles
<1>5. ASSUME cached' # Absent, cached'.current, cached'.candles # {}
      PROVE  held'.posted /\ cached'.candles = S!Served(cached.window)'
  <2>1. held.posted /\ cached.candles = S!Served(cached.window)
    BY <1>4, <1>5 DEF CandlesInv
  <2> QED BY <1>3, <1>4, <1>5, <2>1 DEF S!Served
<1> QED BY <1>1, <1>3, <1>4, <1>5 DEF CandlesInv

\* One call for candles.
LEMMA FetchStep ==
    ASSUME S!MarketAssumption, CandlesInv, S!FetchCandlesticks
    PROVE  CandlesInv'
<1>1. PICK open \in Opens, close \in Closes :
        LET w == <<open, close>>
            candles == S!FetchedCandles(w)
            refused == \E v \in S!CandleRequestWindows(open, close) : S!Refused(v)
            fetched == /\ answer' = [window |-> w, from |-> "kalshi", candles |-> candles]
                       /\ cached' = S!CandleFile(w, candles)
            failed  == /\ answer' = [window |-> w, from |-> "none", candles |-> {}]
                       /\ cached' = cached
        IN  \E use \in BOOLEAN, series \in BOOLEAN, liveFirst \in BOOLEAN, moved \in {held.at, "archive"} :
            LET endpoints == S!CandleEndpoints(series, liveFirst) IN
            /\ held' = [held EXCEPT !.at = moved]
            /\ IF use /\ S!CacheServes(w)
               THEN /\ answer' = [window |-> w, from |-> "file", candles |-> cached.candles]
                    /\ cached' = cached
               ELSE IF refused
               THEN /\ answer' = [window |-> w, from |-> "refused", candles |-> {}]
                    /\ cached' = cached
               ELSE \E first \in S!Outcomes(endpoints[1], moved) :
                    CASE first = "whole" -> fetched
                      [] first # "whole" /\ (first = "failed" \/ Len(endpoints) = 1) -> failed
                      [] OTHER -> \/ fetched /\ "whole" \in S!Outcomes(endpoints[2], moved)
                                  \/ failed
  BY DEF S!FetchCandlesticks
<1> DEFINE w == <<open, close>>
           candles == S!FetchedCandles(w)
           refused == \E v \in S!CandleRequestWindows(open, close) : S!Refused(v)
           fetched == /\ answer' = [window |-> w, from |-> "kalshi", candles |-> candles]
                      /\ cached' = S!CandleFile(w, candles)
           failed  == /\ answer' = [window |-> w, from |-> "none", candles |-> {}]
                      /\ cached' = cached
           served  == /\ S!CacheServes(w)
                      /\ answer' = [window |-> w, from |-> "file", candles |-> cached.candles]
                      /\ cached' = cached
<1>2. CandlesUntil \in Nat /\ open \in 0 .. CandlesUntil /\ close \in 0 .. CandlesUntil
  BY DEF S!MarketAssumption
<1>3. held \in CandleWorld
  BY DEF CandlesInv
<1>4. candles = S!Served(w) /\ ~refused
  BY <1>2, <1>3, FetchedIsServed
<1> HIDE DEF candles, refused
<1>5. /\ \E moved \in {held.at, "archive"} : held' = [held EXCEPT !.at = moved]
      /\ served \/ fetched \/ failed
  BY <1>1, <1>4 DEF candles, refused
<1>6. /\ held' \in CandleWorld /\ held'.printed = held.printed /\ held'.ends = held.ends
      /\ held'.posted = held.posted
  BY <1>3, <1>5 DEF CandleWorld
<1>7. \A v : S!Served(v)' = S!Served(v)
  BY <1>6 DEF S!Served
<1>8. S!Served(w) \subseteq Nat /\ (S!Served(w) # {} => held.posted)
  BY <1>3 DEF CandleWorld, S!Served
<1> HIDE DEF w
<1>9. CASE served
  <2>1. answer'.window = w /\ answer'.from = "file" /\ answer'.candles = cached.candles /\ cached' = cached
    BY <1>9
  <2>2. /\ cached # Absent /\ cached.current
        /\ cached.window[1] <= w[1] /\ cached.window[2] >= w[2]
        /\ cached.candles # {} \/ ~cached.old
    BY <1>9 DEF S!CacheServes
  <2>3. cached \in CandleFiles
    BY <2>2 DEF CandlesInv
  <2>4. cached.window[1] \in Int /\ cached.window[2] \in Int /\ w[1] \in Int /\ w[2] \in Int
    BY <1>2, <2>3 DEF CandleFiles, w
  <2>5. S!Served(w) \subseteq S!Served(cached.window)
    <3> SUFFICES ASSUME NEW t \in held.printed, S!Within(t, w, held.ends)
                 PROVE  S!Within(t, cached.window, held.ends)
      BY DEF S!Served
    <3>1. t \in Nat
      BY <1>3 DEF CandleWorld
    <3> QED BY <2>2, <2>4, <3>1 DEF S!Within
  <2>6. cached.candles # {} => cached.candles = S!Served(cached.window) /\ held.posted
    BY <2>2 DEF CandlesInv
  <2> QED BY <1>6, <1>7, <2>1, <2>2, <2>3, <2>5, <2>6 DEF CandlesInv
<1>10. CASE fetched
  <2>1. answer'.window = w /\ answer'.from = "kalshi" /\ answer'.candles = S!Served(w)
    BY <1>4, <1>10
  <2>2. cached' = [window |-> w, current |-> TRUE, candles |-> S!Served(w), old |-> FALSE]
    BY <1>4, <1>10 DEF S!CandleFile
  <2>3. cached' \in CandleFiles /\ cached'.candles = S!Served(w) /\ cached'.window = w
    BY <1>2, <1>8, <2>2 DEF CandleFiles, w
  <2> QED BY <1>6, <1>7, <1>8, <2>1, <2>3 DEF CandlesInv
<1>11. CASE failed
  <2>1. answer'.from = "none" /\ cached' = cached
    BY <1>11
  <2> QED BY <1>6, <1>7, <2>1 DEF CandlesInv
<1> QED BY <1>5, <1>9, <1>10, <1>11

-----------------------------------------------------------------------------
(* Details.                                                                  *)

\* A set of numbers has a least one, and a bounded one a greatest.
LEMMA LeastOf ==
    ASSUME NEW N \in SUBSET Nat, N # {}
    PROVE  \E m \in N : \A y \in N : m <= y
<1> DEFINE Below == {0 .. x : x \in N}
<1>1. Below \subseteq FiniteSubsetsOf(Nat) /\ Below # {}
  <2>1. \A x \in N : 0 .. x \subseteq Nat /\ IsFiniteSet(0 .. x)
    BY FS_Interval
  <2> QED BY <2>1 DEF FiniteSubsetsOf
<1>2. \E A \in Below : \A B \in Below : <<B, A>> \notin StrictSubsetOrdering(Nat)
  <2> HIDE DEF Below
  <2> QED BY <1>1, FS_StrictSubsetOrderingWellFounded, WFMin
<1>3. PICK m \in N : \A y \in N : <<0 .. y, 0 .. m>> \notin StrictSubsetOrdering(Nat)
  BY <1>2
<1>4. ASSUME NEW y \in N, y < m PROVE FALSE
  <2>1. m \in 0 .. m /\ m \notin 0 .. y /\ 0 .. y \subseteq 0 .. m
    BY <1>4
  <2>2. 0 .. y \in SUBSET Nat /\ 0 .. m \in SUBSET Nat
    OBVIOUS
  <2> QED BY <1>3, <2>1, <2>2 DEF StrictSubsetOrdering
<1> QED BY <1>4

LEMMA GreatestOf ==
    ASSUME NEW n \in Nat, NEW N \in SUBSET (0 .. n), N # {}
    PROVE  \E m \in N : \A y \in N : y <= m
<1> DEFINE T == {n - x : x \in N}
<1>0. \A x \in N : x \in Nat /\ x <= n /\ n - x \in Nat
  <2> SUFFICES ASSUME NEW x \in N PROVE x \in Nat /\ x <= n /\ n - x \in Nat
    OBVIOUS
  <2>1. x \in 0 .. n
    OBVIOUS
  <2> QED BY <2>1
<1>1. T \in SUBSET Nat /\ T # {}
  BY <1>0
<1>2. PICK t \in T : \A y \in T : t <= y
  <2> HIDE DEF T
  <2> QED BY <1>1, LeastOf
<1>3. PICK m \in N : t = n - m
  OBVIOUS
<1>4. \A y \in N : y <= m
  <2> SUFFICES ASSUME NEW y \in N PROVE y <= m
    OBVIOUS
  <2>1. n - m <= n - y
    BY <1>2, <1>3
  <2> QED BY <1>0, <2>1
<1> QED BY <1>4

\* What a file of details holds.
Records == [market : S!Details, level : {"full", "timing"}, settled : BOOLEAN]
Lines == Records \cup {S!Bad}

LEMMA BadIsNoRecord == S!Bad \notin Records /\ S!Bad.market \notin S!Details
BY DEF S!Bad, Records, S!Details

\* What is read of it is what comes before the first damaged line.
LEMMA GoodIs ==
    ASSUME NEW f \in Seq(Lines)
    PROVE  /\ S!Good(f) \in Seq(Lines) /\ Len(S!Good(f)) <= Len(f)
           /\ \A i \in 1 .. Len(S!Good(f)) : S!Good(f)[i] = f[i] /\ f[i] # S!Bad
           /\ Len(S!Good(f)) < Len(f) => f[Len(S!Good(f)) + 1] = S!Bad
           /\ S!Good(f) = f \/ Len(S!Good(f)) < Len(f)
<1> DEFINE bad == {i \in 1 .. Len(f) : f[i] = S!Bad}
           b == CHOOSE i \in bad : \A j \in bad : i <= j
<1>1. CASE bad = {}
  <2>1. S!Good(f) = f
    BY <1>1 DEF S!Good
  <2> QED BY <1>1, <2>1
<1>2. CASE bad # {}
  <2>1. S!Good(f) = SubSeq(f, 1, b - 1)
    BY <1>2 DEF S!Good
  <2>2. b \in bad /\ \A j \in bad : b <= j
    <3>1. bad \in SUBSET Nat
      OBVIOUS
    <3> HIDE DEF bad
    <3> QED BY <1>2, <3>1, LeastOf
  <2> HIDE DEF b
  <2>3. b \in 1 .. Len(f) /\ f[b] = S!Bad /\ \A j \in 1 .. b - 1 : f[j] # S!Bad
    BY <2>2
  <2>4. Len(S!Good(f)) = b - 1 /\ S!Good(f) \in Seq(Lines) /\ \A i \in 1 .. b - 1 : S!Good(f)[i] = f[i]
    BY <2>1, <2>3
  <2> QED BY <2>3, <2>4
<1> QED BY <1>1, <1>2

LEMMA GoodReaches ==
    ASSUME NEW f \in Seq(Lines), NEW n \in 0 .. Len(f),
           \A i \in 1 .. n : f[i] # S!Bad, n < Len(f) => f[n + 1] = S!Bad
    PROVE  Len(S!Good(f)) = n
<1>1. /\ Len(S!Good(f)) \in Nat /\ Len(S!Good(f)) <= Len(f)
      /\ \A i \in 1 .. Len(S!Good(f)) : f[i] # S!Bad
      /\ Len(S!Good(f)) < Len(f) => f[Len(S!Good(f)) + 1] = S!Bad
  BY GoodIs
<1>2. Len(f) \in Nat
  OBVIOUS
<1>3. ASSUME Len(S!Good(f)) < n PROVE FALSE
  <2>1. Len(S!Good(f)) + 1 \in 1 .. n
    BY <1>1, <1>3
  <2> QED BY <1>1, <1>2, <1>3, <2>1
<1>4. ASSUME n < Len(S!Good(f)) PROVE FALSE
  <2>1. n + 1 \in 1 .. Len(S!Good(f)) /\ n < Len(f)
    BY <1>1, <1>2, <1>4
  <2> QED BY <1>1, <2>1
<1> QED BY <1>1, <1>3, <1>4

\* A market's record is the last of its lines that is read.
LastAt(f, m, i) ==
    /\ i \in 1 .. Len(S!Good(f)) /\ f[i].market = m
    /\ \A j \in 1 .. Len(S!Good(f)) : f[j].market = m => j <= i

LEMMA ReadIs ==
    ASSUME NEW f \in Seq(Lines), NEW m
    PROVE  /\ \/ S!ReadDetails(f, m) = Absent /\ \A i \in 1 .. Len(S!Good(f)) : f[i].market # m
              \/ \E i \in 1 .. Len(S!Good(f)) : LastAt(f, m, i) /\ S!ReadDetails(f, m) = f[i]
           /\ \A i : LastAt(f, m, i) => S!ReadDetails(f, m) = f[i]
<1> DEFINE n == Len(S!Good(f))
           mine == {i \in 1 .. n : f[i].market = m}
           top == CHOOSE i \in mine : \A j \in mine : j <= i
<1>1. n \in Nat
  BY GoodIs
<1>2. CASE mine = {}
  <2>1. S!ReadDetails(f, m) = Absent
    BY <1>2 DEF S!ReadDetails
  <2> QED BY <1>2, <2>1 DEF LastAt
<1>3. CASE mine # {}
  <2>1. S!ReadDetails(f, m) = f[top]
    BY <1>3 DEF S!ReadDetails
  <2>2. top \in mine /\ \A j \in mine : j <= top
    <3>1. mine \in SUBSET (0 .. n)
      BY <1>1
    <3>2. \E i \in mine : \A j \in mine : j <= i
      <4> HIDE DEF mine, n
      <4> QED BY <1>1, <1>3, <3>1, GreatestOf
    <3> QED BY <3>2
  <2> HIDE DEF top
  <2>3. LastAt(f, m, top)
    BY <2>2 DEF LastAt
  <2>4. ASSUME NEW i, LastAt(f, m, i) PROVE i = top
    <3>1. i \in mine
      BY <2>4 DEF LastAt
    <3>2. i <= top /\ top <= i
      BY <2>2, <2>4, <3>1 DEF LastAt
    <3> QED BY <1>1, <2>2, <3>1, <3>2
  <2> QED BY <2>1, <2>2, <2>3, <2>4
<1> QED BY <1>2, <1>3

\* Lines are read after what was read before, damage or not.
Appended(f, lines, tail) == (S!Good(f) \o lines) \o tail

ReadsOn(F, f, lines, m) ==
    /\ F \in Seq(Lines)
    /\ (\A i \in 1 .. Len(lines) : lines[i].market # m) => S!ReadDetails(F, m) = S!ReadDetails(f, m)
    /\ (\E i \in 1 .. Len(lines) : lines[i].market = m) =>
          \E i \in 1 .. Len(lines) : lines[i].market = m /\ S!ReadDetails(F, m) = lines[i]

LEMMA AppendReads ==
    ASSUME NEW f \in Seq(Lines), NEW lines \in Seq(Records), NEW tail \in {<<>>, <<S!Bad>>},
           NEW m \in S!Details
    PROVE  ReadsOn(Appended(f, lines, tail), f, lines, m)
<1> DEFINE F == Appended(f, lines, tail)
<1> DEFINE n == Len(S!Good(f))
           k == Len(lines)
<1>1. /\ S!Good(f) \in Seq(Lines) /\ n \in Nat
      /\ \A i \in 1 .. n : S!Good(f)[i] = f[i] /\ f[i] # S!Bad
  BY GoodIs
<1>2. lines \in Seq(Lines) /\ k \in Nat /\ \A i \in 1 .. k : lines[i] \in Records
  BY DEF Lines
<1> DEFINE G == S!Good(f) \o lines
<1>3. /\ G \in Seq(Lines) /\ Len(G) = n + k
      /\ \A i \in 1 .. n : G[i] = f[i]
      /\ \A i \in n + 1 .. n + k : G[i] = lines[i - n]
  <2>1. /\ S!Good(f) \in Seq(Lines) /\ lines \in Seq(Lines)
        /\ n = Len(S!Good(f)) /\ k = Len(lines) /\ n \in Nat /\ k \in Nat
    BY <1>1, <1>2
  <2> HIDE DEF n, k
  <2>2. G \in Seq(Lines) /\ Len(G) = n + k
    BY <2>1
  <2>3. \A i \in 1 .. n : G[i] = f[i]
    BY <1>1, <2>1
  <2>4. \A i \in n + 1 .. n + k : G[i] = lines[i - n]
    BY <2>1
  <2> QED BY <2>2, <2>3, <2>4
<1> HIDE DEF G, F
<1>4. /\ F \in Seq(Lines) /\ n + k <= Len(F) /\ Len(F) <= n + k + 1
      /\ \A i \in 1 .. n + k : F[i] = G[i]
      /\ n + k < Len(F) => F[n + k + 1] = S!Bad
  <2>1. S!Bad \in Lines /\ F = G \o tail
    BY DEF Lines, G, Appended, F
  <2>2. CASE tail = <<>>
    BY <1>1, <1>2, <1>3, <2>1, <2>2
  <2>3. CASE tail = <<S!Bad>>
    BY <1>1, <1>2, <1>3, <2>1, <2>3
  <2> QED BY <2>2, <2>3
<1> HIDE DEF n, k
<1>0. n \in Nat /\ k \in Nat
  BY <1>1, <1>2
<1>11. /\ \A i \in 1 .. n : i \in 1 .. n + k
       /\ \A i \in 1 .. n + k : i \in 1 .. n \/ i \in n + 1 .. n + k
  BY <1>0
<1>5. \A i \in 1 .. n : F[i] = f[i]
  BY <1>3, <1>4, <1>11
<1>6. \A i \in n + 1 .. n + k : F[i] = lines[i - n] /\ F[i] \in Records
  <2> SUFFICES ASSUME NEW i \in n + 1 .. n + k PROVE F[i] = lines[i - n] /\ F[i] \in Records
    OBVIOUS
  <2>1. i - n \in 1 .. k /\ i \in 1 .. n + k
    BY <1>1, <1>2
  <2> QED BY <1>2, <1>3, <1>4, <2>1
<1>7. \A i \in 1 .. n + k : F[i] # S!Bad
  <2> SUFFICES ASSUME NEW i \in 1 .. n + k PROVE F[i] # S!Bad
    OBVIOUS
  <2>1. CASE i \in 1 .. n
    BY <1>1, <1>5, <2>1
  <2>2. CASE i \in n + 1 .. n + k
    BY <1>6, <2>2, BadIsNoRecord
  <2> QED BY <1>11, <2>1, <2>2
<1>8. Len(S!Good(F)) = n + k
  <2>1. n + k \in 0 .. Len(F)
    BY <1>1, <1>2, <1>4
  <2> QED BY <1>4, <1>7, <2>1, GoodReaches
<1>9. ASSUME \A i \in 1 .. k : lines[i].market # m PROVE S!ReadDetails(F, m) = S!ReadDetails(f, m)
  <2>1. \A i \in n + 1 .. n + k : F[i].market # m
    <3> SUFFICES ASSUME NEW i \in n + 1 .. n + k PROVE F[i].market # m
      OBVIOUS
    <3>1. i - n \in 1 .. k
      BY <1>1, <1>2
    <3> QED BY <1>6, <1>9, <3>1
  <2>2. ASSUME NEW i \in 1 .. n, LastAt(f, m, i) PROVE LastAt(F, m, i)
    <3>1. f[i].market = m /\ \A j \in 1 .. n : f[j].market = m => j <= i
      BY <2>2 DEF LastAt, n
    <3>2. F[i].market = m /\ i \in 1 .. n + k
      BY <1>5, <1>11, <3>1
    <3>3. \A j \in 1 .. n + k : F[j].market = m => j <= i
      <4> SUFFICES ASSUME NEW j \in 1 .. n + k, F[j].market = m PROVE j <= i
        OBVIOUS
      <4>1. j \in 1 .. n
        BY <1>11, <2>1
      <4>2. f[j].market = m
        BY <1>5, <4>1
      <4> QED BY <3>1, <4>1, <4>2
    <3> QED BY <1>8, <3>2, <3>3 DEF LastAt
  <2>3. ASSUME \A i \in 1 .. n : f[i].market # m PROVE S!ReadDetails(F, m) = Absent
    <3>1. \A i \in 1 .. n + k : F[i].market # m
      BY <1>5, <1>11, <2>1, <2>3
    <3>2. ~\E i \in 1 .. Len(S!Good(F)) : LastAt(F, m, i)
      BY <1>8, <3>1 DEF LastAt
    <3> QED BY <1>4, <3>2, ReadIs
  <2>4. CASE S!ReadDetails(f, m) = Absent /\ \A i \in 1 .. n : f[i].market # m
    BY <2>3, <2>4
  <2>5. CASE \E i \in 1 .. n : LastAt(f, m, i) /\ S!ReadDetails(f, m) = f[i]
    <3>1. PICK i \in 1 .. n : LastAt(f, m, i) /\ S!ReadDetails(f, m) = f[i]
      BY <2>5
    <3>2. LastAt(F, m, i)
      BY <2>2, <3>1
    <3>3. S!ReadDetails(F, m) = F[i]
      BY <1>4, <3>2, ReadIs
    <3> QED BY <1>5, <3>1, <3>3
  <2> QED BY <2>4, <2>5, ReadIs DEF n
<1>10. ASSUME NEW i0 \in 1 .. k, lines[i0].market = m
       PROVE  \E i \in 1 .. k : lines[i].market = m /\ S!ReadDetails(F, m) = lines[i]
  <2>1. n + i0 \in n + 1 .. n + k /\ (n + i0) - n = i0 /\ n + i0 \in 1 .. n + k
    BY <1>1, <1>2
  <2>2. F[n + i0].market = m
    BY <1>6, <1>10, <2>1
  <2>3. PICK j \in 1 .. n + k : LastAt(F, m, j) /\ S!ReadDetails(F, m) = F[j]
    BY <1>4, <1>8, <2>1, <2>2, ReadIs
  <2>4. n + i0 <= j /\ F[j].market = m
    BY <1>8, <2>1, <2>2, <2>3 DEF LastAt
  <2>5. j \in n + 1 .. n + k /\ j - n \in 1 .. k
    BY <1>1, <1>2, <2>3, <2>4
  <2> QED BY <1>6, <2>3, <2>4, <2>5
<1> QED BY <1>4, <1>9, <1>10 DEF k, F, ReadsOn

\* The file holds records of markets that had settled, and damage.
DetailsInv ==
    /\ held \in [S!Details -> BOOLEAN]
    /\ cached \in Seq(Lines)
    /\ \A m \in S!Details : S!ReadDetails(cached, m) # Absent => S!ReadDetails(cached, m).settled
    /\ answer # Absent => \A m \in S!Details :
          /\ answer.records[m] # Absent /\ m \in answer.full => answer.records[m].level = "full"
          /\ answer.records[m] # Absent /\ m \in answer.fresh => S!ReadDetails(cached, m) # Absent

LEMMA DetailsStart == S!DetailsInit => DetailsInv
<1> SUFFICES ASSUME S!DetailsInit PROVE DetailsInv
  OBVIOUS
<1>1. cached = <<>>
  BY DEF S!DetailsInit
<1>4. cached \in Seq(Lines) /\ Len(cached) = 0
  BY <1>1
<1>2. Len(S!Good(cached)) = 0
  <2>1. S!Good(cached) \in Seq(Lines) /\ Len(S!Good(cached)) <= 0
    BY <1>4, GoodIs
  <2>2. Len(S!Good(cached)) \in Nat
    BY <2>1
  <2> QED BY <2>1, <2>2
<1>3. \A m \in S!Details : S!ReadDetails(cached, m) = Absent
  <2> SUFFICES ASSUME NEW m \in S!Details PROVE S!ReadDetails(cached, m) = Absent
    OBVIOUS
  <2>1. \/ S!ReadDetails(cached, m) = Absent
        \/ \E i \in 1 .. Len(S!Good(cached)) : LastAt(cached, m, i) /\ S!ReadDetails(cached, m) = cached[i]
    BY <1>4, ReadIs
  <2> QED BY <1>2, <2>1
<1> QED BY <1>4, <1>3 DEF S!DetailsInit, DetailsInv

LEMMA SettleStep ==
    ASSUME DetailsInv, S!Settle
    PROVE  DetailsInv' /\ S!FieldsKept
<1>1. /\ UNCHANGED <<store, cached, answer, calls>>
      /\ \E m \in S!Details : held' = [held EXCEPT ![m] = TRUE]
  BY DEF S!Settle
<1>2. held' \in [S!Details -> BOOLEAN]
  BY <1>1 DEF DetailsInv
<1>3. \A m : S!ReadDetails(cached, m)' = S!ReadDetails(cached, m)
  BY <1>1
<1> QED BY <1>1, <1>2, <1>3 DEF DetailsInv, S!FieldsKept

\* One call for details.
LEMMA DetailsStep ==
    ASSUME S!MarketAssumption, DetailsInv, S!LoadMarketDetails
    PROVE  DetailsInv' /\ S!FieldsKept
<1>1. PICK wanted \in (SUBSET S!Details) \ {{}}, full \in SUBSET S!Details, listed \in SUBSET S!Details,
          saved \in {"whole", "cut", "no"} :
        LET kept(m) == S!ReadDetails(cached, m)
            hit    == {m \in wanted : /\ kept(m) # Absent
                                      /\ m \in full => kept(m).level = "full"}
            record(m) == [market |-> m, level |-> S!Level(m \in full), settled |-> held[m]]
            found  == (wanted \ hit) \cap listed
            fresh  == {m \in found : S!KeptDetails(record(m))}
            lines  == (IF "m" \in fresh THEN <<record("m")>> ELSE <<>>)
                          \o (IF "n" \in fresh THEN <<record("n")>> ELSE <<>>)
            repair == S!Good(cached) # cached
        IN  /\ answer' = [records |-> [m \in S!Details |->
                              IF m \in hit THEN kept(m)
                              ELSE IF m \in found THEN record(m) ELSE Absent],
                          full |-> full,
                          fresh |-> IF saved = "whole" THEN fresh ELSE {}]
            /\ cached' = IF lines = <<>> \/ saved = "no" THEN cached
                       ELSE S!AppendDetails(cached, lines, repair)
                                \o (IF saved = "whole" THEN <<>> ELSE <<S!Bad>>)
  BY DEF S!LoadMarketDetails
<1> DEFINE kept(m) == S!ReadDetails(cached, m)
           hit    == {m \in wanted : /\ kept(m) # Absent
                                     /\ m \in full => kept(m).level = "full"}
           record(m) == [market |-> m, level |-> S!Level(m \in full), settled |-> held[m]]
           found  == (wanted \ hit) \cap listed
           fresh  == {m \in found : S!KeptDetails(record(m))}
           lines  == (IF "m" \in fresh THEN <<record("m")>> ELSE <<>>)
                         \o (IF "n" \in fresh THEN <<record("n")>> ELSE <<>>)
           repair == S!Good(cached) # cached
           records == [m \in S!Details |-> IF m \in hit THEN kept(m)
                                         ELSE IF m \in found THEN record(m) ELSE Absent]
<1>2. /\ answer' = [records |-> records, full |-> full,
                    fresh |-> IF saved = "whole" THEN fresh ELSE {}]
      /\ cached' = IF lines = <<>> \/ saved = "no" THEN cached
                 ELSE S!AppendDetails(cached, lines, repair)
                          \o (IF saved = "whole" THEN <<>> ELSE <<S!Bad>>)
      /\ held' = held
  BY <1>1 DEF S!LoadMarketDetails
<1>3. \A m \in S!Details :
         /\ record(m) \in Records /\ record(m) # Absent /\ record(m).market = m
         /\ m \in full => record(m).level = "full"
         /\ m \in fresh => record(m).settled
         /\ m \in fresh => m \in found /\ m \in S!Details
  BY DEF Records, S!Level, DetailsInv, S!Details, S!MarketAssumption, S!KeptDetails
<1>4. \A m \in S!Details : m \in found => ~(m \in full => kept(m).level = "full") \/ kept(m) = Absent
  OBVIOUS
<1>5. /\ \A m \in hit : m \in S!Details /\ kept(m) # Absent /\ (m \in full => kept(m).level = "full")
      /\ fresh \subseteq S!Details
  OBVIOUS
<1> HIDE DEF record, hit, found, fresh
<1>6. /\ lines \in Seq(Records)
      /\ \A i \in 1 .. Len(lines) : \E m \in fresh : lines[i] = record(m)
      /\ \A m \in fresh : \E i \in 1 .. Len(lines) : lines[i] = record(m)
  <2>1. record("m") \in Records /\ record("n") \in Records /\ fresh \subseteq {"m", "n"}
    BY <1>3, <1>5 DEF S!Details
  <2> DEFINE one == IF "m" \in fresh THEN <<record("m")>> ELSE <<>>
             two == IF "n" \in fresh THEN <<record("n")>> ELSE <<>>
  <2>2. /\ one \in Seq(Records) /\ Len(one) = IF "m" \in fresh THEN 1 ELSE 0
        /\ "m" \in fresh => one[1] = record("m")
    BY <2>1
  <2>3. /\ two \in Seq(Records) /\ Len(two) = IF "n" \in fresh THEN 1 ELSE 0
        /\ "n" \in fresh => two[1] = record("n")
    BY <2>1
  <2>4. lines = one \o two
    OBVIOUS
  <2> HIDE DEF one, two, lines
  <2>5. /\ lines \in Seq(Records) /\ Len(lines) = Len(one) + Len(two)
        /\ \A i \in 1 .. Len(one) : lines[i] = one[i]
        /\ \A i \in Len(one) + 1 .. Len(one) + Len(two) : lines[i] = two[i - Len(one)]
    BY <2>2, <2>3, <2>4
  <2>6. CASE "m" \in fresh /\ "n" \in fresh
    <3>1. Len(lines) = 2 /\ lines[1] = record("m") /\ lines[2] = record("n")
      BY <2>2, <2>3, <2>5, <2>6
    <3>2. \A i \in 1 .. Len(lines) : i = 1 \/ i = 2
      BY <3>1
    <3>3. 1 \in 1 .. Len(lines) /\ 2 \in 1 .. Len(lines) /\ \A m \in fresh : m = "m" \/ m = "n"
      BY <2>1, <2>6, <3>1
    <3> QED BY <2>5, <2>6, <3>1, <3>2, <3>3
  <2>7. CASE "m" \in fresh /\ "n" \notin fresh
    <3>1. Len(lines) = 1 /\ lines[1] = record("m")
      BY <2>2, <2>3, <2>5, <2>7
    <3>2. \A i \in 1 .. Len(lines) : i = 1
      BY <3>1
    <3>3. 1 \in 1 .. Len(lines) /\ \A m \in fresh : m = "m"
      BY <2>1, <2>7, <3>1
    <3> QED BY <2>5, <2>7, <3>1, <3>2, <3>3
  <2>8. CASE "m" \notin fresh /\ "n" \in fresh
    <3>1. Len(lines) = 1 /\ lines[1] = record("n")
      BY <2>2, <2>3, <2>5, <2>8
    <3>2. \A i \in 1 .. Len(lines) : i = 1
      BY <3>1
    <3>3. 1 \in 1 .. Len(lines) /\ \A m \in fresh : m = "n"
      BY <2>1, <2>8, <3>1
    <3> QED BY <2>5, <2>8, <3>1, <3>2, <3>3
  <2>9. CASE "m" \notin fresh /\ "n" \notin fresh
    <3>1. Len(lines) = 0 /\ fresh = {}
      BY <2>1, <2>2, <2>3, <2>5, <2>9
    <3> QED BY <2>5, <3>1
  <2> QED BY <2>6, <2>7, <2>8, <2>9
<1>7. lines = <<>> => fresh = {}
  BY <1>6
<1> HIDE DEF lines
<1>8. cached \in Seq(Lines)
  BY DEF DetailsInv
<1>9. S!AppendDetails(cached, lines, repair) = S!Good(cached) \o lines
  BY DEF S!AppendDetails
<1> HIDE DEF repair
<1>10. \/ cached' = cached /\ (saved = "no" \/ lines = <<>>)
       \/ \E tail \in {<<>>, <<S!Bad>>} : cached' = (S!Good(cached) \o lines) \o tail
  <2>1. CASE lines = <<>> \/ saved = "no"
    BY <1>2, <2>1
  <2>2. CASE ~(lines = <<>> \/ saved = "no")
    <3> DEFINE tail == IF saved = "whole" THEN <<>> ELSE <<S!Bad>>
    <3>1. cached' = (S!Good(cached) \o lines) \o tail /\ tail \in {<<>>, <<S!Bad>>}
      BY <1>2, <1>9, <2>2
    <3> QED BY <3>1
  <2> QED BY <2>1, <2>2
<1>11. ASSUME NEW m \in S!Details
       PROVE  /\ m \notin fresh => S!ReadDetails(cached', m) = kept(m)
              /\ m \in fresh => \/ S!ReadDetails(cached', m) = record(m)
                                \/ saved = "no" /\ S!ReadDetails(cached', m) = kept(m)
  <2>1. CASE cached' = cached /\ (saved = "no" \/ lines = <<>>)
    BY <1>7, <2>1
  <2>2. CASE \E tail \in {<<>>, <<S!Bad>>} : cached' = (S!Good(cached) \o lines) \o tail
    <3>1. PICK tail \in {<<>>, <<S!Bad>>} : cached' = (S!Good(cached) \o lines) \o tail
      BY <2>2
    <3>2. /\ (\A i \in 1 .. Len(lines) : lines[i].market # m) => S!ReadDetails(cached', m) = S!ReadDetails(cached, m)
          /\ (\E i \in 1 .. Len(lines) : lines[i].market = m) =>
                \E i \in 1 .. Len(lines) : lines[i].market = m /\ S!ReadDetails(cached', m) = lines[i]
      <4>1. cached' = Appended(cached, lines, tail)
        BY <3>1 DEF Appended
      <4>2. lines \in Seq(Records)
        BY <1>6
      <4>3. ReadsOn(Appended(cached, lines, tail), cached, lines, m)
        BY <1>8, <4>2, AppendReads
      <4> QED BY <4>1, <4>3 DEF ReadsOn
    <3>3. \A i \in 1 .. Len(lines) : lines[i].market = m => m \in fresh /\ lines[i] = record(m)
      BY <1>3, <1>5, <1>6
    <3>4. m \in fresh => \E i \in 1 .. Len(lines) : lines[i].market = m
      BY <1>3, <1>6
    <3> QED BY <3>2, <3>3, <3>4
  <2> QED BY <1>10, <2>1, <2>2
<1>12. cached' \in Seq(Lines)
  <2>1. CASE cached' = cached
    BY <1>8, <2>1
  <2>2. CASE \E tail \in {<<>>, <<S!Bad>>} : cached' = (S!Good(cached) \o lines) \o tail
    <3>1. PICK tail \in {<<>>, <<S!Bad>>} : cached' = (S!Good(cached) \o lines) \o tail
      BY <2>2
    <3>2. "m" \in S!Details /\ lines \in Seq(Records) /\ cached' = Appended(cached, lines, tail)
      BY <1>6, <3>1 DEF S!Details, Appended
    <3>3. ReadsOn(Appended(cached, lines, tail), cached, lines, "m")
      BY <1>8, <3>2, AppendReads
    <3> QED BY <3>2, <3>3 DEF ReadsOn
  <2> QED BY <1>10, <2>1, <2>2
<1>13. /\ answer'.records = records /\ answer'.full = full
       /\ answer'.fresh = (IF saved = "whole" THEN fresh ELSE {})
  BY <1>2
<1>14. ASSUME NEW m \in S!Details, S!ReadDetails(cached', m) # Absent PROVE S!ReadDetails(cached', m).settled
  BY <1>3, <1>11, <1>14 DEF DetailsInv
<1>15. ASSUME NEW m \in S!Details
       PROVE  /\ answer'.records[m] # Absent /\ m \in answer'.full => answer'.records[m].level = "full"
              /\ answer'.records[m] # Absent /\ m \in answer'.fresh => S!ReadDetails(cached', m) # Absent
  <2>1. answer'.records[m] = IF m \in hit THEN kept(m) ELSE IF m \in found THEN record(m) ELSE Absent
    BY <1>13
  <2> HIDE DEF kept
  <2>2. answer'.records[m] # Absent /\ m \in answer'.full => answer'.records[m].level = "full"
    BY <1>3, <1>5, <1>13, <2>1
  <2>3. m \in answer'.fresh => S!ReadDetails(cached', m) # Absent
    BY <1>3, <1>11, <1>13
  <2> QED BY <2>2, <2>3
<1>16. DetailsInv'
  BY <1>2, <1>12, <1>14, <1>15 DEF DetailsInv
<1>17. S!FieldsKept
  <2> SUFFICES ASSUME NEW m \in S!Details, S!ReadDetails(cached, m) # Absent
               PROVE  /\ S!ReadDetails(cached', m) # Absent
                      /\ S!ReadDetails(cached, m).level = "full" => S!ReadDetails(cached', m).level = "full"
    BY DEF S!FieldsKept
  <2>1. m \in fresh => (m \in full /\ kept(m).level # "full") /\ record(m).level = "full"
    BY <1>3, <1>4
  <2> QED BY <1>3, <1>11, <2>1
<1> QED BY <1>16, <1>17

-----------------------------------------------------------------------------
(* Trades.                                                                   *)

TradesInv ==
    /\ held = [total |-> held.total, held |-> held.held]
    /\ held.total \in {Absent, 3, 4}
    /\ held.held \in [S!Trades -> (SUBSET S!Places) \ {{}}]
    /\ S!TradesAreWhole

\* MarketSide counts with a Cardinality of its own instance: it is the same.
LEMMA SizesAgree == \A X : S!Cardinality(X) = Cardinality(X)
BY DEF S!Cardinality, Cardinality

LEMMA ThreeTrades == S!Trades = {1, 2, 3} /\ Cardinality(S!Trades) = 3
<1>1. S!Trades = 1 .. 3 /\ 1 .. 3 = {1, 2, 3}
  BY DEF S!Trades
<1>2. Cardinality(1 .. 3) = IF 1 > 3 THEN 0 ELSE 3 - 1 + 1
  BY 1 \in Int, 3 \in Int, FS_Interval, Zenon
<1> QED BY <1>1, <1>2

LEMMA TradesStart ==
    ASSUME S!MarketAssumption, store = "trades", S!TradesInit
    PROVE  TradesInv
<1>1. PICK total \in {Absent, 3, 4}, h \in [S!Trades -> (SUBSET S!Places) \ {{}}] :
         held = [total |-> total, held |-> h]
  <2>1. Cardinality(S!Trades) = 3 /\ Cardinality(S!Trades) + 1 = 4
    BY ThreeTrades
  <2> QED BY <2>1, SizesAgree DEF S!TradesInit
<1>2. answer = Absent /\ cached = Absent
  BY DEF S!TradesInit
<1> QED BY <1>1, <1>2 DEF TradesInv, S!TradesAreWhole

\* Merged walks miss what is held where they did not go.
All == [t \in S!Trades |-> 1]
LEMMA MergedWhole ==
    ASSUME S!MarketAssumption, NEW walks,
           held.held \in [S!Trades -> (SUBSET S!Places) \ {{}}]
    PROVE  /\ (\A t \in S!Trades : \E w \in walks : t \in S!HeldAt(w)) => S!MergeWalks(walks) = All
           /\ held.total \in {Absent, 3, 4} /\ held.total = S!Volume(S!MergeWalks(walks))
                => S!MergeWalks(walks) = All
<1> DEFINE trades == S!MergeWalks(walks)
<1>1. trades \in [S!Trades -> {0, 1}]
  BY DEF S!MergeWalks
<1>2. ASSUME \A t \in S!Trades : \E w \in walks : t \in S!HeldAt(w) PROVE trades = All
  BY <1>2 DEF S!MergeWalks, All
<1>3. ASSUME held.total \in {Absent, 3, 4}, held.total = S!Volume(trades) PROVE trades = All
  <2> HIDE DEF trades
  <2>1. trades[1] \in {0, 1} /\ trades[2] \in {0, 1} /\ trades[3] \in {0, 1}
    BY <1>1, ThreeTrades
  <2>2. S!Volume(trades) \in Nat /\ S!Volume(trades) <= 3
    BY <2>1 DEF S!Volume
  <2>3. S!Volume(trades) = 3
    BY <1>3, <2>2 DEF S!MarketAssumption
  <2>4. trades[1] = 1 /\ trades[2] = 1 /\ trades[3] = 1
    BY <2>1, <2>3 DEF S!Volume
  <2>5. \A t \in S!Trades : trades[t] = 1
    BY <2>4, ThreeTrades
  <2> QED BY <1>1, <2>5 DEF All
<1> QED BY <1>2, <1>3

\* One call for trades.
LEMMA TradesStep ==
    ASSUME S!MarketAssumption, TradesInv, S!LoadMarketTrades
    PROVE  TradesInv'
<1>1. store = "trades" /\ UNCHANGED <<store, held>>
  BY SizesAgree DEF S!LoadMarketTrades
<1>2. PICK first \in S!Places, knows \in BOOLEAN, saved \in BOOLEAN :
        LET other   == CHOOSE p \in S!Places : p # first
            none    == /\ answer' = [trades |-> Absent, knew |-> knows]
                       /\ cached' = cached
            read(walks) ==
                LET trades == S!MergeWalks(walks)
                IN  /\ answer' = [trades |-> trades, knew |-> knows]
                    /\ cached' = IF held.total = S!Volume(trades) /\ saved THEN trades ELSE cached
        IN  /\ knows /\ ~S!Spanning => S!HeldAt(first) = S!Trades
            /\ IF cached # Absent
               THEN /\ answer' = [trades |-> cached, knew |-> TRUE]
                    /\ cached' = cached
               ELSE \E w \in S!Walks(first) :
                    CASE w = "failed" -> none
                      [] w = "404" -> \E v \in S!Walks(other) :
                            IF v = "whole" THEN read({other}) ELSE none
                      [] w = "whole" /\ knows /\ S!Spanning -> \E v \in S!Walks(other) :
                            CASE v = "whole" -> read(S!Places)
                              [] v = "404" -> read({first})
                              [] OTHER -> none
                      [] w = "whole" /\ ~knows /\ held.total # Absent
                             /\ held.total > S!Cardinality(S!HeldAt(first)) ->
                            \E v \in S!Walks(other) :
                                IF v = "whole" THEN read(S!Places) ELSE read({first})
                      [] OTHER -> read({first})
  BY DEF S!LoadMarketTrades
<1> DEFINE other == CHOOSE p \in S!Places : p # first
           full(walks) == \A t \in S!Trades : \E w \in walks : t \in S!HeldAt(w)
           none == /\ answer' = [trades |-> Absent, knew |-> knows]
                   /\ cached' = cached
           read(walks) ==
                LET trades == S!MergeWalks(walks)
                IN  /\ answer' = [trades |-> trades, knew |-> knows]
                    /\ cached' = IF held.total = S!Volume(trades) /\ saved THEN trades ELSE cached
<1>3. S!Places = {first, other} /\ other \in S!Places
  <2>1. \E p \in S!Places : p # first
    BY DEF S!Places
  <2>2. other \in S!Places /\ other # first
    BY <2>1
  <2> HIDE DEF other
  <2> QED BY <2>2 DEF S!Places
<1> HIDE DEF other
<1>4. held.held \in [S!Trades -> (SUBSET S!Places) \ {{}}] /\ held.total \in {Absent, 3, 4}
  BY DEF TradesInv
<1>5. full(S!Places)
  BY <1>4 DEF S!HeldAt
<1>6. S!HeldAt(first) = S!Trades => full({first})
  OBVIOUS
<1>7. S!HeldAt(other) = {} => full({first})
  BY <1>3, <1>4 DEF S!HeldAt
<1>8. S!HeldAt(first) = {} => full({other})
  BY <1>3, <1>4 DEF S!HeldAt
<1>9. \A p : ("404" \in S!Walks(p) => S!HeldAt(p) = {}) /\ S!Walks(p) \subseteq {"failed", "404", "whole"}
  BY DEF S!Walks
<1> HIDE DEF full, none, read
<1>10. \/ cached # Absent /\ answer' = [trades |-> cached, knew |-> TRUE] /\ cached' = cached
       \/ none
       \/ \E walks \in {{first}, {other}, S!Places} : read(walks) /\ (knows => full(walks))
  <2>1. knows /\ ~S!Spanning => S!HeldAt(first) = S!Trades
    BY <1>2
  <2>2. CASE cached # Absent
    BY <1>2, <2>2
  <2>3. CASE cached = Absent
    <3>1. PICK w \in S!Walks(first) :
                    CASE w = "failed" -> none
                      [] w = "404" -> \E v \in S!Walks(other) :
                            IF v = "whole" THEN read({other}) ELSE none
                      [] w = "whole" /\ knows /\ S!Spanning -> \E v \in S!Walks(other) :
                            CASE v = "whole" -> read(S!Places)
                              [] v = "404" -> read({first})
                              [] OTHER -> none
                      [] w = "whole" /\ ~knows /\ held.total # Absent
                             /\ held.total > S!Cardinality(S!HeldAt(first)) ->
                            \E v \in S!Walks(other) :
                                IF v = "whole" THEN read(S!Places) ELSE read({first})
                      [] OTHER -> read({first})
      BY <1>2, <2>3 DEF none, read, other
    <3>2. CASE w = "failed"
      BY <3>1, <3>2
    <3>3. CASE w = "404"
      <4>1. \E v \in S!Walks(other) : IF v = "whole" THEN read({other}) ELSE none
        BY <3>1, <3>3
      <4>2. full({other})
        BY <1>8, <1>9, <3>3
      <4> QED BY <4>1, <4>2
    <3>4. CASE w = "whole" /\ knows /\ S!Spanning
      <4>1. PICK v \in S!Walks(other) : CASE v = "whole" -> read(S!Places)
                                        [] v = "404" -> read({first})
                                        [] OTHER -> none
        BY <3>1, <3>4
      <4>2. v = "404" => full({first})
        BY <1>7, <1>9
      <4> QED BY <1>5, <4>1, <4>2
    <3>5. CASE w = "whole" /\ ~knows
      <4>1. read(S!Places) \/ read({first})
        BY <3>1, <3>5
      <4> QED BY <3>5, <4>1
    <3>6. CASE w = "whole" /\ knows /\ ~S!Spanning
      <4>1. read({first})
        BY <3>1, <3>6
      <4> QED BY <1>6, <2>1, <3>6, <4>1
    <3> QED BY <1>9, <3>2, <3>3, <3>4, <3>5, <3>6
  <2> QED BY <2>2, <2>3
<1>11. cached # Absent => cached = All
  BY <1>1 DEF TradesInv, S!TradesAreWhole, All
<1>12. /\ cached' # Absent => cached' = All
       /\ answer' # Absent /\ answer'.trades # Absent /\ answer'.knew => answer'.trades = All
  <2>1. CASE cached # Absent /\ answer' = [trades |-> cached, knew |-> TRUE] /\ cached' = cached
    BY <1>11, <2>1
  <2>2. CASE none
    BY <1>11, <2>2 DEF none
  <2>3. CASE \E walks \in {{first}, {other}, S!Places} : read(walks) /\ (knows => full(walks))
    <3>1. PICK walks : read(walks) /\ (knows => full(walks))
      BY <2>3
    <3>2. /\ answer' = [trades |-> S!MergeWalks(walks), knew |-> knows]
          /\ cached' = IF held.total = S!Volume(S!MergeWalks(walks)) /\ saved
                     THEN S!MergeWalks(walks) ELSE cached
      BY <3>1 DEF read
    <3>3. /\ full(walks) => S!MergeWalks(walks) = All
          /\ held.total = S!Volume(S!MergeWalks(walks)) => S!MergeWalks(walks) = All
      BY <1>4, MergedWhole DEF full
    <3>4. answer'.trades = S!MergeWalks(walks) /\ (answer'.knew <=> knows)
      BY <3>2
    <3> QED BY <1>11, <3>1, <3>2, <3>3, <3>4
  <2> QED BY <1>10, <2>1, <2>2, <2>3
<1> QED BY <1>1, <1>12 DEF TradesInv, S!TradesAreWhole, All

-----------------------------------------------------------------------------
(* The rule for scheduled closes.                                            *)

Timing == [close : {4}, latest : {5, Absent}, expected : {4, 5, Absent}]

RulesInv ==
    /\ held = [timing |-> held.timing, rows |-> held.rows]
    /\ held.timing \in [S!RuleMarkets -> Timing]
    /\ held.rows \subseteq S!RuleMarkets \X {4, 5}
    /\ answer # Absent => \A first \in held.rows : answer.rule = S!RuleFrom(first)

LEMMA RulesStart == S!RulesInit => RulesInv
BY DEF S!RulesInit, RulesInv, Timing

\* Whichever observation is read first, the rule is the same.
LEMMA RuleIsOne ==
    ASSUME S!MarketAssumption, RulesInv, NEW f \in held.rows, NEW g \in held.rows
    PROVE  S!RuleFrom(f) = S!RuleFrom(g)
<1> DEFINE t(r) == held.timing[r[1]]
           offset(r, field) == r[2] - t(r)[field]
           works(r) == {i \in 1 .. 3 : /\ t(r)[S!Preference[i]] # Absent
                                       /\ S!Fits(S!Preference[i], offset(r, S!Preference[i]))}
           pick(r) == S!Preference[CHOOSE i \in works(r) : \A j \in works(r) : i <= j]
           few == \/ Cardinality(S!Support) < MinSeen
                  \/ Cardinality({S!EventOf(r[1]) : r \in S!Support}) < MinEvents
           prints == {S!Gap(held.timing[s[1]]) : s \in S!Support}
<1>1. \A r \in held.rows : S!RuleFrom(r) =
         IF few \/ works(r) = {} THEN Absent
         ELSE [field |-> pick(r), offset |-> offset(r, pick(r)),
               prints |-> prints]
  BY SizesAgree DEF S!RuleFrom
<1>2. \A r \in held.rows : r[2] \in {4, 5} /\ t(r) \in Timing
  BY DEF RulesInv
<1>3. S!Preference \in [1 .. 3 -> S!Fields]
  BY DEF S!Preference, S!Fields
<1>4. ASSUME NEW r \in held.rows, NEW s \in held.rows, NEW i \in works(r)
      PROVE  i \in works(s) /\ offset(s, S!Preference[i]) = offset(r, S!Preference[i])
  <2> DEFINE field == S!Preference[i]
             a == t(r)[field]
             b == t(s)[field]
  <2>1. i \in 1 .. 3 /\ field \in S!Fields
    BY <1>3
  <2>2. a # Absent /\ b # Absent /\ b + offset(r, field) = s[2]
    BY DEF S!Fits
  <2>3. \A u \in Timing : u[field] \in {4, 5, Absent}
    BY <2>1 DEF Timing, S!Fields
  <2>4. a \in {4, 5} /\ b \in {4, 5}
    BY <1>2, <2>2, <2>3
  <2>5. offset(r, field) = r[2] - a /\ offset(s, field) = s[2] - b
    OBVIOUS
  <2>6. r[2] \in {4, 5} /\ s[2] \in {4, 5}
    BY <1>2
  <2>7. offset(s, field) = offset(r, field)
    <3> HIDE DEF a, b, offset
    <3> QED BY <2>2, <2>4, <2>5, <2>6
  <2>8. S!Fits(field, offset(r, field))
    OBVIOUS
  <2> QED BY <2>1, <2>2, <2>7, <2>8
<1>5. works(f) = works(g)
  BY <1>4
<1>6. works(f) # {} => pick(f) = pick(g) /\ offset(f, pick(f)) = offset(g, pick(g))
  <2> SUFFICES ASSUME works(f) # {}
               PROVE  pick(f) = pick(g) /\ offset(f, pick(f)) = offset(g, pick(g))
    OBVIOUS
  <2> DEFINE i == CHOOSE i \in works(f) : \A j \in works(f) : i <= j
  <2>1. i \in works(f)
    <3>1. \E n \in works(f) : \A j \in works(f) : n <= j
      <4>1. works(f) \in SUBSET Nat
        OBVIOUS
      <4> HIDE DEF works
      <4> QED BY <4>1, LeastOf
    <3> HIDE DEF works
    <3> QED BY <3>1
  <2>2. pick(f) = S!Preference[i] /\ pick(g) = S!Preference[i]
    BY <1>5
  <2> HIDE DEF i, works, pick
  <2> QED BY <1>4, <2>1, <2>2
<1>7. S!RuleFrom(f) = IF few \/ works(f) = {} THEN Absent
                    ELSE [field |-> pick(f), offset |-> offset(f, pick(f)),
                          prints |-> prints]
  BY <1>1
<1>8. S!RuleFrom(g) = IF few \/ works(g) = {} THEN Absent
                    ELSE [field |-> pick(g), offset |-> offset(g, pick(g)),
                          prints |-> prints]
  BY <1>1
<1> HIDE DEF t, works, pick, few, offset, prints
<1> QED BY <1>5, <1>6, <1>7, <1>8

\* It gives a market the close it was seen with, or none.
LEMMA RuleFits ==
    ASSUME S!MarketAssumption, RulesInv, NEW f \in held.rows, NEW r \in held.rows
    PROVE  S!ScheduledClose(held.timing[r[1]], S!RuleFrom(f)) \in {r[2], Absent}
<1> DEFINE t == held.timing[f[1]]
           offset(field) == f[2] - t[field]
           works == {i \in 1 .. 3 : /\ t[S!Preference[i]] # Absent
                                    /\ S!Fits(S!Preference[i], offset(S!Preference[i]))}
           field == S!Preference[CHOOSE i \in works : \A j \in works : i <= j]
           rule == [field |-> field, offset |-> offset(field),
                    prints |-> {S!Gap(held.timing[s[1]]) : s \in S!Support}]
           few == \/ Cardinality(S!Support) < MinSeen
                  \/ Cardinality({S!EventOf(s[1]) : s \in S!Support}) < MinEvents
<1>0. S!RuleFrom(f) = IF few \/ works = {} THEN Absent ELSE rule
  BY SizesAgree DEF S!RuleFrom
<1>1. S!RuleFrom(f) = Absent \/ (works # {} /\ S!RuleFrom(f) = rule)
  <2> HIDE DEF few, works, rule
  <2> QED BY <1>0
<1>2. CASE S!RuleFrom(f) = Absent
  BY <1>2 DEF S!ScheduledClose, S!CloseRuleApplies
<1>3. CASE works # {} /\ S!RuleFrom(f) = rule
  <2>0. works # {}
    <3> HIDE DEF works, rule
    <3> QED BY <1>3
  <2> DEFINE i == CHOOSE i \in works : \A j \in works : i <= j
  <2>1. i \in works
    <3>1. \E n \in works : \A j \in works : n <= j
      <4>1. works \in SUBSET Nat
        OBVIOUS
      <4> HIDE DEF works
      <4> QED BY <2>0, <4>1, LeastOf
    <3> HIDE DEF works
    <3> QED BY <3>1
  <2>2. field = S!Preference[i]
    OBVIOUS
  <2> HIDE DEF i, field
  <2>3. S!Fits(field, offset(field))
    BY <2>1, <2>2
  <2>4. S!RuleFrom(f).field = field /\ S!RuleFrom(f).offset = offset(field)
    BY <1>3
  <2>5. held.timing[r[1]][field] + offset(field) = r[2]
    BY <2>3 DEF S!Fits
  <2> HIDE DEF offset
  <2> QED BY <2>4, <2>5 DEF S!ScheduledClose
<1> QED BY <1>1, <1>2, <1>3

\* RuleFrom, by what Kalshi holds.
RuleOf(w, first) ==
    LET t == w.timing[first[1]]
        support == {r \in w.rows : /\ w.timing[r[1]].latest # Absent
                                   /\ w.timing[r[1]].expected # Absent}
        offset(field) == first[2] - t[field]
        fits(field, off) == \A r \in w.rows : /\ w.timing[r[1]][field] # Absent
                                              /\ w.timing[r[1]][field] + off = r[2]
        works == {i \in 1 .. 3 : /\ t[S!Preference[i]] # Absent
                                 /\ fits(S!Preference[i], offset(S!Preference[i]))}
    IN  IF \/ Cardinality(support) < MinSeen
           \/ Cardinality({S!EventOf(r[1]) : r \in support}) < MinEvents
           \/ works = {}
        THEN Absent
        ELSE LET field == S!Preference[CHOOSE i \in works : \A j \in works : i <= j]
             IN  [field |-> field, offset |-> offset(field),
                  prints |-> {S!Gap(w.timing[r[1]]) : r \in support}]

LEMMA RulesStep ==
    ASSUME S!MarketAssumption, RulesInv, S!LearnCloseRules
    PROVE  RulesInv'
<1>1. /\ UNCHANGED <<store, held, cached>>
      /\ \E first \in held.rows : answer' = [rule |-> S!RuleFrom(first)]
  BY DEF S!LearnCloseRules
<1>2. PICK first \in held.rows : answer' = [rule |-> S!RuleFrom(first)]
  BY <1>1
<1>3. \A f \in held.rows : answer'.rule = S!RuleFrom(f)
  BY <1>2, RuleIsOne
<1>4. \A f : S!RuleFrom(f)' = S!RuleFrom(f)
  <2>1. \A f : S!RuleFrom(f) = RuleOf(held, f)
    BY SizesAgree DEF S!RuleFrom, RuleOf, S!Support, S!Fits
  <2>2. \A f : S!RuleFrom(f)' = RuleOf(held', f)
    BY SizesAgree DEF S!RuleFrom, RuleOf, S!Support, S!Fits
  <2> QED BY <1>1, <2>1, <2>2
<1> QED BY <1>1, <1>3, <1>4 DEF RulesInv

LEMMA RulesGive ==
    ASSUME S!MarketAssumption, RulesInv
    PROVE  S!ScheduledCloseFits
<1> SUFFICES ASSUME answer # Absent
             PROVE  /\ \A first \in held.rows : answer.rule = S!RuleFrom(first)
                    /\ \A r \in held.rows : S!ScheduledClose(held.timing[r[1]], answer.rule) \in {r[2], Absent}
                    /\ \A m \in S!RuleMarkets : LET at == S!ScheduledClose(held.timing[m], answer.rule)
                                              IN  at # Absent => at >= held.timing[m].close
  BY DEF S!ScheduledCloseFits
<1>1. \A first \in held.rows : answer.rule = S!RuleFrom(first)
  BY DEF RulesInv
<1>2. \A r \in held.rows : S!ScheduledClose(held.timing[r[1]], answer.rule) \in {r[2], Absent}
  BY <1>1, RuleFits
<1>3. ASSUME NEW m \in S!RuleMarkets, S!ScheduledClose(held.timing[m], answer.rule) # Absent
      PROVE  S!ScheduledClose(held.timing[m], answer.rule) >= held.timing[m].close
  BY <1>3 DEF S!ScheduledClose
<1> QED BY <1>1, <1>2, <1>3

-----------------------------------------------------------------------------
(* All four.                                                                 *)

MarketInv ==
    /\ store \in {"candles", "details", "trades", "rules"}
    /\ store = "candles" => CandlesInv
    /\ store = "details" => DetailsInv
    /\ store = "trades" => TradesInv
    /\ store = "rules" => RulesInv

LEMMA MarketStart ==
    ASSUME S!MarketAssumption, S!Init
    PROVE  MarketInv
<1>1. CASE S!CandlesInit
  BY <1>1, CandlesStart DEF MarketInv, S!CandlesInit
<1>2. CASE S!DetailsInit
  BY <1>2, DetailsStart DEF MarketInv, S!DetailsInit
<1>3. CASE S!TradesInit
  <2>1. store = "trades"
    BY <1>3 DEF S!TradesInit
  <2> QED BY <1>3, <2>1, TradesStart DEF MarketInv
<1>4. CASE S!RulesInit
  BY <1>4, RulesStart DEF MarketInv, S!RulesInit
<1> QED BY <1>1, <1>2, <1>3, <1>4 DEF S!Init

\* Whatever is called, what is kept of a market stays whole.
LEMMA MarketStep ==
    ASSUME S!MarketAssumption, MarketInv, [S!Next]_(S!vars)
    PROVE  MarketInv' /\ S!FieldsKept
<1>1. CASE S!CandlesLater \/ S!FetchCandlesticks
  <2>1. store = "candles" /\ store' = store
    BY <1>1 DEF S!CandlesLater, S!FetchCandlesticks
  <2>2. CandlesInv'
    BY <1>1, <2>1, CandlesLaterStep, FetchStep DEF MarketInv
  <2> QED BY <2>1, <2>2 DEF MarketInv, S!FieldsKept
<1>2. CASE S!Settle \/ S!LoadMarketDetails
  <2>1. store = "details" /\ store' = store
    BY <1>2 DEF S!Settle, S!LoadMarketDetails
  <2>2. DetailsInv' /\ S!FieldsKept
    BY <1>2, <2>1, SettleStep, DetailsStep DEF MarketInv
  <2> QED BY <2>1, <2>2 DEF MarketInv
<1>3. CASE S!LoadMarketTrades
  <2>1. store = "trades" /\ store' = store
    BY <1>3 DEF S!LoadMarketTrades
  <2>2. TradesInv'
    BY <1>3, <2>1, TradesStep DEF MarketInv
  <2> QED BY <2>1, <2>2 DEF MarketInv, S!FieldsKept
<1>4. CASE S!LearnCloseRules
  <2>1. store = "rules" /\ store' = store
    BY <1>4 DEF S!LearnCloseRules
  <2>2. RulesInv'
    BY <1>4, <2>1, RulesStep DEF MarketInv
  <2> QED BY <2>1, <2>2 DEF MarketInv, S!FieldsKept
<1>5. CASE UNCHANGED S!vars
  <2>1. store' = store /\ held' = held /\ cached' = cached /\ answer' = answer
    BY <1>5 DEF S!vars
  <2>2. /\ CandlesInv' <=> CandlesInv
        /\ DetailsInv' <=> DetailsInv
    <3>1. \A w : S!Served(w)' = S!Served(w)
      BY <2>1 DEF S!Served
    <3> QED BY <2>1, <3>1 DEF CandlesInv, DetailsInv
  <2>3. TradesInv' <=> TradesInv
    BY <2>1 DEF TradesInv, S!TradesAreWhole
  <2>4. RulesInv' <=> RulesInv
    <3>1. \A f : S!RuleFrom(f) = RuleOf(held, f)
      BY SizesAgree DEF S!RuleFrom, RuleOf, S!Support, S!Fits
    <3>2. \A f : S!RuleFrom(f)' = RuleOf(held', f)
      BY SizesAgree DEF S!RuleFrom, RuleOf, S!Support, S!Fits
    <3>3. \A f : S!RuleFrom(f)' = S!RuleFrom(f)
      BY <2>1, <3>1, <3>2
    <3> QED BY <2>1, <3>3 DEF RulesInv
  <2>5. S!FieldsKept
    BY <2>1 DEF S!FieldsKept
  <2> QED BY <2>1, <2>2, <2>3, <2>4, <2>5 DEF MarketInv
<1> QED BY <1>1, <1>2, <1>3, <1>4, <1>5 DEF S!Next

\* What the invariant says of it.
LEMMA MarketInvGives ==
    ASSUME S!MarketAssumption, MarketInv
    PROVE  S!MarketKept
<1>1. S!CandlesAreWhole
  BY DEF MarketInv, CandlesInv, S!CandlesAreWhole
<1>2. S!DetailsAreFinal
  BY DEF MarketInv, DetailsInv, S!DetailsAreFinal
<1>3. S!TradesAreWhole
  BY DEF MarketInv, TradesInv, S!TradesAreWhole
<1>4. S!ScheduledCloseFits
  <2>1. store = "rules" => S!ScheduledCloseFits
    BY RulesGive DEF MarketInv
  <2> QED BY <2>1 DEF S!ScheduledCloseFits
<1> QED BY <1>1, <1>2, <1>3, <1>4 DEF S!MarketKept

-----------------------------------------------------------------------------
(* The two of them in Stores.                                                  *)

LEMMA InEventsStep ==
    ASSUME [StoresNext]_<<part, vars, side>>, part' = "events"
    PROVE  part = "events" /\ [E!Next]_(E!vars)
<1>1. UNCHANGED <<part, vars, side>> => part = "events" /\ UNCHANGED E!vars
  BY DEF side, E!vars
<1>2. StoresNext => part = "events" /\ E!Next
  BY DEF StoresNext, InCorpus, InEvents, InMarket, InSettings, E!Next
<1> QED BY <1>1, <1>2

LEMMA InMarketStep ==
    ASSUME [StoresNext]_<<part, vars, side>>, part' = "market"
    PROVE  part = "market" /\ [S!Next]_(S!vars)
<1>1. UNCHANGED <<part, vars, side>> => part = "market" /\ UNCHANGED S!vars
  BY DEF side, S!vars
<1>2. StoresNext => part = "market" /\ S!Next
  BY DEF StoresNext, InCorpus, InEvents, InMarket, InSettings, S!Next
<1> QED BY <1>1, <1>2

LEMMA PartStays ==
    ASSUME [StoresNext]_<<part, vars, side>> PROVE part' = part
BY DEF StoresNext, InCorpus, InEvents, InMarket, InSettings

\* What is kept or returned of the events is what Kalshi said, and what was
\* learned stays, whatever call fails or dies half-way.
THEOREM EventsStayTrue == StoresSpec => EventsAreKept
<1> DEFINE I == part = "events" => EventInv
<1>1. StoresInit => I
  BY EventStart DEF StoresInit
<1>2. I /\ [StoresNext]_<<part, vars, side>> => I' /\ (part = "events" => E!Kept)
  <2> SUFFICES ASSUME I, [StoresNext]_<<part, vars, side>>
               PROVE  I' /\ (part = "events" => E!Kept)
    OBVIOUS
  <2>1. part' = part
    BY PartStays
  <2> SUFFICES ASSUME part = "events" PROVE EventInv' /\ E!Kept
    BY <2>1
  <2>2. [E!Next]_(E!vars)
    BY <2>1, InEventsStep
  <2> QED BY <2>2, EventAssumption, EventStep
<1>3. I => (part = "events" => E!AnswersAreTrue)
  BY EventInvGives
<1>4. I /\ [StoresNext]_<<part, vars, side>> => [part = "events" => E!Kept]_side
  BY <1>2
<1> HIDE DEF I
<1> QED BY <1>1, <1>2, <1>3, <1>4, PTL DEF StoresSpec, EventsAreKept

\* What is kept of a market - its candles, its trades, its fields and its
\* scheduled close - is whole and final, and its fields stay.
THEOREM MarketStaysWhole == StoresSpec => MarketIsKept
<1> DEFINE I == part = "market" => MarketInv
<1>1. StoresInit => I
  BY MarketAssumption, MarketStart DEF StoresInit
<1>2. I /\ [StoresNext]_<<part, vars, side>> => I' /\ (part = "market" => S!FieldsKept)
  <2> SUFFICES ASSUME I, [StoresNext]_<<part, vars, side>>
               PROVE  I' /\ (part = "market" => S!FieldsKept)
    OBVIOUS
  <2>1. part' = part
    BY PartStays
  <2> SUFFICES ASSUME part = "market" PROVE MarketInv' /\ S!FieldsKept
    BY <2>1
  <2>2. [S!Next]_(S!vars)
    BY <2>1, InMarketStep
  <2> QED BY <2>2, MarketAssumption, MarketStep
<1>3. I => (part = "market" => S!MarketKept)
  BY MarketAssumption, MarketInvGives
<1>4. I /\ [StoresNext]_<<part, vars, side>> => [part = "market" => S!FieldsKept]_side
  BY <1>2
<1> HIDE DEF I
<1> QED BY <1>1, <1>2, <1>3, <1>4, PTL DEF StoresSpec, MarketIsKept

\* Both.
THEOREM WhatIsKeptStays == StoresSpec => StoresAreKept
BY EventsStayTrue, MarketStaysWhole DEF StoresAreKept
=============================================================================
