------------------------------- MODULE TestDef -------------------------------
(* TestDef.py: which sections of the INI files are active, for the section    *)
(* names and wild cards that --section or --skipsections give.  Names are     *)
(* sequences of letters.                                                      *)
EXTENDS Integers, SequencesExt

CONSTANTS
    Letter,     \* what names are made of
    Star,       \* the wild card
    SkipMark    \* how the name begins of a section that is to be skipped

ASSUME TestDefAssumption == Star \notin Letter /\ SkipMark \in Seq(Letter)

\* Those of a list that are in a set.
Those(list, X) ==
    LET upTo[i \in 0 .. Len(list)] ==
            IF i = 0 THEN <<>>
            ELSE IF list[i] \in X THEN Append(upTo[i - 1], list[i]) ELSE upTo[i - 1]
    IN  upTo[Len(list)]

HasStar(w) == Contains(w, Star)
Wild(given) == {w \in ToSet(given) : HasStar(w)}

\* sec.split('*'): the pieces between the stars.
Split(w) ==
    LET stars == Those([i \in DOMAIN w |-> i], {i \in DOMAIN w : w[i] = Star})
        cuts == <<0>> \o stars \o <<Len(w) + 1>>
    IN  [k \in 1 .. Len(stars) + 1 |-> SubSeq(w, cuts[k] + 1, cuts[k + 1] - 1)]

\* Where p begins in s, from i on; 0 if it is not there.
Find(p, s, i) ==
    LET at == {k \in i .. Len(s) - Len(p) + 1 : SubSeq(s, k, k + Len(p) - 1) = p}
    IN  IF at = {} THEN 0 ELSE CHOOSE k \in at : \A m \in at : k <= m

\* Mutant: the end of the name is not looked at.
MatchesBegin(w, s) ==
    LET pieces == Split(w)
    IN  /\ IsPrefix(pieces[1], s)
        /\ \A k \in 2 .. Len(pieces) - 1 : Find(pieces[k], s, 1) # 0

\* Where to go on after each of the pieces between the first and the last, which
\* are found in the whole name, each after the one before; 0 if one is not there.
After(pieces, s) ==
    LET after[k \in 1 .. Len(pieces) - 1] ==
            IF k = 1 THEN 1
            ELSE LET at == IF after[k - 1] = 0 THEN 0 ELSE Find(pieces[k], s, after[k - 1])
                 IN  IF at = 0 THEN 0 ELSE at + Len(pieces[k])
    IN  after

\* The first piece begins the name, the last one ends it.
Ends(pieces, s) == IsPrefix(pieces[1], s) /\ IsSuffix(pieces[Len(pieces)], s)

\* expandWildCards: what a wild card is taken to match.
Matches(w, s) ==
    LET pieces == Split(w)
    IN  Ends(pieces, s) /\ After(pieces, s)[Len(pieces) - 1] # 0

\* The names that are given, then for each wild card what it matches.
ExpandWildCards(given, names) ==
    LET wild == Those(given, Wild(given))
        expand(w) == Those(names, {s \in ToSet(names) : Matches(w, s)})
    IN  Those(given, ToSet(given) \ Wild(given))
          \o FlattenSeq([k \in DOMAIN wild |-> expand(wild[k])])

\* Between two stars in a row is the empty piece: split('') raises ValueError, if
\* a name gets as far as that.
Breaks(mode, given, names) ==
    mode # "all" /\ \E w \in Wild(given), s \in ToSet(names) :
        LET pieces == Split(w)
        IN  Ends(pieces, s) /\ \E k \in 2 .. Len(pieces) - 1 :
                pieces[k] = <<>> /\ After(pieces, s)[k - 1] # 0

Live(name) == ~IsPrefix(SkipMark, name)
Asked(mode, given, names) == IF mode = "all" THEN <<>> ELSE ExpandWildCards(given, names)

\* configTest: which of the sections of the files, all of different names, are
\* active.  One that is to be skipped is not looked for.
Choose(mode, given, names) ==
    LET asked == Asked(mode, given, names)
        takeus(s) == mode = "all" \/ Contains(asked, s) = (mode = "section")
    IN  Those(names, {s \in ToSet(names) : Live(s) /\ takeus(s)})

\* A section that is found is taken out of the list, once; names that are left
\* over end mtt with an error.
Refuses(mode, given, names) ==
    LET asked == Asked(mode, given, names)
    IN  mode = "section" /\ \E k \in DOMAIN asked :
            \/ ~Contains(names, asked[k]) \/ ~Live(asked[k])
            \/ Contains(SubSeq(asked, 1, k - 1), asked[k])
=============================================================================
