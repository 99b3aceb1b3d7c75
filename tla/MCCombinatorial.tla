--------------------------- MODULE MCCombinatorial ---------------------------
(* INI files of up to six sections: with two MiddlewareGet or TestRun        *)
(* sections, with up to two lists in one section or in two, with a section    *)
(* that is to be skipped, with one that has no option, with one that has only *)
(* a list, with a list that has an item twice, without a TestRun section, and *)
(* one of six for which there are too few descriptors.  One of the wild cards *)
(* has two stars in a row.                                                    *)
EXTENDS Combinatorial

MCLetter == {"g", "r", "x", "s"}
MCSkip == <<"s">>
MCEnv == <<"r", "g">>
MCStoring == {<<"g">>, <<"g", "x">>, <<"x">>}
MCDollar == {"d"}
MCGet == <<"g">>
MCRun == <<"r">>

Sec(name, options) == [name |-> name, options |-> options]
One == <<"one", <<"a">> >>
Two == <<"two", <<"a", "b">> >>
Three == <<"three", <<"a", "b", "c">> >>

Get == Sec(<<"g">>, <<One>>)
GetX == Sec(<<"g", "x">>, <<Two>>)
Run == Sec(<<"r">>, <<One, Two>>)
RunX == Sec(<<"x", "r", "x">>, <<>>)
Build == Sec(<<"x">>, <<One, Two>>)
BuildXX == Sec(<<"x", "x">>, <<Three, One>>)
Skipped == Sec(<<"s", "g">>, <<Two>>)
Empty == Sec(<<"x", "s">>, <<>>)
Bare == Sec(<<"x", "s">>, <<Two>>)
Same == Sec(<<"x">>, <<One, <<"two", <<"a", "a">> >> >>)
Money == Sec(<<"x">>, << <<"two", <<"a", "d">> >> , One>>)

MCOption == {"one", "two", "three"}
MCItem == {"a", "b", "c", "d"}

MCSections == {
    <<Get, Build, Run>>, <<Get, GetX, Run, RunX, Empty>>,
    <<Build, Skipped, Run, Get, GetX>>, <<BuildXX, Build, RunX, GetX>>,
    <<Get, GetX, Sec(<<"x", "g">>, <<>>), Run, RunX, Sec(<<"r", "x">>, <<One>>)>>,
    <<Get, Bare, Run>>, <<Get, Money, Run>>, <<Get, Same, Run>>, <<Get, Build, Skipped>>, <<Run, BuildXX, Get, GetX>> }

MCGiven == {
    << <<"x">> >>, << <<"*">> >>, << <<"g", "*">>, <<"r">> >>, << <<"*", "x">> >>,
    << <<"x", "*", "x">> >>, << <<"x", "*", "r", "*", "x">> >>, << <<"*", "g">> >>,
    << <<"x", "*", "*">> >>, << <<"r">>, <<"r">> >>, << <<"s", "g">> >> }

MCInputs ==
    [mode : {"section", "skip"}, given : MCGiven, sections : MCSections, clean : BOOLEAN]
      \cup [mode : {"all"}, given : {<<>>}, sections : MCSections, clean : BOOLEAN]
=============================================================================
