---------------------------- MODULE Combinatorial ----------------------------
(* combinatorial.py: the INI files are taken apart into one file for every    *)
(* combination of a MiddlewareGet section, a TestRun section and the items of *)
(* the options of other sections that are lists with commas; the sequential   *)
(* executor runs them one after the other.                                    *)
EXTENDS TestDef

CONSTANTS
    Option,     \* what options are called
    Item,       \* what they may be set to, or have between commas
    Inputs,     \* what mtt may be given: mode, given (TestDef), clean (the
                \*   option clean_after), and sections, in the order of the
                \*   files: records of name and options, a sequence of
                \*   <<option, items>>, more than one item where it has commas
    Env,        \* the hidden section of the environment, which is there before
                \*   the files are read
    Storing,    \* the sections whose plugins write into the scratch directory
    Dollar,     \* the items that, read once, have a $ that stands alone, as $$
    GetMark,    \* what a name has in it: MiddlewareGet
    RunMark,    \* TestRun
    MaxOpen     \* bound: descriptors that the process may have open

\* ConfigParser takes no section twice, and no option twice in a section.
OnceEach(sections) ==
    /\ \A k, m \in DOMAIN sections : sections[k].name = sections[m].name => k = m
    /\ \A k \in DOMAIN sections :
          LET options == sections[k].options
          IN  \A i, j \in DOMAIN options : options[i][1] = options[j][1] => i = j

ASSUME CombinatorialAssumption ==
    /\ MaxOpen \in Nat /\ Dollar \subseteq Item
    /\ Env \in Seq(Letter)
    /\ \A x \in Inputs :
          /\ x.mode \in {"section", "skip", "all"}
          /\ x.given \in Seq(Seq(Letter \cup {Star}))
          /\ x.sections \in Seq([name : Seq(Letter), options : Seq(Option \X Seq(Item))])
          /\ OnceEach(x.sections)

VARIABLES
    input,      \* INI files and arguments
    actives,    \* testDef.actives
    pc,         \* where in execute()
    runLog,     \* the files, functions of their section names to functions of
                \*   option names to items
    csv,        \* the options that are lists: <<section, option, items>>
    opened,     \* descriptors of mkstemp, which nobody closes
    tempDir,    \* whether the temporary directory is there
    config,     \* the file that configNewTest has read
    ended,      \* the files that have been run, with their status
    scratch     \* what is in the scratch directory: <<section, the number of the
                \*   file with which it was run>>

vars == <<input, actives, pc, runLog, csv, opened, tempDir, config, ended, scratch>>

NoFile == [s \in {} |-> <<>>]
Names == <<Env>> \o [k \in DOMAIN input.sections |-> input.sections[k].name]

Init ==
    /\ input \in Inputs
    /\ actives = <<>> /\ pc = "config"
    /\ runLog = <<>> /\ csv = <<>> /\ opened = 0
    /\ tempDir = TRUE
    /\ config = NoFile /\ ended = <<>> /\ scratch = {}

\* sys.exit, or an exception, outside of execute's try: the directory stays.
Quit(how) == pc' = how /\ UNCHANGED <<tempDir, config, ended, scratch>>
-----------------------------------------------------------------------------
\* configTest, before the executor is looked for.
ConfigTest ==
    /\ pc = "config"
    /\ IF \/ Breaks(input.mode, input.given, Names)
          \/ Refuses(input.mode, input.given, Names)
       THEN Quit("exit") /\ UNCHANGED actives
       ELSE /\ actives' = Choose(input.mode, input.given, Names)
            /\ pc' = "sort"
            /\ UNCHANGED <<tempDir, config, ended, scratch>>
    /\ UNCHANGED <<input, runLog, csv, opened>>

HasMark(mark, section) == Find(mark, section.name, 1) # 0
IsGet(section) == Live(section.name) /\ HasMark(GetMark, section)
IsRun(section) == Live(section.name) /\ ~IsGet(section) /\ HasMark(RunMark, section)
IsOther(section) == Live(section.name) /\ ~IsGet(section) /\ ~IsRun(section)

Gets == Those(input.sections, {x \in ToSet(input.sections) : IsGet(x)})
Runs == Those(input.sections, {x \in ToSet(input.sections) : IsRun(x)})
Others == Those(input.sections, {x \in ToSet(input.sections) : IsOther(x)})

IsList(option) == Len(option[2]) > 1
ListsOf(section) == Those(section.options, {o \in ToSet(section.options) : IsList(o)})
PlainOf(section) == Those(section.options, {o \in ToSet(section.options) : ~IsList(o)})
Content(options) ==
    [o \in {options[k][1] : k \in DOMAIN options} |->
        options[CHOOSE k \in DOMAIN options : options[k][1] = o][2]]

\* The file of a MiddlewareGet and a TestRun section: these as they are, and of
\* the others the options that are no lists; one that has none is not added.
File(get, run) ==
    LET rest == {section \in ToSet(Others) : PlainOf(section) # <<>>}
        plain(s) == Content(PlainOf(CHOOSE r \in rest : r.name = s))
    IN  [s \in {get.name, run.name} \cup {r.name : r \in rest} |->
            IF s = get.name THEN Content(get.options)
            ELSE IF s = run.name THEN Content(run.options) ELSE plain(s)]

Lists ==
    FlattenSeq([k \in DOMAIN Others |->
        LET lists == ListsOf(Others[k])
        IN  [i \in DOMAIN lists |-> <<Others[k].name, lists[i][1], lists[i][2]>>]])

Put(file, s, o, item) ==
    [file EXCEPT ![s] =
        [p \in DOMAIN file[s] \cup {o} |-> IF p = o THEN <<item>> ELSE file[s][p]]]

\* createIniLog up to the lists.  There has to be a file of each of the kinds.
Sort ==
    /\ pc = "sort"
    /\ opened' = Len(Gets \o Runs \o Others) + Len(Gets) * Len(Runs)
    /\ IF opened' > MaxOpen THEN Quit("raised") /\ UNCHANGED <<runLog, csv>>
       ELSE IF Gets = <<>> \/ Runs = <<>> THEN Quit("exit") /\ UNCHANGED <<runLog, csv>>
       ELSE /\ runLog' = [k \in 1 .. Len(Gets) * Len(Runs) |->
                    File(Gets[((k - 1) \div Len(Runs)) + 1], Runs[((k - 1) % Len(Runs)) + 1])]
            /\ csv' = Lists
            /\ pc' = "multiply"
            /\ UNCHANGED <<tempDir, config, ended, scratch>>
    /\ UNCHANGED <<input, actives>>

\* Mutant: the last item of a list is left out.
MultiplyShort ==
    /\ pc = "multiply" /\ csv # <<>>
    /\ LET s == csv[1][1]
           o == csv[1][2]
           items == Front(csv[1][3])
           n == Len(items)
       IN  /\ opened' = opened + Len(runLog) * n
           /\ IF opened' > MaxOpen \/ \E k \in DOMAIN runLog : s \notin DOMAIN runLog[k]
              THEN Quit("raised") /\ UNCHANGED <<runLog, csv>>
              ELSE /\ runLog' = [k \in 1 .. Len(runLog) * n |->
                       Put(runLog[((k - 1) \div n) + 1], s, o, items[((k - 1) % n) + 1])]
                   /\ csv' = Tail(csv)
                   /\ UNCHANGED <<pc, tempDir, config, ended, scratch>>
    /\ UNCHANGED <<input, actives>>

\* Each list multiplies the files by its items.  A section that was not added
\* is not added here either: NoSectionError.
Multiply ==
    /\ pc = "multiply" /\ csv # <<>>
    /\ LET s == csv[1][1]
           o == csv[1][2]
           items == csv[1][3]
           n == Len(items)
       IN  /\ opened' = opened + Len(runLog) * n
           /\ IF opened' > MaxOpen \/ \E k \in DOMAIN runLog : s \notin DOMAIN runLog[k]
              THEN Quit("raised") /\ UNCHANGED <<runLog, csv>>
              ELSE /\ runLog' = [k \in 1 .. Len(runLog) * n |->
                       Put(runLog[((k - 1) \div n) + 1], s, o, items[((k - 1) % n) + 1])]
                   /\ csv' = Tail(csv)
                   /\ UNCHANGED <<pc, tempDir, config, ended, scratch>>
    /\ UNCHANGED <<input, actives>>

\* Mutant: the lists are not gone through to the end.
CreatedEarly ==
    /\ pc = "multiply"
    /\ pc' = "run"
    /\ UNCHANGED <<input, actives, runLog, csv, opened, tempDir, config, ended, scratch>>

\* execute has its files.
Created ==
    /\ pc = "multiply" /\ csv = <<>>
    /\ pc' = "run"
    /\ UNCHANGED <<input, actives, runLog, csv, opened, tempDir, config, ended, scratch>>

\* Leaving execute's try: the directory is removed.
Leave(how) == pc' = how /\ tempDir' = FALSE
-----------------------------------------------------------------------------
\* The sections of the file that may write into the scratch directory.
Writers == {actives[k] : k \in DOMAIN actives} \cap DOMAIN config \cap Storing

\* An item that cannot be read a second time: the items were written as read.
HasDollar(file) ==
    \E s \in DOMAIN file : \E o \in DOMAIN file[s] : ToSet(file[s][o]) \cap Dollar # {}

\* configNewTest: the sections are removed, the next file is read.
ConfigNewTest ==
    /\ pc = "run" /\ Len(ended) < Len(runLog)
    /\ config' = runLog[Len(ended) + 1]
    /\ IF HasDollar(config') THEN Leave("raised") ELSE pc' = "test" /\ UNCHANGED tempDir
    /\ UNCHANGED <<input, actives, runLog, csv, opened, ended, scratch>>

\* What is in the scratch directory once some sections have written there: each
\* has the same path in every combination.
Written(sections) ==
    {r \in scratch : r[1] \notin sections} \cup (sections \X {Len(ended) + 1})

\* executeTest: some of the sections write into the scratch directory, with
\* whatever status; with clean_after a success removes it.  A section that fails
\* with stop_on_fail is a status as well: the sequential executor takes the exit.
ExecuteTest ==
    /\ pc = "test"
    /\ \E status \in {0, 1}, sections \in SUBSET Writers :
          /\ ended' = Append(ended, [file |-> config, status |-> status])
          /\ scratch' = IF status = 0 /\ input.clean THEN {} ELSE Written(sections)
    /\ pc' = "run"
    /\ UNCHANGED <<input, actives, runLog, csv, opened, tempDir, config>>

\* An interrupt between two sections, or an exception of the executor's own
\* handlers: the rest is not run.
ExecuteTestExits ==
    /\ pc = "test"
    /\ Leave("exit")
    /\ \E sections \in SUBSET Writers : scratch' = Written(sections)
    /\ UNCHANGED <<input, actives, runLog, csv, opened, config, ended>>

\* Mutant: the status is that of the last combination.
FinishLast ==
    /\ pc = "run" /\ Len(ended) = Len(runLog)
    /\ Leave(IF ended[Len(ended)].status # 0 THEN "failed" ELSE "passed")
    /\ UNCHANGED <<input, actives, runLog, csv, opened, config, ended, scratch>>

\* The status is that of the worst combination.
Finish ==
    /\ pc = "run" /\ Len(ended) = Len(runLog)
    /\ Leave(IF \E k \in DOMAIN ended : ended[k].status # 0 THEN "failed" ELSE "passed")
    /\ UNCHANGED <<input, actives, runLog, csv, opened, config, ended, scratch>>

Over == pc \in {"exit", "raised", "failed", "passed"} /\ UNCHANGED vars

Work ==
    \/ ConfigTest \/ Sort \/ Multiply \/ Created \/ ConfigNewTest
    \/ ExecuteTest \/ ExecuteTestExits \/ Finish

Next == Work \/ Over
Spec == Init /\ [][Next]_vars
-----------------------------------------------------------------------------
(* Properties.                                                               *)

Final == {"exit", "raised", "failed", "passed"}

ScratchOK == scratch \subseteq {Names[k] : k \in DOMAIN Names} \X (1 .. Len(ended) + 1)

\* The types of the variables; nothing is run before the lists are through.
TypeOK ==
    /\ input \in Inputs
    /\ pc \in {"config", "sort", "multiply", "run", "test"} \cup Final
    /\ {actives[k] : k \in DOMAIN actives} \subseteq {Names[k] : k \in DOMAIN Names}
    /\ opened \in Nat /\ (pc # "raised" => opened <= MaxOpen)
    /\ tempDir \in BOOLEAN
    /\ pc \in {"run", "test"} => csv = <<>>
    /\ ScratchOK

\* What a wild card should match: each star any letters, the rest itself; i
\* characters of the wild card match the first to[i] of the name.
Glob(w, s) ==
    \E to \in [0 .. Len(w) -> 0 .. Len(s)] :
       /\ to[0] = 0 /\ to[Len(w)] = Len(s)
       /\ \A i \in DOMAIN w :
             IF w[i] = Star THEN to[i - 1] <= to[i]
             ELSE to[i] = to[i - 1] + 1 /\ w[i] = s[to[i]]

Given(s) == \E k \in DOMAIN input.given : Glob(input.given[k], s)

\* Wild cards with one star whose beginning and end cannot overlap in s: of the
\* others the code takes some that do not match, as a*a*b does for ab.
Clear(s) ==
    \A k \in DOMAIN input.given :
       LET w == input.given[k]
       IN  HasStar(w) => /\ Cardinality({i \in DOMAIN w : w[i] = Star}) = 1
                         /\ Len(s) >= Len(w) - 1

\* The active sections are those that --section names or its wild cards match,
\* or those that --skipsections does not, in the order of the files and without
\* the ones marked to be skipped (TestDef.py:696-717).
ActivesRight ==
    pc \notin {"config", "exit"} =>
       \A k \in DOMAIN Names :
          LET s == Names[k]
              active == Contains(actives, s)
          IN  IF IsPrefix(SkipMark, s) THEN ~active
              ELSE IF input.mode = "all" THEN active
              ELSE /\ Given(s) => (active = (input.mode = "section"))
                   /\ ~Given(s) /\ Clear(s) => (active = (input.mode = "skip"))

\* With --section mtt goes on only if each name without a wild card is that of
\* a section that is active (TestDef.py:719-721).
MissingRefused ==
    pc \notin {"config", "exit"} /\ input.mode = "section" =>
       \A k \in DOMAIN input.given :
          HasStar(input.given[k]) \/ Contains(actives, input.given[k])

\* The sections that are asked for are run, and those only.
SectionsRight == ActivesRight /\ MissingRefused

\* What a combination is: one section of each kind, whole, and of the other
\* sections every option, with one of its items.
IsCombination(file) ==
    \E i \in DOMAIN Gets, j \in DOMAIN Runs :
       LET get == Gets[i]
           run == Runs[j]
           rest == {k \in DOMAIN Others : Others[k].options # <<>>}
       IN  /\ DOMAIN file = {get.name, run.name} \cup {Others[k].name : k \in rest}
           /\ file[get.name] = Content(get.options) /\ file[run.name] = Content(run.options)
           /\ \A k \in rest :
                 LET all == Content(Others[k].options)
                     one == file[Others[k].name]
                 IN  /\ DOMAIN one = DOMAIN all
                     /\ \A o \in DOMAIN all :
                           IF Len(all[o]) > 1
                           THEN \E n \in DOMAIN all[o] : one[o] = <<all[o][n]>>
                           ELSE one[o] = all[o]

Combinations ==
    LET files[k \in 0 .. Len(Lists)] ==
            IF k = 0 THEN Len(Gets) * Len(Runs) ELSE files[k - 1] * Len(Lists[k][3])
    IN  files[Len(Lists)]

\* The files that are run are the combinations, each of them once, if no list
\* has an item twice (combinatorial.py:97-170).
AllCombinations ==
    pc \in {"run", "test"} =>
       /\ Len(runLog) = Combinations
       /\ \A k \in DOMAIN runLog : IsCombination(runLog[k])
       /\ (\A m \in DOMAIN Lists : IsInjective(Lists[m][3])) => IsInjective(runLog)

\* What is run is a combination and nothing of the one before, and they are run
\* in the order in which they have been made (combinatorial.py:181-186).
OneByOne ==
    /\ \A k \in DOMAIN ended : ended[k].file = runLog[k]
    /\ pc = "test" => config = runLog[Len(ended) + 1]

\* All combinations are made, and run, as they should be.
CombinationsRight == AllCombinations /\ OneByOne

\* mtt passes only if every combination has been run and has passed, and fails
\* only if all have been run and one has failed (combinatorial.py:185-193).
StatusTells ==
    pc \in {"failed", "passed"} =>
       /\ Len(ended) = Combinations
       /\ (pc = "failed") = (\E k \in DOMAIN ended : ended[k].status # 0)

\* What is in the scratch directory was left there by one combination, which has
\* that section, and with clean_after by one after all that passed (TestDef.py:
\* 733-742, 782-784).
ScratchRight ==
    \A r \in scratch :
       /\ r[1] \in DOMAIN runLog[r[2]]
       /\ \A q \in scratch : q[1] = r[1] => q = r
       /\ input.clean => \A m \in DOMAIN ended : ended[m].status = 0 => m < r[2]

\* By hand, and not so: what a combination that failed has left is removed by
\* nothing but the cleanup after a success (pymtt.py:107).
FailedKept ==
    [][\A r \in scratch :
          r[2] \in DOMAIN ended /\ ended[r[2]].status # 0 => r \in scratch' \/ scratch' = {}]_vars

\* Once the files were made the temporary directory does not outlive mtt, even
\* if a section or an interrupt ends it (combinatorial.py:177-191).
TempRemoved == pc \in Final /\ (ended # <<>> \/ config # NoFile) => ~tempDir

\* However mtt ends, status, results and temporary files tell what happened.
Outcome == StatusTells /\ ScratchRight /\ TempRemoved

=============================================================================
