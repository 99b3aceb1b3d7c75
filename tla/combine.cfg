\* Thirteen descriptors are enough for the sections of every input but one, and
\* for the combinations of every input but two.
CONSTANTS
    Letter <- MCLetter
    Star = "*"
    SkipMark <- MCSkip
    GetMark <- MCGet
    Env <- MCEnv
    Storing <- MCStoring
    Dollar <- MCDollar
    RunMark <- MCRun
    Option <- MCOption
    Item <- MCItem
    Inputs <- MCInputs
    MaxOpen = 13
SPECIFICATION Spec
INVARIANTS TypeOK SectionsRight CombinationsRight Outcome
