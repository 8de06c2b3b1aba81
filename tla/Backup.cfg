CONSTANTS
    NumPages = 4
    PageSize = 2
    Tails <- MCTails
    Blank = Blank
SPECIFICATION Spec
CHECK_DEADLOCK FALSE
INVARIANTS DumpIsImage RestoresAllButLast
