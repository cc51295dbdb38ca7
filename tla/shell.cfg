SPECIFICATION ShellSpec
CONSTANTS
    player_num = 2
    rounds = 2
    Habits <- AllHabits
    MaxMoves = 1
    StrcmpSees = TRUE
    MAX_POSITION = 8
    Targets <- Spread
    Limits <- MCLimits
    Programs <- AllPrograms
    JUMP_TIME = 5
INVARIANTS TypeOK InStep FailsDeserved ScoresAddUp NothingLeft PlaysFair KnowsWhere
PROPERTIES CtlCSpares EveryTournamentEnds EveryGameEnds
