SPECIFICATION Spec
CONSTANTS
    player_num = 1
    rounds = 1
    Habits <- GoodHabits
    MaxMoves = 1
    StrcmpSees = TRUE
INVARIANT EndsWithReport
