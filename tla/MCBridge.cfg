SPECIFICATION RadioSpec
CONSTANTS
    Window = 5
    Limit = 3
    Capacity = 3
    ClockMod = 19
    Costs = {1, 2}
    Airtimes = {3, 5}
    Grain = 2
INVARIANT WithinDutyCycle
PROPERTIES BudgetComesBack RadioServiced
