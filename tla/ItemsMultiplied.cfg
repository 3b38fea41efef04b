CONSTANTS
    anna = anna
    ben = ben
    small = small
    big = big
    chest = chest
    wood = wood
    plank = plank
    axe = axe
    None = None
    Builders = {anna, ben}
    Grids = {small, big}
    Small = small
    Chests = {chest}
    Items <- MCItems
    Wild <- MCWild
    Size <- MCSize
    Recipes <- MCRecipes
    Loot <- MCLoot
    StackMax = 2
    Survival = TRUE
    MaxEvents = 4
    MaxItems = 3
SPECIFICATION Spec
PROPERTY NothingMultiplied
CHECK_DEADLOCK FALSE
