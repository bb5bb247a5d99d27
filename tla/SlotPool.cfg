SPECIFICATION FairSpec
CONSTANTS
    heavy = heavy
    bash2 = bash2
    git = git
    bash = bash
    short = short
    Dispatches = {heavy, git, bash, bash2, short}
    Heavies = {heavy}
    Gits = {git}
    Blockings = {bash, bash2}
    Shorts = {short}
    Hung = {heavy, bash}
    Size = 2
    MaxHeavy = 3
    Gone = Gone
CHECK_DEADLOCK FALSE
INVARIANTS
    PoolSound
PROPERTIES
    DispatchesEnd
