SPECIFICATION Spec
CONSTANTS
    Nil = Nil
    Keys = {k1, k2}
    Actions <- MCActions
    Prompts <- MCPrompts
    PathGlobs <- MCPathGlobs
    Fits <- MCFits
    Family <- MCFamily
    KeywordsFor <- MCKeywordsFor
    WordsOf <- MCWordsOf
    Clearances = {"intent", "pair"}
    Ttl = 1
    MaxEntries = 1
    MaxDelay = 1
    MaxClock = 4
    MaxConsults = 2
    MaxFaults = 1
SYMMETRY MCSymmetry
INVARIANTS
    AllowWarranted
    DenialJust
