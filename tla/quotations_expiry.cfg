SPECIFICATION FairSpec
CONSTANTS
    Quotes = 2
    Session = {p1}
    MostMade = 2
    Scenes = {{"drafts"}}
PROPERTY LapsedExpire
CHECK_DEADLOCK FALSE
