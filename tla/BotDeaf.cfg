\* A rotation fails before its webhook is set; the next check calls the bot ACTIVE.
SPECIFICATION Spec
CONSTANTS
    Handlers = {h1}
    MaxToken = 2
    MaxSecret = 2
    MaxFaults = 1
PROPERTY CheckedBotListens
