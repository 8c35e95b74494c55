SPECIFICATION Spec
CONSTANTS
    eventsub = eventsub
    irc = irc
    bot = bot
    tts = tts
    Process = {eventsub, irc, bot, tts}
    Eventsub = eventsub
    Irc = irc
    Stack <- MCStack
CHECK_DEADLOCK FALSE
INVARIANTS
    NothingLeftBehind
    OneChatIngress
PROPERTIES
    EverybodyStops
