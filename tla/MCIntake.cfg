SPECIFICATION Spec
CONSTANTS
    Texts <- MCTexts
    Answers <- MCAnswers
    Pasts <- MCPasts
    Projects = {home}
    DefaultProject = home
    Rules = {"prefer_clarify_over_wrong_autocreate"}
    Preferences = {"prefer_telegram_command_channel"}
    MaxHeard = 2
    MaxMissions = 2
    MaxDrafts = 2
    MaxDeals = 1
    MaxAmount = 1
    Nil = Nil
    NoReply = NoReply
    OffTopic = OffTopic
INVARIANTS
    TypeOK
    DraftUsedOnce

    
CHECK_DEADLOCK FALSE
