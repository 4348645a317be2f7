SPECIFICATION FairSpec
CONSTANTS
    ann = ann
    bob = bob
    shell = shell
    Kind = {"price_alerts"}
    Post = {"deals_post"}
    JobOrder <- MCPostOrder
    At <- MCAt
    Account = {ann}
    Linked = {}
    Rule <- MCRule
    Price = {90}
    DayLength = 3
    RetryAfter = 1
    CatchUp = 1
    RepeatAfter = 1
    Shell = {}
    MaxRuns = 3
    MaxManual = 0
    MaxStops = 0
CHECK_DEADLOCK FALSE
PROPERTIES MailsKeepGoing
