SPECIFICATION Spec
CONSTANTS
    ann = ann
    bob = bob
    shell = shell
    Kind = {"price_alerts"}
    Post = {}
    JobOrder <- MCAlertOrder
    At <- MCAt
    Account = {ann}
    Linked = {ann}
    Rule <- MCRule
    Price = {90}
    DayLength = 3
    RetryAfter = 1
    CatchUp = 1
    RepeatAfter = 4
    Shell = {shell}
    MaxRuns = 2
    MaxManual = 1
    MaxStops = 1
CHECK_DEADLOCK FALSE
INVARIANTS OnePerDay SentMeansQueued DayIsServed
PROPERTIES AlertWaits
