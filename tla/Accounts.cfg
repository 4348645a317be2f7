SPECIFICATION Spec
CONSTANTS
    Account = {a1, a2}
    Address = {e1, e2}
    Subject = {g1, g2}
    Chat = {c1, c2}
    MaxFails = 1
    MaxLinks = 2
    MaxSessions = 2
    MaxWaiting = 1
SYMMETRY MCSymmetry
CHECK_DEADLOCK FALSE
INVARIANTS OneAccountPerAddress VerifiedWasProved OnlyLatestWorks ChatsPair
PROPERTIES SubjectKeepsAccount
