SPECIFICATION TableSpec
CONSTANTS
    Field <- Fields
    RuleUrl <- RuleUrls
    Url <- Urls
    Handler = {h1, h2}
    NoHandler = NoHandler
    MaxRule = 3
INVARIANTS
    FindFollowsRules
