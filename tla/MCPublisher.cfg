CONSTANTS
    MaxCommit = 2
    Reviewed <- FirstCommit
    NoTag = NoTag
SPECIFICATION Spec
INVARIANTS SentWasVerified LookedUnderMain ReportsTrue NeverPostsAgain
