SPECIFICATION Spec
CONSTANTS
    Files = {"a.rb", "b.rb"}
    MaxEdits = 4
    MaxAsks = 2
INVARIANT TreesAreOwned
INVARIANT ForestFollows
INVARIANT AnswersAreOfTheTextAsked
CHECK_DEADLOCK FALSE
