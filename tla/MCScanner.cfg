CONSTANT Sources <- Texts
SPECIFICATION MCSpec
INVARIANTS MatchesGrammar WithinText
PROPERTIES ReachesEnd ReadsOn
