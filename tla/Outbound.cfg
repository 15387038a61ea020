SPECIFICATION Spec
CONSTANTS
  Rules <- MCRules
  MaxMatches = 4
  MaxText = 8
  MaxDigits = 4
  MaxValues = 14
  MaxParts = 3
  MaxMembers = 2
  MaxDepth = 5
  MaxOutput = 24
  Labels = {"api", "org"}
  Loopback = {"local"}
  Public = {"public", "other"}
  Providers = {"p1", "p2"}
  Passthrough = {"p1"}
  Answers <- MCAnswers
  Requests <- MCRequests
INVARIANTS
  RedactionExact
  NumbersClean
  OnlyRedactedLeaves
  AttemptsStartAlike
  KeyGoesToItsProvider
  ConnectsWithinAllowlist
  NeverBlocked
  WipedAtEnd
