CONSTANTS
  a = a
  b = b
  c = c
  f1 = f1
  f2 = f2
  g1 = g1
  Teams = {a, b, c}
  Fixtures = {f1, f2}
  Sides <- MCSides
  Groups = {g1}
  Members <- MCMembers
  Markets <- MCMarkets
  Listings <- MCListings
  Tournaments <- MCTournaments
SPECIFICATION Spec
CHECK_DEADLOCK FALSE
INVARIANT RuleEdgesHold
INVARIANT ReachLadderComplete
INVARIANT ImpliesAcyclic
INVARIANT ExclusionsHold
INVARIANT MatchPartitionsHold
