\* Two gets of the same query, the documents changed once, a listen refused.
SPECIFICATION FairSpec
CONSTANTS
  Gets = {g1, g2}
  MaxCommits = 1
  MaxBreaks = 1
  MaxRestarts = 1
  MaxRejects = 1
INVARIANTS
  AnsweredOnce
  ServerViewIsNew
  OutstandingIsAwaited
  TrackerAgrees
  StreamAsNeeded
PROPERTY GetAnswered
\* Each get is made once.
CHECK_DEADLOCK FALSE
