\* Two targets rung at once, two handlers beside the dialer, events in any order.
SPECIFICATION Spec
CONSTANTS
  Targets = 2
  AppLegs <- FirstLeg
  Handler = {h1, h2}
  MaxBusy = 2
  Dialer = Dialer
SYMMETRY Symmetry
CONSTRAINT Followed
INVARIANT TypeOK TakenCallStopsRinging CallerIsServed PromptIsForTheUnanswered
PROPERTY WinnerIsNotHungUp
CHECK_DEADLOCK FALSE
