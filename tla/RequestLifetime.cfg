\* A station and a child; two displays; two signals a request. One correlation id
\* at a time: a request waits for what an earlier one of the same id left behind.
CONSTANTS
  Callers = {"kiosk", "child"}
  Serials = {1}
  Displays = {"none", "seat"}
  MaxEvents = 2
SPECIFICATION Spec
INVARIANTS AdmittedInSession PromptAttended
PROPERTIES DepartureReleasesLock AgentlessRequestEnds
