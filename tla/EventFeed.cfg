\* Two connections, of one user or of two, and one event.
CONSTANTS
  Connections = {"c1", "c2"}
  Users = {"anonymous", "u1"}
  Events = {"e1"}
SPECIFICATION FeedSpec
INVARIANTS NothingLeaks
PROPERTIES GoneIsForgotten SubscriberDelivers FallbackDelivers
\* When the events are out and the connections gone nothing is left to do.
CHECK_DEADLOCK FALSE
