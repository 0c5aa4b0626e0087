CONSTANTS
  Confidences = {59, 60}
  Reputations = {85, 86}
  Caps = {1000, 10000}
  Stakes <- MCStakes
  Significands = 16
  Powers = {1, 2, 4, 8, 16, 32, 64, 128, 256, 512, 1024, 2048, 4096, 8192}
SPECIFICATION WalkSpec
INVARIANTS AmountNearShare
PROPERTIES ScheduleMonotone LadderMonotone
\* The walk ends at the worst verdict.
CHECK_DEADLOCK FALSE
