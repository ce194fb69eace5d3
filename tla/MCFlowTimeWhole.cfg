SPECIFICATION Spec
CONSTANTS
  dInterval = 3
  max_intervals = 8
  Far = 10
  Word = 4096
  Milli = 10
  Now = 40
  Times = {5, 28, 31, 32, 33, 34, 35, 37, 40}
  Exports = {37, 40}
  Uptimes = {12, 38}
  Fallbacks = {0}
  Amounts = {7}
  MaxMessages = 13
INVARIANTS ConservedAlways
CHECK_DEADLOCK FALSE
