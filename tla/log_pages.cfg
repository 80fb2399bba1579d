SPECIFICATION Spec
CONSTANTS
  Walk = {"logs", "explorer"}
  Ask = {}
  Limit = {1, 2}
  MaxRows = 4
  MaxAdded = 1
INVARIANT PagesCoverTheList
CHECK_DEADLOCK FALSE
