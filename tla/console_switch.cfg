CONSTANTS
  Projects = {1, 2}
  LiveProjects = {}
  Tour = {"overview", "customers", "customer", "settings"}
  OtherTabs = FALSE
  MaxReads = 1
  MaxLists = 1
SPECIFICATION Spec
INVARIANT LinkedToThePage
CHECK_DEADLOCK FALSE
