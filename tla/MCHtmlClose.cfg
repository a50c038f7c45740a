SPECIFICATION Spec
CONSTANTS
  Occurring = {"html", "div", "table", "tr", "td", "p", "a"}
  Hideable = {}
  MaxDepth = 5
CHECK_DEADLOCK FALSE
PROPERTY BlockClosesInline
