SPECIFICATION Spec
CONSTANTS
  Occurring = {"html", "head", "body", "script", "ins", "form", "a", "select", "optgroup", "option", "textarea", "button", "input", "isindex"}
  Hideable = {"textarea"}
  MaxDepth = 5
CHECK_DEADLOCK FALSE
INVARIANTS TypeOK SectionsMatch ControlsApart InputIsCurrent EofCloses
