SPECIFICATION Spec
CONSTANTS
  Events = {"issues", "issue_comment", "ping", "push"}
  Ids = {"d1"}
  Actions = {"opened", ""}
INVARIANTS
  RefusedAsDocumented
