\* Two containers, two namespace numbers, one task in the hooks, every hook.
SPECIFICATION Spec
CONSTANTS
  web = web
  db = db
  n1 = n1
  n2 = n2
  Threads = {t1}
  Containers = {web, db}
  Namespaces <- NamespaceSet
  Policies <- SomePolicies
  Requests <- SomeRequests
  Room = 1
SYMMETRY NamespaceSymmetry
ACTION_CONSTRAINTS ReturnsAtOnce RefusedAtFirst
INVARIANTS TypeOK AnswerOfOneTable AuditKeepsAnswer InForceWhenSettled
