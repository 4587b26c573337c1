\* Two applications requested at once (TestMigrationSimpleMultiTenant), and two
\* kinds of resources, requested or not.
CONSTANTS
  Resources = {mesh, istio}
  Requests = {tenantA, tenantB}
  mesh = mesh
  istio = istio
  tenantA = tenantA
  tenantB = tenantB
SPECIFICATION Spec
INVARIANTS
  TypeOK
  RequestedIsPresent
  NoRequesterOutlivesTest
PROPERTIES
  TestEnds
  KeepsWatch
\* The test really may hang.
CHECK_DEADLOCK FALSE
