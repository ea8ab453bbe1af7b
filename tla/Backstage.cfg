SPECIFICATION FairSpec
CONSTANTS
  o1 = o1
  Writers <- MCWriters
  Panel = Desk
  Keyed <- MCKeyed
  Workers = {k1, k2}
  Batch = 2
  MaxAttempts = 2
  MaxFaults = 1
  d1 = d1
  Dates = {d1, d2}
  Orders = {o1}
  People = {p1}
  OrderOf <- MCOrderOf
  Confirming = {c1, c2, c3}
  Refunding = {r1, r2}
  Filling = {f1, f2}
  Pairs = {{c1, c2}, {c1, f1}, {f1, f2}, {c1, r1}, {r1, r2}}
  Series = {{c1, c2, c3, r1, r2}}
  Deliveries <- MCDeliveries
  Attestations = {a1}
  Jobs = {j1, j2}
  Requests = {q1, q2, q3}
  AnchorWorkers = {v1, v2}
  AnchorAttempts = 2
  MaxStops = 1
  g3 = g3
  m1 = m1
  m2 = m2
  Replicas = {m1, m2}
  Callers = {g1, g2, g3}
  ReplicaOf <- MCReplicaOf
  Last = 2
INVARIANTS OneCopy MailFollowsTheSale OneIssueAtATime AnchorIsReal
PROPERTIES QueuesDrain FeesCatchUp
CHECK_DEADLOCK FALSE
