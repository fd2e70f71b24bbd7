CONSTANTS
  a = a  b = b  i = i  h1 = h1  h2 = h2
  Users = {u1}
  Systems = {s1}
  States = {a, b, i}
  Active = {a, b}
  Subscribers = {h1, h2}
  Wants <- MCWants
  MaxEvents = 2
  Absent = Absent
  NoJob = NoJob
SPECIFICATION OrgSpec
INVARIANTS Replayable SnapshotKept EventsAgree
