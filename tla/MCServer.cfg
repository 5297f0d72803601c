\* Small v1 databases, new files and files of older versions; three seconds, a
\* fault, and a connection.
CONSTANTS
  u1 = u1  gone = gone  r1 = r1  r2 = r2  c1 = c1  c2 = c2  c3 = c3
  g1 = g1  n1 = n1  n2 = n2  n3 = n3  t1 = t1  t2 = t2  e = e
  Users = {u1, gone}
  Retros = {r1, r2}
  Columns = {c1, c2, c3}
  Groups = {g1, n2}
  Notes = {n1, n2, n3}
  Tasks = {t1, t2}
  Emojis = {e}
  Someone = someone
  Text = text
  Untitled = untitled
  None = None
  MinVotes = 1
  MaxVotesCap = 15
  OldDatabases <- SmallDatabases
  Migrations = 4
  Conns = {k}
  MaxNow = 2
  MaxFaults = 1
SPECIFICATION Spec
INVARIANTS TypeOK CopyFirst SchemaInOrder ImportedHealthy ImportAddsUp
PROPERTIES WorkEndsFirst Stops Upgrades
