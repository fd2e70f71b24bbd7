SPECIFICATION AssistantSpec
CONSTANTS
    c1 = c1  r1 = r1  r2 = r2  m1 = m1  m2 = m2  e1 = e1  e2 = e2
    u1 = u1  u2 = u2  p1 = p1  p2 = p2  f1 = f1  w1 = w1  w2 = w2  k1 = k1  k2 = k2
    Convs = {c1}
    Requests = {r1, r2}
    Lengths = {1, 3}
    MaxMessages = 2
    MaxHistory = 2
    HistoryChars = 3
    QueryChars = 2
    Memories = {m1, m2}
    Editors = {e1, e2}
    Texts = {2, 3}
    Levels = {1, 2}
    MaxMemories = 1
    MaxContext = 2
    ContextChars = 4
    LastTime = 1
    Never = Never
    NoMemory = NoMemory
    Users = {u1, u2}
    Paths = {p1, p2}
    Files = {f1}
    In <- MCIn
    Workers = {w1, w2}
    MaxVersion = 1
    MaxAdds = 2
    NoRow = NoRow
    Owners = {u1, u2}
    Lifetime = 1
    MaxStates = 3
    EndTime = 3
    NoState = NoState
    Writers = {w1, w2}
    Credentials = {k1, k2}
    NoFile = NoFile
INVARIANTS ConversationsKept StoresKept
PROPERTIES RequestsEnd RequestSteps
\* Every request may be served.
CHECK_DEADLOCK FALSE
