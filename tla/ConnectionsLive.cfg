SPECIFICATION Spec
CONSTANTS
    a1 = a1
    a2 = a2
    n1 = n1
    n2 = n2
    h1 = h1
    k1 = k1
    loop = loop
    Addr = {a1, a2}
    Name = {n1, n2}
    Mortal = {a1}
    Slaves <- MCSlaves
    Handlers = {h1}
    Loop = loop
    Checkers = {k1}
    Attempts = 2
    MaxConns = 2
PROPERTIES
    DeadSlaveForgotten
CHECK_DEADLOCK TRUE
