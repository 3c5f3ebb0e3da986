SPECIFICATION Spec
CONSTANTS
    p1 = p1
    p2 = p2
    tcp = tcp
    ip1 = ip1
    r1 = r1
    r2 = r2
    maintain = maintain
    Ports = {p1, p2}
    IPs = {ip1}
    Chains = {"INPUT"}
    Flows <- MCFlows
    Requests = {r1, r2}
    Maintainer = maintain
    MaxRequests = 2
    MaxFaults = 0
INVARIANTS
    MembersGetThrough
