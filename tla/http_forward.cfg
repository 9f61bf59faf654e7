SPECIFICATION HttpSpec
CONSTANTS
    Request = {c1}
    Site <- ForwardProxies
    Char <- Chars
    Path <- Paths
    IndexFiles = 2
INVARIANT
    ForwardProxyForwards
