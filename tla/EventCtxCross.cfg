SPECIFICATION Spec
CONSTANTS
    Fds = {f1, f2, f3}
    Nodes = {n1, n2, n3, n4}
    NoFd = NoFd
    MaxDepth = 1
INVARIANT LiveWatcherArmed
