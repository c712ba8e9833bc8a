SPECIFICATION Spec
CONSTANTS
    Router <- MCRouter
    Net <- MCNet
    me = 1
    Issued <- MCIssued
INVARIANTS TypeOK MinimumHops ShortestPaths ParentsCloser RoutesCloser
