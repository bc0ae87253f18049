SPECIFICATION MCSpec
CONSTANTS
    x = x  y = y  t1 = t1  t2 = t2  o1 = o1  o2 = o2  tea = tea  ghost = ghost
    m1 = m1  m2 = m2  m3 = m3  m4 = m4  m5 = m5  m6 = m6  m7 = m7  m8 = m8  m9 = m9  m10 = m10
    n1 = n1  n2 = n2  n3 = n3  n4 = n4  n5 = n5  n6 = n6  n7 = n7
    h1 = h1  h2 = h2
    NULL = NULL
    OrderIds = {o1, o2}
    Tenants = {x, y}
    Tables = {t1, t2}
    Products = {tea, ghost}
    Menu = {tea}
    MutationIds = {m1, m2, m3, m4, m5, m6, m7, m8, m9, m10, n1, n2, n3, n4, n5, n6, n7}
    Requests <- AllRequests
    Handlers = {h1, h2}
    LinesTotal <- MCLinesTotal
SYMMETRY HandlerSymmetry
INVARIANTS
    OutboxFollowsVersions
    PaymentsMatchOrders
    ConflictMeansNoEffect
    AcknowledgedIsTrue
    TenantIsolation
PROPERTIES
    StatusMovesLegally
