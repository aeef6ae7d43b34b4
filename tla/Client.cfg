SPECIFICATION ClientSpec
CONSTANTS
    Old = {c1}
    New = new
    MaxTurn = 2
    MaxViewSteps = 4
    MaxChange = 2
    Nobody = Nobody
    Failures = {"fetch", "stream", "truncate", "create", "delete conversation", "archive"}
    Item = {1, 2, 3}
    Creatable = 3
    MaxListChange = 2
    Query = {q1, q2}
    Nothing = Nothing
    Space = {a, b}
    Nowhere = Nowhere
    MaxFail = 1
    Doc = {d1, d2, d3}
    Supported = {d1, d2}
    NoDoc = NoDoc
    Parts = 3
    Batch = 2
    Concurrency = 2
    MaxDrops = 2
    MaxMishaps = 2
    Template = {1, 2}
    Given = {1}
    Label = {x, y}
    Chat = {r1, r2}
    NoRow = NoRow
INVARIANTS ViewShowsItsCache ListsSettle UploadsSettle FormsReachTheirRows
PROPERTIES LiveAnswersSurviveSwitches PollingGoesOn
CHECK_DEADLOCK FALSE
