CONSTANTS
    p1 = p1  p2 = p2
    NoResult = NoResult
    Statuses <- MCStatuses
    Payloads <- MCPayloads
SPECIFICATION Spec
INVARIANT AlertsAgree
