--------------------------- MODULE MCUserAccounts ---------------------------
EXTENDS UserAccounts

MCOwnerOf == [r \in Requests |-> CHOOSE u \in Users : TRUE]

\* src/controller/user.go:1588, "ManageUser Only admin user can do this": a
\* change of a user's own profile does not change the user's status.
StatusByAdmin == byUser = {}

\* src/model/recharge_request.go:123, "request is not pending": a request is
\* paid at most once.  Not met.
RechargeOnce == \A r \in Requests : credited[r] <= 1
============================================================================
