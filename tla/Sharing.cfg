SPECIFICATION Spec
CONSTANTS
    r1 = r1
    r2 = r2
    Users = {"alice", "bob"}
    Groups = {"staff"}
    Everyone = "everyone"
    Member <- MCMember
    Reqs = {r1, r2}
    Created <- MCCreated
    ShareInputs <- MCShareInputs
    UpdateInputs <- MCUpdateInputs
    NewOwners = {"bob", "staff"}
    MaxRequests = 3
SYMMETRY Symmetry
INVARIANTS AcmFollowsPermissions OwnerControls KeysUsable
PROPERTIES SharesWhatIsHeld ShareTakesEffect ResendChangesNothing
CHECK_DEADLOCK FALSE
