\* One module, two clients, saves that fail and a process that may die.
CONSTANTS
    Uuids = {u1}
    Vals = {v1, v2}
    Secrets = {s1}
    None = None
    Mask = Mask
    Bad = Bad
    MaxGen = 3
SPECIFICATION Spec
INVARIANTS SavedIsLive
PROPERTIES KeptAsARegister PutSeesEveryPut PutBackKeepsSecrets
