\* A 401 answer to the old token arrives after a rotation has saved the new one.
SPECIFICATION Spec
CONSTANTS
    Handlers = {h1, h2}
    MaxToken = 2
    MaxSecret = 2
    MaxFaults = 0
SYMMETRY Symmetry
PROPERTY RevokedWasUnusable
