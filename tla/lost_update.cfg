SPECIFICATION Spec
CONSTANTS
    Tabs = {t1, t2}
    Roles = {r1}
    Images = {i1}
    StepRoles = 1
    ProfileRoles = 1
    MaxVersion = 2
    NoImage = NoImage
    NoTab = NoTab
SYMMETRY Symmetry
PROPERTY NoLostUpdate
CHECK_DEADLOCK FALSE
