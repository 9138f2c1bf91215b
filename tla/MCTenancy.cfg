CONSTANTS
    Subjects = {s1, s2}
    Projects = {p1, p2, p3}
    Calls = {c1, c2}
    TierNames = {t, u}
    TierCatalogue = {t}
    ModelNames = {m, n}
    ModelCatalogue = {m}
    Nil = Nil
    Unborn = Unborn
    Gone = Gone
SPECIFICATION FocusSpec
SYMMETRY Sym
INVARIANTS
    ExactlyOneDefault
PROPERTIES
    AllowlistSwitchGuarded
CHECK_DEADLOCK FALSE
