CONSTANTS
    e1 = e1
    t1 = t1
    None = None
    Engines = {e1}
    Tasks = {t1}
    Actions <- MCActions
    Policy <- MCPolicy
    Observed = {"workspace"}
SPECIFICATION Spec
INVARIANTS
    CancelledMeansStopped
