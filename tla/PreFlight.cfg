CONSTANTS
    nomodel = nomodel
    Callers = {c1}
    Versions <- MCVersions
    MaxGpus = 1
    MaxChanges = 2
    Models <- MCModels
    NoModel = nomodel
SPECIFICATION Spec
INVARIANTS
    BlockersNeedCause
    AdviceGrounded
    AdviceTaken
    EstimateFits
