SPECIFICATION Spec
CONSTANTS
    None = None
    DefaultRules <- MCDefaultRules
    Bodies <- MCBodies
    DefaultConfig <- MCDefaultConfig
    Configs <- MCConfigs
    Models <- MCModels
    Samples <- MCSamples
    Window = 1
    MaxRate = 1
    Warmup = 1
    Sustain = 2
    SustainS = 2
    MaxSamples = 5
    MaxConfigs = 1
    MaxPushes = 1
INVARIANTS
    RateExact
    SustainExact
PROPERTIES
    JudgedByNewestConfig
