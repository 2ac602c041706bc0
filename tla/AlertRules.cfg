\* Two rules, one of them with a dead endpoint, and two overlapping passes.
SPECIFICATION FairRulesSpec
CONSTANTS
    Rules = {dead, live}
    Steady = {dead, live}
    Dead = {dead}
    Removable = {dead}
    Passes = {p1, p2}
    Cooldown = 1
    MaxFailures = 2
    CrashLimit = 1
PROPERTIES CooldownHolds BreachIsNotified DeadEndpointDisabled
