SPECIFICATION Spec
CONSTANTS
    Tasks = {"a", "b"}
    Kinds = {"read"}
    Cooldown = TRUE
    WriteAttempts = 3
PROPERTY CooldownAfterEachRequest
