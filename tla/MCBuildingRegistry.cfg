SPECIFICATION RegistrySpec
CONSTANTS
    Buildings = {b1, b2}
    Requests = {r1}
    Loop = loop
    MaxChanges = 2
    MaxFailures = 1
    MaxRestarts = 1
    Absent = Absent
PROPERTIES
    OlderOnlyIfOvertaken
    ForgetsOnlyByRestart
    Converges
