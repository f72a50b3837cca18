SPECIFICATION DeviceListSpec
CONSTANTS
    Projects = {project}
    Workspaces = {w1}
    ProjectOf <- OneProject
    RegistryRuns = {cli}
    MaxSessions = 1
PROPERTY AcknowledgedProjectsSurvive
CHECK_DEADLOCK FALSE
