SPECIFICATION Spec
CONSTANTS
  Calls = {"InitCdrom", "ReadData", "ReadXa", "StopXa", "DriveStart", "DriveStop"}
  Lbas = {1}
  Sizes = {0, 4, 9}
  SecSize = 4
  Refusable = {"GetStat", "SetSession", "ReadN", "ReadS"}
  FailAt = {0}
  HostSpeeds = {"fast", "slow"}
  PromptPause = TRUE
  DiscSize = 4
  None = None
INVARIANTS OwnAnswers ConsecutiveSectors BufferExact
PROPERTIES LeavesDriveQuiet CallsReturn
CHECK_DEADLOCK FALSE
