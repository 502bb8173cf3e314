INIT TomlInit
NEXT TomlNext
CONSTANTS
  Sections = {"cloud", "ui"}
  SettingKeys = {"enabled", "key"}
  Cloud = "cloud"
  Enabled = "enabled"
  MaxTextLines = 4
INVARIANTS
  CloudTurnsOn
CHECK_DEADLOCK FALSE
