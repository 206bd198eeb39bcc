CONSTANTS
  None = None
  Attachments = {1}
  Limits <- MCQuietLimits
SPECIFICATION Spec
PROPERTY CloseKeepsPeer
CHECK_DEADLOCK FALSE
