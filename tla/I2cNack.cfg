SPECIFICATION I2cSpec
CONSTANTS
  I2cTasks = {t1, t2}
  Boot = boot
  NoRequester = none
  Sizes = {0, 1, 3}
  Wrap = 4
  MaxCalls = 1
  MaxBytes = 4
CHECK_DEADLOCK FALSE
PROPERTY AbsentDeviceIsReported
