CONSTANTS
  Voltages = {3299, 3300, 3400, 3499, 3500, 3501, 4100, 4101}
  FULL_VOLTAGE_VALUE = 4100
  EMPTY_VOLTAGE_VALUE = 3500
  SHUTDOWN_VOLTAGE_VALUE = 3300
  BATTERY_EMPTY_COUNT = 10
  CRITICAL_LOW_COUNT = 20
  VOLTAGE_POWER_ON_MEASURE_COUNT = 15
  VOLTAGE_MEASURE_INTERVAL = 2
  BACKLIGHT_OFF_VOLTAGE_MEASURE_INTERVAL = 1
SPECIFICATION FairSpec
INVARIANTS PercentageOrdered
PROPERTIES ShutdownNeedsARow CriticalUntilPower LowEndsInShutdown
