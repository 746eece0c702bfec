SPECIFICATION ClockSpec
CONSTANTS
    Word = 32
    Alarms = {uart}
    Periods = {1, 5, 30}
    Thousand = 5
    SettleTime = 3
PROPERTIES CalledOnTime SettleWaited SettleEndsIfInRange
