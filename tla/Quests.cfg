CONSTANTS
  Dailies <- ThreeNames
  DrawCount = 1
  NoRepeatDays = 1
  DaysPerWeek = 2
  DeadRise = 1
  Counters = {"complete_task", "clear_zombie"}
  DailyGoals <- ThreeDailies
  StoryGoals <- Stories
  BossGoals <- SecondBoss
  MaxDay = 3
  MaxCount = 2
  MaxBacklog = 1
  MaxZombies = 1
INIT MCInit
NEXT MCNext
INVARIANTS QuestsPaidOnce DailiesFollowTheDays
PROPERTY WorkCountsForShown
CHECK_DEADLOCK FALSE
