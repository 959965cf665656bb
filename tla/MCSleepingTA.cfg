CONSTANTS
  student_num = 2
  NUM_SEAT = 2
SPECIFICATION OfficeFairSpec
INVARIANTS ChairsAreRing SemaphoresBalance
PROPERTIES EveryChairServed LessonKept
