SPECIFICATION Spec
CONSTANTS
  Works <- MCWorks
  Detectable <- MCDetectable
  Losable <- MCLosable
  Kills = 1
  Edits = 1
INVARIANT DoctorForesees
PROPERTY HealthyKept
PROPERTY AdviceHeals
CHECK_DEADLOCK FALSE
