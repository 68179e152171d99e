SPECIFICATION Spec
CONSTANTS
  Commands <- MCCommands
  Path <- MCPath
  InDir <- MCInDir
  Extra <- MCExtra
  Presets <- MCPresets
  Events = 2
  MaxInt = 127
  Day = 6
  Start = 10
  MaxKills = 3
INVARIANTS
  OwnRunResumes
  
  
