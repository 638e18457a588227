SPECIFICATION VoiceSpec
CONSTANTS
  Pages = {elder, operator}
  ElderPages = {elder}
  Commands = {c1, c2}
PROPERTIES
  ClearedStaysCleared
