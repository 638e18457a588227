SPECIFICATION AckSpec
CONSTANTS
  Entries = {e1}
  Passes = {startup, reconnect}
  Startup = startup
  MaxRetries = 2
PROPERTIES
  AckedNotResent
