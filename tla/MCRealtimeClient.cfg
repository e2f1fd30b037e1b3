SPECIFICATION FairHmi
CONSTANTS
  s1 = s1  s2 = s2  
  Sockets = {s1, s2}
  None = None
  DelayCap = 2
  MaxEvents = 2
INVARIANTS TypeOK OneConnection NeverStranded GreenIsWatched 
PROPERTY Reconnects
