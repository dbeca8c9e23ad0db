\* Tables, messages, memory, state and control of a panel.
CONSTANTS
  Noise <- NoneOrFew
  Pieces = {1, 36, 80}
  Content = 11
  Models = {"evo48", "spectra"}
  Programs <- AllOrEveryOther
  Configured = {{1, 2, 3, 4, 40}}
  MaxLoads = 2
  MaxChanges = 3
SPECIFICATION SpecOfParts
INVARIANTS FlagsCanClear StatusCoversElements ChangesTold RepliesRecognised FieldsDisjoint StreamDelivered FieldsRead LabelsOnlyEnabled PollCorrects AnnouncedIsRecent TrueMeansAll PulseDoesNotStay
PROPERTY StateSettles
CHECK_DEADLOCK FALSE
