CONSTANTS
  NilVName = NilVName
  EntryKeys <- ScenarioKeys
  MaxShards = 4
SPECIFICATION Spec
INVARIANT ShardsCoverSnapshot
