SPECIFICATION Spec
CONSTANTS
  MaxFields = 2
  MaxAccum = 9
  max_num_entries = 2
  V5FLOWS_PER_PAK = 1
  Variable = 65535
  Word = 1000000
  TemplateIds = {256}
  FieldCounts = {0, 1, 2, 3}
  FieldLens = {2, 5, 65535}
  VarLens = {3, 255}
  SetLens = {3, 12, 16}
  PacketLens = {42}
  Counts = {2, 40}
INVARIANTS TemplatesRestored
