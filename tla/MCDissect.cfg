SPECIFICATION FairSpec
CONSTANTS
  MaxFields = 2
  MaxAccum = 9
  max_num_entries = 2
  V5FLOWS_PER_PAK = 1
  Variable = 65535
  Word = 1000000
  TemplateIds = {256}
  FieldCounts = {1, 2, 3}
  FieldLens = {0, 4, 65535}
  VarLens = {0}
  SetLens = {3, 16, 23}
  PacketLens = {40}
  Counts = {2, 40}
INVARIANTS WholeRecords RecordsInside OptionRecords
PROPERTIES TemplateInside DissectionEnds
