SPECIFICATION HeapSpec
CONSTANTS
  Base = 8
  Rows = 4
  LayoutTail = 4
  HeapSize = 100
  GroupCounts = {2}
  SlotCounts = {1, 2, 3}
  GradSlotArgs = {0}
  ElemBytes = {2, 4}
  WeightsFirst = TRUE
INVARIANTS
  ViewsApart
  ViewsInHeap
  ReadsWhatWasWritten
