\* Every mixture of push, try_pop and clear on a queue of up to three messages.
SPECIFICATION QueueSpec
CONSTANTS
  Names = {a, b}
  Sizes = {0, 1, 3}
  MaxCount = 3
INVARIANTS TotalSize
PROPERTIES IsFifo
