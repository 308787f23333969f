CONSTANTS
  t1 = t1
  t2 = t2
  t3 = t3
  Tasks <- MCTasks
  Capacity = 2
  Cost = 5
  Window = 10
SPECIFICATION Spec
INVARIANT
  DocumentedBudget
