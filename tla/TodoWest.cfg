SPECIFICATION Spec
CONSTANTS
  call = call
  water = water
  Tasks <- MCTasks
  Daily <- MCDaily
  Procs = {c1}
  Bodies <- MCBodies
  LastDay = 3
  Runs = 2
  Edits = 0
  Exposed = {"west"}
INVARIANTS
  OneTodoPerDay
CHECK_DEADLOCK FALSE
